\* Three handlers come and go, with all that can be called on the way.
CONSTANTS
  Handler = {h1, h2, h3}
  Nobody = Nobody
  Reports <- EndpointReports
SPECIFICATION Spec
INVARIANTS TypeOK UsedWhileAlive LeaseAtHand Quiescent
PROPERTY CallbacksReturn

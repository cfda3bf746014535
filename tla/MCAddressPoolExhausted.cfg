\* More simultaneous clients than client addresses: the counter wraps.
CONSTANTS
  Lessee = {c1, c2, c3, c4, c5, c6}
  FirstAddress = 3
  ReservedFrom = 7
  Modulus = 8
  NoLease = NoLease
SPECIFICATION Spec
INVARIANT AssignedAboveGateway

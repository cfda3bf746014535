\* As many simultaneous clients as there are client addresses.
CONSTANTS
  Lessee = {c1, c2, c3, c4}
  FirstAddress = 3
  ReservedFrom = 7
  Modulus = 8
  NoLease = NoLease
SPECIFICATION Spec
INVARIANTS TypeOK LeasesDistinct AddressesConserved CounterBounded
PROPERTY ImplementsAllocator

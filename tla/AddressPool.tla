----------------------------- MODULE AddressPool ------------------------------
(***************************************************************************)
(* The pool of short addresses (SSAs) for gateway clients: AddressPool.cpp *)
(* and the AddressLease objects it hands out.                              *)
(*                                                                         *)
(* A fresh address comes from a 16-bit counter that starts at 0x4001 and   *)
(* is never checked against an upper bound; an address whose lease was     *)
(* destroyed is queued and reused before the counter is touched again.     *)
(* The widths are parameters so that TLC can run the counter into its end. *)
(***************************************************************************)
EXTENDS Integers, Sequences, FiniteSets, Functions

CONSTANTS
  Lessee,         \* the connection handlers that can exist at the same time
  FirstAddress,   \* 0x4001, the first address for a client
  ReservedFrom,   \* 0xFFF0, from here on an address names a group of clients
  Modulus,        \* 2^16, the range of uint16_t
  NoLease         \* the null shared_ptr<AddressLease>

ASSUME AddressAssumption ==
  /\ FirstAddress \in Nat /\ ReservedFrom \in Nat /\ Modulus \in Nat
  /\ 0 < FirstAddress /\ FirstAddress <= ReservedFrom /\ ReservedFrom < Modulus
  /\ NoLease \notin 0..(Modulus - 1)
  /\ IsFiniteSet(Lessee)

VARIABLES
  m_NextFreeAddress,    \* the 16-bit counter
  m_ReleasedAddresses,  \* the deque of reclaimed addresses
  m_AddressLease        \* the address each handler's lease stands for

vars == <<m_NextFreeAddress, m_ReleasedAddresses, m_AddressLease>>

Address == 0..(Modulus - 1)
ClientAddress == FirstAddress..(ReservedFrom - 1)

Leased == {c \in Lessee : m_AddressLease[c] # NoLease}
Released == Range(m_ReleasedAddresses)
LeasedAddresses == {m_AddressLease[c] : c \in Leased}

Init ==
  /\ m_NextFreeAddress = FirstAddress
  /\ m_ReleasedAddresses = <<>>
  /\ m_AddressLease = [c \in Lessee |-> NoLease]

(* Mutant: the counter is read but not incremented. *)
LeaseFreshNotCounted(c) ==
  /\ m_ReleasedAddresses = <<>>
  /\ m_AddressLease' = [m_AddressLease EXCEPT ![c] = m_NextFreeAddress]
  /\ UNCHANGED <<m_NextFreeAddress, m_ReleasedAddresses>>

(* ObtainAddressLease: no reclaimed address is available. *)
LeaseFresh(c) ==
  /\ m_ReleasedAddresses = <<>>
  /\ m_AddressLease' = [m_AddressLease EXCEPT ![c] = m_NextFreeAddress]
  /\ m_NextFreeAddress' = (m_NextFreeAddress + 1) % Modulus
  /\ UNCHANGED m_ReleasedAddresses

(* Mutant: front() without pop_front(). *)
LeaseReclaimedNotPopped(c) ==
  /\ m_ReleasedAddresses # <<>>
  /\ m_AddressLease' = [m_AddressLease EXCEPT ![c] = Head(m_ReleasedAddresses)]
  /\ UNCHANGED <<m_NextFreeAddress, m_ReleasedAddresses>>

(* Mutant: front() followed by pop_back(). *)
LeaseReclaimedPopsBack(c) ==
  /\ m_ReleasedAddresses # <<>>
  /\ m_AddressLease' = [m_AddressLease EXCEPT ![c] = Head(m_ReleasedAddresses)]
  /\ m_ReleasedAddresses' = SubSeq(m_ReleasedAddresses, 1, Len(m_ReleasedAddresses) - 1)
  /\ UNCHANGED m_NextFreeAddress

(* Mutant: reclaimed addresses are kept but never reused. *)
LeaseReclaimedNever(c) ==
  /\ m_ReleasedAddresses # <<>>
  /\ m_AddressLease' = [m_AddressLease EXCEPT ![c] = m_NextFreeAddress]
  /\ m_NextFreeAddress' = (m_NextFreeAddress + 1) % Modulus
  /\ UNCHANGED m_ReleasedAddresses

(* ObtainAddressLease: the oldest of the reclaimed addresses is taken. *)
LeaseReclaimed(c) ==
  /\ m_ReleasedAddresses # <<>>
  /\ m_AddressLease' = [m_AddressLease EXCEPT ![c] = Head(m_ReleasedAddresses)]
  /\ m_ReleasedAddresses' = Tail(m_ReleasedAddresses)
  /\ UNCHANGED m_NextFreeAddress

ObtainAddressLease(c) ==
  /\ m_AddressLease[c] = NoLease
  /\ LeaseFresh(c) \/ LeaseReclaimed(c)

(* Mutant: the address is queued after the lease has been reset. *)
ReleaseAddressLeaseTooLate(c) ==
  /\ m_AddressLease[c] # NoLease
  /\ m_AddressLease' = [m_AddressLease EXCEPT ![c] = NoLease]
  /\ m_ReleasedAddresses' = Append(m_ReleasedAddresses, m_AddressLease'[c])
  /\ UNCHANGED m_NextFreeAddress

(* The destructor of the lease object queues its address for reuse. *)
ReleaseAddressLease(c) ==
  /\ m_AddressLease[c] # NoLease
  /\ m_ReleasedAddresses' = Append(m_ReleasedAddresses, m_AddressLease[c])
  /\ m_AddressLease' = [m_AddressLease EXCEPT ![c] = NoLease]
  /\ UNCHANGED m_NextFreeAddress

Next == \E c \in Lessee : ObtainAddressLease(c) \/ ReleaseAddressLease(c)

Spec == Init /\ [][Next]_vars

-------------------------------------------------------------------------------
(* The client range has an address for everyone who can be connected at     *)
(* the same time.  Nothing in the code checks this.                         *)
EnoughAddresses == Cardinality(Lessee) <= ReservedFrom - FirstAddress

(* Every variable of the pool has the type its C++ member has. *)
TypeOK ==
  /\ m_NextFreeAddress \in Address
  /\ m_ReleasedAddresses \in Seq(Address)
  /\ m_AddressLease \in [Lessee -> Address \cup {NoLease}]

(* No two connected clients are ever assigned the same short address (the   *)
(* "unique SSA" of doc/protocol.md), although addresses are reused.         *)
LeasesDistinct ==
  \A c, d \in Leased : c # d => m_AddressLease[c] # m_AddressLease[d]

(* Every address the counter has ever produced is accounted for exactly     *)
(* once: held by one client or waiting once in the queue.  None is lost,    *)
(* none is queued twice, and none is queued while somebody still holds it.  *)
AddressesConserved ==
  /\ LeasedAddresses \cup Released = FirstAddress..(m_NextFreeAddress - 1)
  /\ LeasedAddresses \cap Released = {}
  /\ IsInjective(m_ReleasedAddresses)

(* Addresses are reused before new ones are made: however long the gateway  *)
(* runs, the counter has moved at most once per simultaneous client, so it  *)
(* stays inside the client range and never reaches the group addresses.     *)
CounterBounded ==
  /\ m_NextFreeAddress - FirstAddress <= Cardinality(Lessee)
  /\ LeasedAddresses \subseteq ClientAddress

(* The pool implements the abstract allocator: it never hands out an        *)
(* address that is in use or outside the client range, and a client's       *)
(* address never changes while it holds the lease.                          *)
Allocator == INSTANCE AddressAllocator WITH lease <- m_AddressLease
ImplementsAllocator == Allocator!Spec

(* The address of every lease is above the gateway's own one, as the        *)
(* address assignment reply promises its reader (doc/protocol.md:205).      *)
AssignedAboveGateway == \A a \in LeasedAddresses : a >= FirstAddress
===============================================================================

--------------------------- MODULE AddressAllocator ---------------------------
(***************************************************************************)
(* What the gateway's address database promises its clients, independent   *)
(* of how it keeps its books: a connected client holds exactly one short   *)
(* address of the client range, nobody else holds it at the same time, and *)
(* a client keeps its address until it hands it back.                      *)
(*                                                                         *)
(* Which free address a client gets is left open.  AddressPool, the        *)
(* translation of AddressPool.cpp, is shown to implement this module.      *)
(***************************************************************************)
CONSTANTS
  Lessee,         \* those who may hold an address
  ClientAddress,  \* the addresses that may be handed out
  NoLease         \* "holds no address"

VARIABLE lease    \* [Lessee -> ClientAddress or NoLease]

InUse == {lease[c] : c \in Lessee} \ {NoLease}

Init == lease = [c \in Lessee |-> NoLease]

Obtain(c) ==
  /\ lease[c] = NoLease
  /\ \E a \in ClientAddress \ InUse : lease' = [lease EXCEPT ![c] = a]

Release(c) ==
  /\ lease[c] # NoLease
  /\ lease' = [lease EXCEPT ![c] = NoLease]

Next == \E c \in Lessee : Obtain(c) \/ Release(c)

Spec == Init /\ [][Next]_lease
===============================================================================

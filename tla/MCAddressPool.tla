---------------------------- MODULE MCAddressPool -----------------------------
(* The address pool scaled down to a counter of three bits: client          *)
(* addresses 3..6, group addresses from 7 on.  MCAddressPool.cfg has four   *)
(* handlers, as many as there are client addresses; in                      *)
(* MCAddressPoolExhausted.cfg six of them drive the counter past its end.   *)
EXTENDS AddressPool
===============================================================================

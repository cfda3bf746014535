----------------------------- MODULE MCSnetGateway ----------------------------
(* Two devices and two clients; the client of the second device may report  *)
(* its end after a failed attempt.                                          *)
EXTENDS SnetGateway
===============================================================================

-------------------------- MODULE HdlcdClientHandler --------------------------
(***************************************************************************)
(* The handlers that keep up the connections to the HDLC daemons           *)
(* (HdlcdClientHandler.cpp and its collection).  Each one resolves the     *)
(* host name, connects, and starts over after a pause on any failure.      *)
(*                                                                         *)
(* One retry timer serves all three kinds of failure.  Setting it cancels  *)
(* a wait that is under way, but not one that has expired and whose        *)
(* handler is queued in the event loop: then two attempts run at once.     *)
(*                                                                         *)
(* The access client is external.  It reports the outcome of connecting    *)
(* once and the end of a connection once; which clients report their end   *)
(* after a failed attempt as well is the parameter ReportsBoth.            *)
(***************************************************************************)
EXTENDS Integers, FiniteSets

CONSTANTS
  Handler,       \* one per device given on the command line
  ReportsBoth,   \* those whose client may report both a failed attempt and its end
  MaxQueued      \* bound: expired waits in the event loop, lookups under way

ASSUME ReportsAssumption == ReportsBoth \subseteq Handler /\ MaxQueued \in Nat \ {0}

VARIABLES
  resolving,              \* lookups under way
  m_ConnectionRetryTimer, \* a wait is under way
  expired,                \* waits that have expired, their handlers not run yet
  m_HdlcdClient,          \* the client the handler points to
  running                 \* the event loop

vars == <<resolving, m_ConnectionRetryTimer, expired, m_HdlcdClient, running>>

ClientPhase == {"none", "connecting", "connected", "failed", "ended"}

(* The constructor starts the first lookup. *)
Init ==
  /\ resolving = [h \in Handler |-> 1]
  /\ m_ConnectionRetryTimer = [h \in Handler |-> FALSE]
  /\ expired = [h \in Handler |-> 0]
  /\ m_HdlcdClient = [h \in Handler |-> "none"]
  /\ running = TRUE

SetRetryTimer(h) == m_ConnectionRetryTimer' = [m_ConnectionRetryTimer EXCEPT ![h] = TRUE]

ResolveFails(h) ==
  /\ running /\ resolving[h] > 0
  /\ resolving' = [resolving EXCEPT ![h] = @ - 1]
  /\ SetRetryTimer(h)
  /\ UNCHANGED <<expired, m_HdlcdClient, running>>

(* Mutant: a lookup reports twice. *)
ResolveSucceedsTwice(h) ==
  /\ running
  /\ resolving' = [resolving EXCEPT ![h] = @ - 1]
  /\ m_HdlcdClient' = [m_HdlcdClient EXCEPT ![h] = "connecting"]
  /\ UNCHANGED <<m_ConnectionRetryTimer, expired, running>>

(* A new client takes the place of the previous one, which is destroyed.    *)
ResolveSucceeds(h) ==
  /\ running /\ resolving[h] > 0
  /\ resolving' = [resolving EXCEPT ![h] = @ - 1]
  /\ m_HdlcdClient' = [m_HdlcdClient EXCEPT ![h] = "connecting"]
  /\ UNCHANGED <<m_ConnectionRetryTimer, expired, running>>

(* Mutant: the retry is not limited to failures. *)
ConnectSucceedsAndRetries(h) ==
  /\ running /\ m_HdlcdClient[h] = "connecting"
  /\ m_HdlcdClient' = [m_HdlcdClient EXCEPT ![h] = "connected"]
  /\ SetRetryTimer(h)
  /\ UNCHANGED <<resolving, expired, running>>

ConnectSucceeds(h) ==
  /\ running /\ m_HdlcdClient[h] = "connecting"
  /\ m_HdlcdClient' = [m_HdlcdClient EXCEPT ![h] = "connected"]
  /\ UNCHANGED <<resolving, m_ConnectionRetryTimer, expired, running>>

(* Mutant: a failed attempt is repeated at once and after the pause. *)
ConnectFailsRetriesTwice(h) ==
  /\ running /\ m_HdlcdClient[h] = "connecting"
  /\ m_HdlcdClient' = [m_HdlcdClient EXCEPT ![h] = "failed"]
  /\ resolving' = [resolving EXCEPT ![h] = @ + 1]
  /\ SetRetryTimer(h)
  /\ UNCHANGED <<expired, running>>

(* Mutant: a failed attempt is reported but not repeated. *)
ConnectFailsForGood(h) ==
  /\ running /\ m_HdlcdClient[h] = "connecting"
  /\ m_HdlcdClient' = [m_HdlcdClient EXCEPT ![h] = "failed"]
  /\ UNCHANGED <<resolving, m_ConnectionRetryTimer, expired, running>>

ConnectFails(h) ==
  /\ running /\ m_HdlcdClient[h] = "connecting"
  /\ m_HdlcdClient' = [m_HdlcdClient EXCEPT ![h] = "failed"]
  /\ SetRetryTimer(h)
  /\ UNCHANGED <<resolving, expired, running>>

(* Mutant: the end of a connection does not start the pause. *)
OnClosedForGood(h) ==
  /\ running
  /\ m_HdlcdClient[h] = "connected" \/ (h \in ReportsBoth /\ m_HdlcdClient[h] = "failed")
  /\ m_HdlcdClient' = [m_HdlcdClient EXCEPT ![h] = "ended"]
  /\ UNCHANGED <<resolving, m_ConnectionRetryTimer, expired, running>>

OnClosed(h) ==
  /\ running
  /\ m_HdlcdClient[h] = "connected" \/ (h \in ReportsBoth /\ m_HdlcdClient[h] = "failed")
  /\ m_HdlcdClient' = [m_HdlcdClient EXCEPT ![h] = "ended"]
  /\ SetRetryTimer(h)
  /\ UNCHANGED <<resolving, expired, running>>

TimerExpires(h) ==
  /\ running /\ m_ConnectionRetryTimer[h] /\ expired[h] < MaxQueued
  /\ m_ConnectionRetryTimer' = [m_ConnectionRetryTimer EXCEPT ![h] = FALSE]
  /\ expired' = [expired EXCEPT ![h] = @ + 1]
  /\ UNCHANGED <<resolving, m_HdlcdClient, running>>

ResolveDestination(h) ==
  /\ running /\ expired[h] > 0 /\ resolving[h] < MaxQueued
  /\ expired' = [expired EXCEPT ![h] = @ - 1]
  /\ resolving' = [resolving EXCEPT ![h] = @ + 1]
  /\ UNCHANGED <<m_ConnectionRetryTimer, m_HdlcdClient, running>>

(* The event loop stops: whatever is queued is not run any more.            *)
Stop ==
  /\ running
  /\ running' = FALSE
  /\ UNCHANGED <<resolving, m_ConnectionRetryTimer, expired, m_HdlcdClient>>

(* A client that is closed may report its end at once: the timer is set, but*)
(* nobody waits for it any longer.                                          *)
Close(h) ==
  /\ m_HdlcdClient' = [m_HdlcdClient EXCEPT ![h] = "none"]
  /\ \/ UNCHANGED m_ConnectionRetryTimer
     \/ m_HdlcdClient[h] \in {"connecting", "connected"} /\ SetRetryTimer(h)
  /\ UNCHANGED <<resolving, expired, running>>

Stopped == ~running /\ UNCHANGED vars

Event(h) ==
  \/ ResolveFails(h) \/ ResolveSucceeds(h)
  \/ ConnectFails(h) \/ ConnectSucceeds(h) \/ OnClosed(h)
  \/ TimerExpires(h) \/ ResolveDestination(h)

Next ==
  \/ \E h \in Handler : Event(h) \/ (~running /\ Close(h))
  \/ Stop \/ Stopped

(* The event loop runs handlers and timers expire.  Lookups and connection  *)
(* attempts come to an end, and do not fail forever if repeated forever.    *)
Fairness ==
  \A h \in Handler : /\ WF_vars(TimerExpires(h))
                     /\ WF_vars(ResolveDestination(h))
                     /\ WF_vars(ResolveSucceeds(h) \/ ResolveFails(h))
                     /\ WF_vars(ConnectSucceeds(h) \/ ConnectFails(h))
                     /\ SF_vars(ResolveSucceeds(h))
                     /\ SF_vars(ConnectSucceeds(h))

Spec == Init /\ [][Next]_vars /\ Fairness

-------------------------------------------------------------------------------
(* Every variable has its type.                                             *)
TypeOK ==
  /\ resolving \in [Handler -> 0..MaxQueued]
  /\ m_ConnectionRetryTimer \in [Handler -> BOOLEAN]
  /\ expired \in [Handler -> 0..MaxQueued]
  /\ m_HdlcdClient \in [Handler -> ClientPhase]
  /\ running \in BOOLEAN

InUse(h) == m_HdlcdClient[h] \in {"connecting", "connected"}

(* What may lead to the handler's next step towards a connection, or is one.*)
Attempts(h) ==
  resolving[h] + expired[h] + (IF m_ConnectionRetryTimer[h] THEN 1 ELSE 0)
               + (IF InUse(h) THEN 1 ELSE 0)

(* A handler whose client ends with one report pursues exactly one attempt  *)
(* at a time: no second lookup, wait or client exists beside it.            *)
SingleAttempt == running => \A h \in Handler \ ReportsBoth : Attempts(h) = 1

(* Even if a client reports both a failed attempt and its end, a handler is *)
(* never left without a retry under way.                                    *)
NeverGivesUp == running => \A h \in Handler : Attempts(h) >= 1

(* Then a working connection is never thrown away for a new one.            *)
ConnectionKept ==
  [][\A h \in Handler \ ReportsBoth :
       m_HdlcdClient[h] = "connected" => m_HdlcdClient'[h] # "connecting"]_vars

(* A handler always gets its connection back ("on any error, restart after  *)
(* a short delay", HdlcdClientHandler.cpp:69) until the process ends.       *)
Reconnects == \A h \in Handler : []<>(m_HdlcdClient[h] = "connected" \/ ~running)
===============================================================================

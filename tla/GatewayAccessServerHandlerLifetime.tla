------------------ MODULE GatewayAccessServerHandlerLifetime ------------------
(***************************************************************************)
(* The handlers of the gateway access server as objects: who holds a       *)
(* shared_ptr to them, and who is in the middle of one of their methods    *)
(* when the last shared_ptr goes.  GatewayAccessServer takes every callback*)
(* for one action; here a callback is the sequence of its calls, and the   *)
(* state between two calls can be seen.                                    *)
(*                                                                         *)
(* The single thread has a stack of activations, the innermost first.  An  *)
(* activation is a point in a method of a handler (or of its protocol      *)
(* entity, which is a member of it): what it does next uses the handler.   *)
(* Activations that have nothing left to do are not kept.                  *)
(*                                                                         *)
(* The frame endpoint is external.  Reports are those of its operations    *)
(* that may report the end of the connection before they return, by        *)
(* calling the OnClosed callback.                                          *)
(***************************************************************************)
EXTENDS Sequences, FiniteSets

CONSTANTS
  Handler,   \* the handlers that can exist at the same time
  Nobody,    \* of an activation that concerns no handler: the closing loop
  Reports    \* \subseteq {"Start", "SendFrame", "Close"}

ASSUME HandlerAssumption == Nobody \notin Handler

(* The code relies on this: the caller of SendFrame may be iterating over   *)
(* the handlers, the caller of Close uses the handler afterwards.           *)
ASSUME ReportsAssumption == Reports \subseteq {"Start"}

VARIABLES
  m_GatewayAccessServerHandlerList,   \* its order is not observable
  remaining,        \* the handlers behind the iterator of Send
  stack,
  alive,            \* constructed and not destroyed
  m_Registered,
  m_AddressLease,   \* whether the pointer is set
  endpoint,         \* of the handler: "open" as long as it may call back
  phase

memberVars == <<m_Registered, m_AddressLease>>
vars == <<m_GatewayAccessServerHandlerList, remaining, stack, alive, memberVars, endpoint, phase>>

At(point, h) == [at |-> point, of |-> h]

ClosePoint == {"Protocol::Close", "OnClosedCallback", "Close", "Deregister", "Leave"}
Point == ClosePoint \cup {"DoAccept", "Start", "Protocol::Start", "OnFrame", "OnPayload",
                          "Send", "++It", "SystemShutdown"}

(* Mutant: Close does not keep the object alive. *)
HoldersWithoutSelf == {"DoAccept"}

(* Where a local variable holds a pointer: of DoAccept, and self of Close.  *)
Holders == {"DoAccept", "Deregister", "Leave"}

(* Mutant: the list does not own what it lists. *)
OwnedByLocals(h, handlers, calls) ==
  \E i \in DOMAIN calls : calls[i].of = h /\ calls[i].at \in Holders

Owned(h, handlers, calls) ==
  h \in handlers \/ \E i \in DOMAIN calls : calls[i].of = h /\ calls[i].at \in Holders

Init ==
  /\ m_GatewayAccessServerHandlerList = {} /\ remaining = {}
  /\ stack = <<>> /\ alive = {}
  /\ m_Registered = [h \in Handler |-> FALSE]
  /\ m_AddressLease = [h \in Handler |-> FALSE]
  /\ endpoint = [h \in Handler |-> "closed"]
  /\ phase = "running"

-------------------------------------------------------------------------------
(* The innermost activation is at this point of h; it goes on with others.  *)
(* A handler that has lost its last owner is destroyed.                     *)
Running(point, h) == stack # <<>> /\ Head(stack) = At(point, h)

Proceed(handlers, calls) ==
  /\ m_GatewayAccessServerHandlerList' = handlers
  /\ stack' = calls \o Tail(stack)
  /\ alive' = {h \in alive : Owned(h, handlers, calls \o Tail(stack))}

Continue(calls) == Proceed(m_GatewayAccessServerHandlerList, calls)

(* The nested calls an operation of the endpoint may make.                  *)
Reported(operation, h) ==
  {<<>>} \cup IF operation \in Reports /\ endpoint[h] = "open"
              THEN {<<At("Protocol::Close", h)>>} ELSE {}

(* An operation that may break the connection, and then the rest.           *)
CallEndpoint(operation, h, rest) ==
  \E report \in Reported(operation, h) :
    /\ Continue(report \o rest)
    /\ endpoint' = IF report = <<>> THEN endpoint ELSE [endpoint EXCEPT ![h] = "closed"]

(* DoAccept creates the handler and holds on to it until it has returned.   *)
Start(h) ==
  /\ Running("Start", h)
  /\ m_Registered' = [m_Registered EXCEPT ![h] = TRUE]
  /\ Proceed(m_GatewayAccessServerHandlerList \cup {h}, <<At("Protocol::Start", h)>>)
  /\ UNCHANGED <<remaining, m_AddressLease, endpoint, phase>>

StartProtocol(h) ==
  /\ Running("Protocol::Start", h)
  /\ \E report \in {<<>>} \cup IF "Start" \in Reports THEN {<<At("Protocol::Close", h)>>} ELSE {} :
       /\ Continue(report)
       /\ endpoint' = [endpoint EXCEPT ![h] = IF report = <<>> THEN "open" ELSE "closed"]
  /\ UNCHANGED <<remaining, memberVars, phase>>

DoAcceptEnds(h) ==
  /\ Running("DoAccept", h)
  /\ Continue(<<>>)
  /\ UNCHANGED <<remaining, memberVars, endpoint, phase>>

(* Mutant: the endpoint is left open. *)
CloseProtocolOnly(h) ==
  /\ Running("Protocol::Close", h)
  /\ Continue(<<At("OnClosedCallback", h)>>)
  /\ UNCHANGED <<remaining, memberVars, endpoint, phase>>

(* GatewayAccessProtocol::Close: the endpoint, then the handler.            *)
CloseProtocol(h) ==
  /\ Running("Protocol::Close", h)
  /\ \E report \in Reported("Close", h) : Continue(report \o <<At("OnClosedCallback", h)>>)
  /\ endpoint' = [endpoint EXCEPT ![h] = "closed"]
  /\ UNCHANGED <<remaining, memberVars, phase>>

CallOnClosed(h) ==
  /\ Running("OnClosedCallback", h)
  /\ Continue(<<At("Close", h)>>)
  /\ UNCHANGED <<remaining, memberVars, endpoint, phase>>

(* GatewayAccessServerHandler::Close *)
Close(h) ==
  /\ Running("Close", h)
  /\ Continue(IF m_Registered[h] THEN <<At("Deregister", h)>> ELSE <<>>)
  /\ m_Registered' = [m_Registered EXCEPT ![h] = FALSE]
  /\ m_AddressLease' = [m_AddressLease EXCEPT ![h] = IF m_Registered[h] THEN FALSE ELSE @]
  /\ UNCHANGED <<remaining, endpoint, phase>>

(* Mutant: the collection keeps its pointer. *)
DeregisterForgotten(h) ==
  /\ Running("Deregister", h)
  /\ Continue(<<At("Leave", h)>>)
  /\ UNCHANGED <<remaining, memberVars, endpoint, phase>>

Deregister(h) ==
  /\ Running("Deregister", h)
  /\ Proceed(m_GatewayAccessServerHandlerList \ {h}, <<At("Leave", h)>>)
  /\ UNCHANGED <<remaining, memberVars, endpoint, phase>>

(* Resets a member of the handler, then self goes out of scope.             *)
Leave(h) ==
  /\ Running("Leave", h)
  /\ Continue(<<>>)
  /\ UNCHANGED <<remaining, memberVars, endpoint, phase>>

-------------------------------------------------------------------------------
(* GatewayAccessServerHandlerCollection::Send: the first handler, and what  *)
(* is then behind the iterator.                                             *)
SendFirst(handlers) ==
  \/ handlers = {} /\ Continue(<<>>) /\ remaining' = {}
  \/ \E h \in handlers : Continue(<<At("Send", h)>>) /\ remaining' = handlers \ {h}

Send(h) ==
  /\ Running("Send", h)
  /\ CallEndpoint("SendFrame", h, <<At("++It", h)>>)
  /\ UNCHANGED <<remaining, memberVars, phase>>

(* Mutant: the iterator stays where it is. *)
SendNextStays(h) ==
  /\ Running("++It", h)
  /\ SendFirst((remaining \cup {h}) \cap m_GatewayAccessServerHandlerList)
  /\ UNCHANGED <<memberVars, endpoint, phase>>

SendNext(h) ==
  /\ Running("++It", h)
  /\ SendFirst(remaining \cap m_GatewayAccessServerHandlerList)
  /\ UNCHANGED <<memberVars, endpoint, phase>>

(* A frame: a violation, a command, or one with a payload.                  *)
OnFrame(h) ==
  /\ Running("OnFrame", h)
  /\ \/ /\ Continue(<<At("Protocol::Close", h)>>)
        /\ UNCHANGED endpoint
     \/ CallEndpoint("SendFrame", h, <<>>)
     \/ CallEndpoint("SendFrame", h, <<At("OnPayload", h)>>)
  /\ UNCHANGED <<remaining, memberVars, phase>>

(* A service replies, or the packet is routed, possibly to all handlers.    *)
OnPayload(h) ==
  /\ Running("OnPayload", h)
  /\ \/ CallEndpoint("SendFrame", h, <<>>) /\ UNCHANGED remaining
     \/ SendFirst(m_GatewayAccessServerHandlerList) /\ UNCHANGED endpoint
  /\ UNCHANGED <<memberVars, phase>>

CloseNext ==
  /\ Running("SystemShutdown", Nobody)
  /\ \/ /\ m_GatewayAccessServerHandlerList = {}
        /\ Continue(<<>>)
        /\ phase' = "stopped"
     \/ \E h \in m_GatewayAccessServerHandlerList :
          Continue(<<At("Close", h), At("SystemShutdown", Nobody)>>) /\ UNCHANGED phase
  /\ UNCHANGED <<remaining, memberVars, endpoint>>

Step ==
  \/ \E h \in Handler :
       \/ Start(h) \/ StartProtocol(h) \/ DoAcceptEnds(h)
       \/ CloseProtocol(h) \/ CallOnClosed(h) \/ Close(h) \/ Deregister(h) \/ Leave(h)
       \/ Send(h) \/ SendNext(h) \/ OnFrame(h) \/ OnPayload(h)
  \/ CloseNext

-------------------------------------------------------------------------------
(* The event loop calls back when nothing is running.                       *)
Event == phase = "running" /\ stack = <<>>

Accept(h) ==
  /\ Event /\ h \notin alive
  /\ stack' = <<At("Start", h), At("DoAccept", h)>>
  /\ alive' = alive \cup {h}
  /\ m_AddressLease' = [m_AddressLease EXCEPT ![h] = TRUE]
  /\ UNCHANGED <<m_GatewayAccessServerHandlerList, remaining, m_Registered, endpoint, phase>>

FrameArrives(h) ==
  /\ Event /\ endpoint[h] = "open"
  /\ stack' = <<At("OnFrame", h)>>
  /\ UNCHANGED <<m_GatewayAccessServerHandlerList, remaining, alive, memberVars, endpoint, phase>>

ConnectionBreaks(h) ==
  /\ Event /\ endpoint[h] = "open"
  /\ endpoint' = [endpoint EXCEPT ![h] = "closed"]
  /\ stack' = <<At("Protocol::Close", h)>>
  /\ UNCHANGED <<m_GatewayAccessServerHandlerList, remaining, alive, memberVars, phase>>

PacketArrives ==
  /\ Event
  /\ \E h \in m_GatewayAccessServerHandlerList :
       /\ stack' = <<At("Send", h)>>
       /\ remaining' = m_GatewayAccessServerHandlerList \ {h}
  /\ UNCHANGED <<m_GatewayAccessServerHandlerList, alive, memberVars, endpoint, phase>>

Stop ==
  /\ Event
  /\ phase' = "stopping"
  /\ stack' = <<At("SystemShutdown", Nobody)>>
  /\ UNCHANGED <<m_GatewayAccessServerHandlerList, remaining, alive, memberVars, endpoint>>

Stopped == phase = "stopped" /\ UNCHANGED vars

Next ==
  \/ Step
  \/ \E h \in Handler : Accept(h) \/ FrameArrives(h) \/ ConnectionBreaks(h)
  \/ PacketArrives \/ Stop \/ Stopped

(* The thread goes on with what it is doing. *)
Spec == Init /\ [][Next]_vars /\ WF_vars(Step)

-------------------------------------------------------------------------------
(* Every variable has its type, and whatever is listed exists.              *)
TypeOK ==
  /\ m_GatewayAccessServerHandlerList \subseteq alive /\ remaining \subseteq Handler
  /\ alive \subseteq Handler
  /\ stack \in Seq([at : Point, of : Handler \cup {Nobody}])
  /\ m_Registered \in [Handler -> BOOLEAN]
  /\ m_AddressLease \in [Handler -> BOOLEAN]
  /\ endpoint \in [Handler -> {"open", "closed"}]
  /\ phase \in {"running", "stopping", "stopped"}

(* No method goes on with a handler that has been destroyed, although the   *)
(* last pointer to it may go in the middle of Close, on behalf of the very  *)
(* object: Close of the handler keeps it alive, and nobody it returns to    *)
(* uses it again.  The iterator of Send points to a member of the list.     *)
UsedWhileAlive ==
  \A i \in DOMAIN stack :
    /\ stack[i].of # Nobody => stack[i].of \in alive
    /\ stack[i].at \in {"Send", "++It"} => stack[i].of \in m_GatewayAccessServerHandlerList

(* Send, OnPayload and Close find the lease they dereference, also within   *)
(* the callback that resets it.                                             *)
LeaseAtHand ==
  \A i \in DOMAIN stack :
    stack[i].at \in {"Send", "OnPayload", "Close"} => m_AddressLease[stack[i].of]

(* Between two callbacks a handler exists if and only if it is listed,      *)
(* registered, has a lease, and, as long as there are callbacks, is what    *)
(* its endpoint calls: nothing leaks, nothing dangles.  This is what allows *)
(* GatewayAccessServer to take each callback for one action.                *)
Quiescent ==
  stack = <<>> =>
    /\ m_GatewayAccessServerHandlerList = alive
    /\ alive = {h \in Handler : m_Registered[h]}
    /\ alive = {h \in Handler : m_AddressLease[h]}
    /\ phase = "running" => alive = {h \in Handler : endpoint[h] = "open"}
    /\ phase = "stopped" => alive = {}

(* Every callback returns to the event loop, and the process ends when it   *)
(* is told to.                                                              *)
CallbacksReturn == stack # <<>> ~> stack = <<>>
===============================================================================

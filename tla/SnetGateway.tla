----------------------------- MODULE SnetGateway ------------------------------
(***************************************************************************)
(* The whole program (main-snet-gateway.cpp) as a graph of objects that    *)
(* hold shared pointers to each other, in cycles: the routing entity and   *)
(* both collections, each handler and its collection.  main creates them,  *)
(* runs the event loop, in which clients come and go and the HDLCd         *)
(* handlers of HdlcdClientHandler do their work, and takes the graph apart *)
(* before the io_service goes out of scope, which acceptor, resolvers and  *)
(* timers refer to.                                                        *)
(*                                                                         *)
(* An address lease belongs to its handler alone: the pair of a handler    *)
(* and the pool stands for it.                                             *)
(***************************************************************************)
EXTENDS HdlcdClientHandler, Sequences, SequencesExt

CONSTANTS
  Conn,             \* the gateway access server handlers
  GatewayAccess,    \* their collection
  HdlcdClients,     \* the collection of the HDLCd client handlers
  RoutingEntity,
  Pool

Collection == {GatewayAccess, HdlcdClients}
Object == Conn \cup Handler \cup Collection \cup {RoutingEntity, Pool}

ASSUME ObjectAssumption ==
  /\ Conn \cap Handler = {} /\ GatewayAccess # HdlcdClients /\ RoutingEntity # Pool
  /\ Collection \cap (Conn \cup Handler) = {}
  /\ {RoutingEntity, Pool} \cap (Conn \cup Handler \cup Collection) = {}

VARIABLES
  alive,      \* constructed and not destroyed
  pointers,   \* <<x, y>>: a member of x points to y
  locals,     \* what main's variables point to, in the order of their definition
  main,       \* what main does next
  thrown      \* the exception it has caught

graphVars == <<alive, pointers, locals>>
mainVars == <<vars, graphVars, main, thrown>>

(* Reference counting: what survives is held by main or by a survivor.      *)
Survivors(objects, members, roots) ==
  UNION {kept \in SUBSET objects :
           \A y \in kept : y \in roots \/ \E x \in kept : <<x, y>> \in members}

Hold(members, variables) ==
  /\ alive' = Survivors(alive, members, ToSet(variables))
  /\ pointers' = {p \in members : p[1] \in alive'}
  /\ locals' = variables

Reset(members) == Hold(pointers \ members, locals)

MainInit ==
  /\ Init
  /\ alive = {} /\ pointers = {} /\ locals = <<>>
  /\ main = "options" /\ thrown = "nothing"

-------------------------------------------------------------------------------
(* Up to the event loop.                                                    *)

(* The command line: it may ask for help, lack the port or the devices, or  *)
(* not be parsable, which throws.  Asking for the version ends nothing.     *)
ParseOptions ==
  /\ main = "options" /\ main' = "listen"
  /\ UNCHANGED <<vars, graphVars, thrown>>

RefuseOptions ==
  /\ main = "options" /\ main' = "leave"
  /\ thrown' \in {"nothing", "options_error"}
  /\ Stop
  /\ UNCHANGED graphVars

(* The collection of the gateway clients with its acceptor; the port may be *)
(* in use.                                                                  *)
Listen ==
  /\ main = "listen" /\ main' = "construct"
  /\ alive' = alive \cup {GatewayAccess, Pool}
  /\ pointers' = pointers \cup {<<GatewayAccess, Pool>>}
  /\ locals' = <<GatewayAccess>>
  /\ UNCHANGED <<vars, thrown>>

ListenFails ==
  /\ main = "listen" /\ main' = "leave"
  /\ thrown' = "system_error"
  /\ Stop
  /\ UNCHANGED graphVars

(* The other collection, the routing entity, and Initialize of both.        *)
Construct ==
  /\ main = "construct" /\ main' = "configure"
  /\ alive' = alive \cup {HdlcdClients, RoutingEntity}
  /\ pointers' = pointers \cup {<<RoutingEntity, x>> : x \in Collection}
                          \cup {<<x, RoutingEntity>> : x \in Collection}
  /\ locals' = <<GatewayAccess, HdlcdClients, RoutingEntity>>
  /\ UNCHANGED <<vars, thrown>>

CreateHdlcdClientHandler(h) ==
  /\ main = "configure" /\ h \notin alive
  /\ alive' = alive \cup {h}
  /\ pointers' = pointers \cup {<<HdlcdClients, h>>, <<h, RoutingEntity>>}
  /\ UNCHANGED <<vars, locals, main, thrown>>

(* Mutant: a handler of the exception shuts down the routing entity only. *)
InvalidSpecifierHalfShutDown ==
  /\ main = "configure" /\ main' = "leave"
  /\ thrown' = "validation_error"
  /\ Stop
  /\ Reset({RoutingEntity} \X Collection)

(* A destination specifier that does not match the expression.              *)
InvalidSpecifier ==
  /\ main = "configure" /\ main' = "leave"
  /\ thrown' = "validation_error"
  /\ Stop
  /\ UNCHANGED graphVars

RunEventLoop ==
  /\ main = "configure" /\ Handler \subseteq alive
  /\ main' = "run"
  /\ UNCHANGED <<vars, graphVars, thrown>>

-------------------------------------------------------------------------------
(* The event loop.                                                          *)
HdlcdEvent(h) ==
  /\ main = "run"
  /\ Event(h)
  /\ UNCHANGED <<graphVars, main, thrown>>

Accept(c) ==
  /\ main = "run" /\ c \notin alive
  /\ alive' = alive \cup {c}
  /\ pointers' = pointers \cup {<<GatewayAccess, c>>, <<c, GatewayAccess>>,
                                <<c, RoutingEntity>>, <<c, Pool>>}
  /\ UNCHANGED <<vars, locals, main, thrown>>

(* Mutant: the handler stays in the list. *)
CloseHandlerListed(c) ==
  /\ <<GatewayAccess, c>> \in pointers
  /\ Reset({<<c, Pool>>, <<c, GatewayAccess>>})

(* Close of a gateway access server handler: when its client leaves, or at  *)
(* the end.                                                                 *)
CloseHandler(c) ==
  /\ <<GatewayAccess, c>> \in pointers
  /\ Reset({<<c, Pool>>, <<GatewayAccess, c>>, <<c, GatewayAccess>>})

ClientLeaves(c) == main = "run" /\ CloseHandler(c) /\ UNCHANGED <<vars, main, thrown>>

(* Mutant: the shutdown begins while the event loop goes on. *)
SignalArrivesInLoop ==
  /\ main = "run" /\ main' = "HDLCD"
  /\ UNCHANGED <<vars, graphVars, thrown>>

SignalArrives ==
  /\ main = "run" /\ main' = "HDLCD"
  /\ Stop
  /\ UNCHANGED <<graphVars, thrown>>

(* An exception of a callback ends the event loop, and main skips the       *)
(* SystemShutdowns.  Nobody catches it on the way, so the pointers are what *)
(* they were before or after one of the events above.                       *)
EventLoopThrows ==
  /\ main = "run" /\ main' = "leave"
  /\ thrown' = "callback_error"
  /\ Stop
  /\ UNCHANGED graphVars

-------------------------------------------------------------------------------
(* The three SystemShutdowns, and the end of the scope.                     *)
Drop(members) == Reset(members) /\ UNCHANGED <<vars, thrown>>

HdlcdSystemShutdown ==
  /\ main = "HDLCD" /\ main' = "HDLCD handlers"
  /\ Drop({<<HdlcdClients, RoutingEntity>>})

HdlcdHandlerShutdown(h) ==
  /\ main = "HDLCD handlers" /\ h \in alive
  /\ Close(h)
  /\ Reset({<<h, RoutingEntity>>, <<HdlcdClients, h>>})
  /\ UNCHANGED <<main, thrown>>

GatewayAccessSystemShutdown ==
  /\ main = "HDLCD handlers" /\ Handler \cap alive = {}
  /\ main' = "GWCLIENTS handlers"
  /\ Drop({<<GatewayAccess, RoutingEntity>>})

GatewayAccessHandlerShutdown(c) ==
  /\ main = "GWCLIENTS handlers"
  /\ CloseHandler(c)
  /\ UNCHANGED <<vars, main, thrown>>

(* Mutant: the loop over the handlers ends too early. *)
RoutingSystemShutdownEarly ==
  /\ main = "GWCLIENTS handlers"
  /\ main' = "leave"
  /\ Drop({RoutingEntity} \X Collection)

RoutingSystemShutdown ==
  /\ main = "GWCLIENTS handlers" /\ Conn \cap alive = {}
  /\ main' = "leave"
  /\ Drop({RoutingEntity} \X Collection)

LeaveScope ==
  /\ main = "leave" /\ locals # <<>>
  /\ Hold(pointers, Front(locals))
  /\ UNCHANGED <<vars, main, thrown>>

(* The io_service is the last one to be destroyed.                          *)
Return ==
  /\ main = "leave" /\ locals = <<>>
  /\ main' = "returned"
  /\ UNCHANGED <<vars, graphVars, thrown>>

Returned == main = "returned" /\ UNCHANGED mainVars

Startup ==
  \/ ParseOptions \/ RefuseOptions
  \/ Listen \/ ListenFails \/ Construct \/ InvalidSpecifier \/ RunEventLoop
  \/ \E h \in Handler : CreateHdlcdClientHandler(h)

Shutdown ==
  \/ HdlcdSystemShutdown \/ \E h \in Handler : HdlcdHandlerShutdown(h)
  \/ GatewayAccessSystemShutdown \/ \E c \in Conn : GatewayAccessHandlerShutdown(c)
  \/ RoutingSystemShutdown \/ LeaveScope \/ Return

MainNext ==
  \/ Startup
  \/ \E h \in Handler : HdlcdEvent(h)
  \/ \E c \in Conn : Accept(c) \/ ClientLeaves(c)
  \/ SignalArrives \/ EventLoopThrows
  \/ Shutdown \/ Returned

(* What main does by itself it does without waiting.                        *)
MainSpec ==
  /\ MainInit /\ [][MainNext]_mainVars
  /\ WF_mainVars(Startup) /\ WF_mainVars(Shutdown) /\ Fairness

-------------------------------------------------------------------------------
(* As long as callbacks run, each of them finds all that it calls: no null  *)
(* pointer in the vector of HDLCd handlers or behind the routing entity, no *)
(* handler without lease, routing entity or collection.                     *)
CallbacksFindTheirObjects ==
  running /\ main \notin {"options", "listen", "construct", "configure"} =>
    /\ {<<RoutingEntity, x>> : x \in Collection} \subseteq pointers
    /\ {<<GatewayAccess, RoutingEntity>>, <<GatewayAccess, Pool>>} \subseteq pointers
    /\ \A h \in Handler : {<<HdlcdClients, h>>, <<h, RoutingEntity>>} \subseteq pointers
    /\ \A c \in Conn \cap alive :
         {<<GatewayAccess, c>>, <<c, GatewayAccess>>, <<c, RoutingEntity>>, <<c, Pool>>}
           \subseteq pointers

(* The exceptions that reach main past the SystemShutdowns, when there are  *)
(* objects already.                                                         *)
SkipsShutdown == {"validation_error", "callback_error"}

(* When the io_service is destroyed, every object that uses it has been     *)
(* destroyed before, whatever cycles there were, unless an exception has    *)
(* skipped the shutdown.                                                    *)
NothingOutlivesIoService ==
  main = "returned" /\ thrown \notin SkipsShutdown => alive = {}

(* In that case (main-snet-gateway.cpp:116) main still lets go of one       *)
(* component after the other.  The cycles keep them all: what is left       *)
(* behind is left whole, and no destructor ever runs in a program whose     *)
(* handlers, timers and acceptor have not been shut down.                   *)
ExceptionDestroysNothing == [][thrown' \in SkipsShutdown => alive' = alive]_mainVars

(* main always comes to its end after the signal, or an error.              *)
MainReturns == ~running ~> main = "returned"
===============================================================================

--------------------------- MODULE SnetGatewayProofs --------------------------
(***************************************************************************)
(* Proofs about HdlcdClientHandler and SnetGateway for any number of       *)
(* devices and clients.  The handlers' theorems need no more than their    *)
(* types.  The invariant of the graph says exactly which pointers exist at *)
(* each point of main; two lemmas about reference counting, one for what   *)
(* survives and one for what does not, carry it through every step.        *)
(***************************************************************************)
EXTENDS SnetGateway, SequenceTheorems, TLAPS

-------------------------------------------------------------------------------
(* The HDLCd client handlers, for every set of devices.                     *)
USE ReportsAssumption

(* The members of the handlers keep their types, whatever is reported.      *)
THEOREM HdlcdTypeCorrect == Spec => []TypeOK
<1>1. Init => TypeOK
  BY DEF Init, TypeOK, ClientPhase
<1>2. TypeOK /\ [Next]_vars => TypeOK'
  <2> SUFFICES ASSUME TypeOK, [Next]_vars
               PROVE  TypeOK'
    OBVIOUS
  <2> USE DEF TypeOK, ClientPhase
  <2>1. ASSUME NEW h \in Handler, ResolveFails(h) PROVE TypeOK'
    BY <2>1 DEF ResolveFails, SetRetryTimer
  <2>2. ASSUME NEW h \in Handler, ResolveSucceeds(h) PROVE TypeOK'
    BY <2>2 DEF ResolveSucceeds
  <2>3. ASSUME NEW h \in Handler, ConnectFails(h) PROVE TypeOK'
    BY <2>3 DEF ConnectFails, SetRetryTimer
  <2>4. ASSUME NEW h \in Handler, ConnectSucceeds(h) PROVE TypeOK'
    BY <2>4 DEF ConnectSucceeds
  <2>5. ASSUME NEW h \in Handler, OnClosed(h) PROVE TypeOK'
    BY <2>5 DEF OnClosed, SetRetryTimer
  <2>6. ASSUME NEW h \in Handler, TimerExpires(h) PROVE TypeOK'
    BY <2>6 DEF TimerExpires
  <2>7. ASSUME NEW h \in Handler, ResolveDestination(h) PROVE TypeOK'
    BY <2>7 DEF ResolveDestination
  <2>8. ASSUME NEW h \in Handler, Close(h) PROVE TypeOK'
    BY <2>8 DEF Close, SetRetryTimer
  <2>9. CASE Stop
    BY <2>9 DEF Stop
  <2>10. CASE UNCHANGED vars
    BY <2>10 DEF vars
  <2>11. QED
    BY <2>1, <2>2, <2>3, <2>4, <2>5, <2>6, <2>7, <2>8, <2>9, <2>10 DEF Next, Event, Stopped
<1>3. QED
  BY <1>1, <1>2, PTL DEF Spec

(* What a step does to the number of attempts of the handler it is about    *)
(* and of all others; shared by the two theorems below.                     *)
LEMMA OneHandlerSteps ==
  ASSUME TypeOK, TypeOK', NEW h \in Handler, Event(h)
  PROVE  /\ \A g \in Handler \ {h} : Attempts(g)' = Attempts(g)
         /\ Attempts(h)' >= 1
         /\ Attempts(h) = 1 /\ h \notin ReportsBoth => Attempts(h)' = 1
<1> USE DEF TypeOK, Attempts, InUse
<1>1. CASE ResolveFails(h)
  BY <1>1 DEF ResolveFails, SetRetryTimer
<1>2. CASE ResolveSucceeds(h)
  BY <1>2 DEF ResolveSucceeds
<1>3. CASE ConnectFails(h)
  BY <1>3 DEF ConnectFails, SetRetryTimer
<1>4. CASE ConnectSucceeds(h)
  BY <1>4 DEF ConnectSucceeds
<1>5. CASE OnClosed(h)
  BY <1>5 DEF OnClosed, SetRetryTimer
<1>6. CASE TimerExpires(h)
  BY <1>6 DEF TimerExpires
<1>7. CASE ResolveDestination(h)
  BY <1>7 DEF ResolveDestination
<1>8. QED
  BY <1>1, <1>2, <1>3, <1>4, <1>5, <1>6, <1>7 DEF Event

(* A handler always has a retry or a client under way, even if a client     *)
(* reports its failure and its end.                                         *)
THEOREM HandlersNeverGiveUp == Spec => []NeverGivesUp
<1>1. Init => NeverGivesUp
  BY DEF Init, NeverGivesUp, Attempts, InUse
<1>2. TypeOK /\ TypeOK' /\ NeverGivesUp /\ [Next]_vars => NeverGivesUp'
  <2> SUFFICES ASSUME TypeOK, TypeOK', NeverGivesUp, [Next]_vars, running'
               PROVE  \A g \in Handler : Attempts(g)' >= 1
    BY DEF NeverGivesUp
  <2>1. CASE UNCHANGED vars
    BY <2>1 DEF vars, NeverGivesUp, Attempts, InUse
  <2>2. ASSUME NEW h \in Handler, ~running, Close(h)
        PROVE  FALSE
    BY <2>2 DEF Close
  <2>3. ASSUME running, NEW h \in Handler, Event(h)
        PROVE  \A g \in Handler : Attempts(g)' >= 1
    BY <2>3, OneHandlerSteps DEF NeverGivesUp
  <2>4. QED
    BY <2>1, <2>2, <2>3
       DEF Next, Stop, Stopped, Event, ResolveFails, ResolveSucceeds, ConnectFails,
           ConnectSucceeds, OnClosed, TimerExpires, ResolveDestination
<1>3. QED
  BY <1>1, <1>2, HdlcdTypeCorrect, PTL DEF Spec

(* A handler whose client reports its end only once never pursues two       *)
(* attempts at the same time, whatever the clients of the others do.        *)
THEOREM HandlersMakeSingleAttempts == Spec => []SingleAttempt
<1>1. Init => SingleAttempt
  BY DEF Init, SingleAttempt, Attempts, InUse
<1>2. TypeOK /\ TypeOK' /\ SingleAttempt /\ [Next]_vars => SingleAttempt'
  <2> SUFFICES ASSUME TypeOK, TypeOK', SingleAttempt, [Next]_vars, running'
               PROVE  \A g \in Handler \ ReportsBoth : Attempts(g)' = 1
    BY DEF SingleAttempt
  <2>1. CASE UNCHANGED vars
    BY <2>1 DEF vars, SingleAttempt, Attempts, InUse
  <2>2. ASSUME NEW h \in Handler, ~running, Close(h)
        PROVE  FALSE
    BY <2>2 DEF Close
  <2>3. ASSUME running, NEW h \in Handler, Event(h)
        PROVE  \A g \in Handler \ ReportsBoth : Attempts(g)' = 1
    BY <2>3, OneHandlerSteps DEF SingleAttempt
  <2>4. QED
    BY <2>1, <2>2, <2>3
       DEF Next, Stop, Stopped, Event, ResolveFails, ResolveSucceeds, ConnectFails,
           ConnectSucceeds, OnClosed, TimerExpires, ResolveDestination
<1>3. QED
  BY <1>1, <1>2, HdlcdTypeCorrect, PTL DEF Spec

(* The working connection of such a handler is not replaced by a new client.*)
THEOREM ConnectionsAreKept == Spec => ConnectionKept
<1>1. ASSUME TypeOK, SingleAttempt, [Next]_vars
      PROVE  [\A h \in Handler \ ReportsBoth :
                m_HdlcdClient[h] = "connected" => m_HdlcdClient'[h] # "connecting"]_vars
  <2> SUFFICES ASSUME ~UNCHANGED vars, NEW h \in Handler \ ReportsBoth,
                      m_HdlcdClient[h] = "connected", m_HdlcdClient'[h] = "connecting"
               PROVE  FALSE
    OBVIOUS
  <2>1. running /\ ResolveSucceeds(h)
    <3>1. PICK g \in Handler : Event(g)
      BY <1>1 DEF Next, Stop, Stopped, Close, TypeOK
    <3>2. ResolveSucceeds(g) /\ g = h
      BY <1>1, <3>1
         DEF TypeOK, Event, ResolveFails, ResolveSucceeds, ConnectFails, ConnectSucceeds, OnClosed,
             TimerExpires, ResolveDestination
    <3>3. QED
      BY <3>2 DEF ResolveSucceeds
  <2>2. Attempts(h) >= 2
    BY <1>1, <2>1 DEF ResolveSucceeds, Attempts, InUse, TypeOK
  <2>3. QED
    BY <1>1, <2>1, <2>2 DEF SingleAttempt
<1>2. QED
  BY <1>1, HdlcdTypeCorrect, HandlersMakeSingleAttempts, PTL DEF Spec, ConnectionKept

HIDE ReportsAssumption

-------------------------------------------------------------------------------
(* The graph of objects.                                                    *)
USE ObjectAssumption DEF Object, Collection

Root == {GatewayAccess, HdlcdClients, RoutingEntity}

(* The points of main at which the graph is complete, apart from the        *)
(* handlers and from what the shutdown has taken away already.              *)
Constructed == {"configure", "run", "HDLCD", "HDLCD handlers", "GWCLIENTS handlers"}

Linked(x, y) ==
  \/ x = GatewayAccess /\ y = Pool
  \/ x = RoutingEntity /\ y \in Collection
  \/ x = GatewayAccess /\ y = RoutingEntity /\ main # "GWCLIENTS handlers"
  \/ x = HdlcdClients /\ y = RoutingEntity
       /\ main \notin {"HDLCD handlers", "GWCLIENTS handlers"}
  \/ x = HdlcdClients /\ y \in Handler \cap alive
  \/ x \in Handler \cap alive /\ y = RoutingEntity
  \/ x = GatewayAccess /\ y \in Conn \cap alive
  \/ x \in Conn \cap alive /\ y \in {GatewayAccess, RoutingEntity, Pool}

GraphTyped == alive \subseteq Object /\ pointers \subseteq Object \X Object

GraphComplete ==
  main \in Constructed =>
    /\ Root \cup {Pool} \subseteq alive
    /\ locals = <<GatewayAccess, HdlcdClients, RoutingEntity>>
    /\ \A x, y \in Object : <<x, y>> \in pointers <=> Linked(x, y)

HandlersComplete ==
  /\ main \in {"run", "HDLCD"} => Handler \subseteq alive
  /\ main = "configure" => Conn \cap alive = {}
  /\ main = "GWCLIENTS handlers" => Handler \cap alive = {}

BeforeAndAfter ==
  /\ main \in {"options", "listen"} => alive = {} /\ pointers = {} /\ locals = <<>>
  /\ main = "construct" =>
       /\ alive = {GatewayAccess, Pool} /\ pointers = {<<GatewayAccess, Pool>>}
       /\ locals = <<GatewayAccess>>
  /\ main \in {"leave", "returned"} /\ thrown \notin SkipsShutdown =>
       /\ pointers \subseteq {<<GatewayAccess, Pool>>}
       /\ locals = <<>> => alive = {}
  /\ main = "returned" => locals = <<>>

Points ==
  /\ main \in Constructed \cup {"options", "listen", "construct", "leave", "returned"}
  /\ running <=> main \in {"options", "listen", "construct", "configure", "run"}
  /\ main \in Constructed \cup {"options", "listen", "construct"} => thrown = "nothing"

GraphInv == GraphTyped /\ GraphComplete /\ HandlersComplete /\ BeforeAndAfter /\ Points

LEMMA PairsHaveComponents ==
  ASSUME NEW S, NEW p \in S \X S
  PROVE  \E x \in S, y \in S : p = <<x, y>>
OBVIOUS

(* What is held by main or from within a set of objects survives.           *)
LEMMA HeldSurvive ==
  ASSUME NEW objects, NEW members, NEW roots, NEW kept \in SUBSET objects,
         \A y \in kept : y \in roots \/ \E x \in kept : <<x, y>> \in members
  PROVE  kept \subseteq Survivors(objects, members, roots)
BY DEF Survivors

(* Whatever survives is held by main or by a survivor.                      *)
LEMMA SurvivorsAreHeld ==
  ASSUME NEW objects, NEW members, NEW roots,
         NEW y \in Survivors(objects, members, roots)
  PROVE  /\ y \in objects
         /\ y \in roots \/ \E x \in Survivors(objects, members, roots) : <<x, y>> \in members
<1>1. PICK kept \in SUBSET objects :
        /\ y \in kept
        /\ \A z \in kept : z \in roots \/ \E x \in kept : <<x, z>> \in members
  BY DEF Survivors
<1>2. kept \subseteq Survivors(objects, members, roots)
  BY <1>1, HeldSurvive
<1>3. QED
  BY <1>1, <1>2

(* What a reset of some pointers does to the complete graph: the three      *)
(* components and the pool survive, and so does every handler that is still *)
(* listed in its collection; the others are destroyed.                      *)
LEMMA ResetKeepsComponents ==
  ASSUME GraphTyped, NEW gone, Reset(gone),
         Root \cup {Pool} \subseteq alive,
         locals = <<GatewayAccess, HdlcdClients, RoutingEntity>>,
         <<GatewayAccess, Pool>> \in pointers \ gone,
         \A x \in Object, y \in Conn : <<x, y>> \in pointers => x = GatewayAccess,
         \A x \in Object, y \in Handler : <<x, y>> \in pointers => x = HdlcdClients
  PROVE  /\ locals' = locals
         /\ alive' \subseteq alive
         /\ Root \cup {Pool} \subseteq alive'
         /\ \A c \in Conn \cap alive : c \in alive' <=> <<GatewayAccess, c>> \in pointers \ gone
         /\ \A h \in Handler \cap alive : h \in alive' <=> <<HdlcdClients, h>> \in pointers \ gone
         /\ \A x, y \in Object : <<x, y>> \in pointers' <=> <<x, y>> \in pointers \ gone /\ x \in alive'
         /\ GraphTyped'
<1> DEFINE members == pointers \ gone
           kept == {y \in alive : y \in Root \cup {Pool} \/ <<GatewayAccess, y>> \in members
                                                      \/ <<HdlcdClients, y>> \in members}
<1>1. ToSet(locals) = Root
  BY DEF ToSet, Root
<1>2. /\ alive' = Survivors(alive, members, Root)
      /\ pointers' = {p \in members : p[1] \in alive'}
      /\ locals' = locals
  BY <1>1 DEF Reset, Hold
<1>3. \A y \in kept : y \in Root \/ \E x \in kept : <<x, y>> \in members
  BY DEF Root
<1>4. kept \subseteq alive'
  <2> HIDE DEF kept, members
  <2>1. kept \in SUBSET alive
    BY DEF kept
  <2>2. QED
    BY <1>2, <1>3, <2>1, HeldSurvive
<1>5. alive' \subseteq alive
  BY <1>2, SurvivorsAreHeld
<1>6. \A y \in alive' : y \in Root \/ \E x \in alive' : <<x, y>> \in members
  <2> HIDE DEF members
  <2>1. QED
    BY <1>2, SurvivorsAreHeld
<1>7. \A c \in Conn \cap alive : c \in alive' <=> <<GatewayAccess, c>> \in members
  BY <1>4, <1>5, <1>6 DEF GraphTyped, Root
<1>8. \A h \in Handler \cap alive : h \in alive' <=> <<HdlcdClients, h>> \in members
  BY <1>4, <1>5, <1>6 DEF GraphTyped, Root
<1>9. Root \cup {Pool} \subseteq alive'
  BY <1>4
<1>10. \A x, y \in Object : <<x, y>> \in pointers' <=> <<x, y>> \in members /\ x \in alive'
  BY <1>2
<1>11. GraphTyped'
  BY <1>2, <1>5 DEF GraphTyped
<1>12. QED
  BY <1>2, <1>5, <1>7, <1>8, <1>9, <1>10, <1>11

LEMMA GraphInitially == MainInit => GraphInv
BY DEF MainInit, Init, GraphInv, GraphTyped, GraphComplete, HandlersComplete, BeforeAndAfter,
       Points, Constructed

(* Up to the event loop the graph only grows, or main gives up.             *)
LEMMA StartupKeepsGraph ==
  ASSUME GraphInv, Startup
  PROVE  GraphInv'
<1> USE DEF GraphInv, GraphTyped, HandlersComplete, BeforeAndAfter, Points, Constructed, graphVars,
            vars
<1>1. CASE ParseOptions \/ RefuseOptions
  BY <1>1 DEF ParseOptions, RefuseOptions, Stop, GraphComplete
<1>2. CASE Listen
  BY <1>2 DEF Listen, GraphComplete
<1>3. CASE ListenFails
  BY <1>3 DEF ListenFails, Stop, GraphComplete
<1>4. CASE Construct
  <2>1. /\ main = "construct" /\ main' = "configure"
        /\ alive' = {GatewayAccess, Pool, HdlcdClients, RoutingEntity}
        /\ locals' = <<GatewayAccess, HdlcdClients, RoutingEntity>>
    BY <1>4 DEF Construct
  <2>2. pointers' = {<<GatewayAccess, Pool>>} \cup ({RoutingEntity} \X Collection)
                                             \cup (Collection \X {RoutingEntity})
    BY <1>4 DEF Construct
  <2>3. \A x, y \in Object : <<x, y>> \in pointers' <=> Linked(x, y)'
    <3> SUFFICES ASSUME NEW x \in Object, NEW y \in Object
                 PROVE  <<x, y>> \in pointers' <=> Linked(x, y)'
      OBVIOUS
    <3>1. <<x, y>> \in pointers' <=> \/ x = GatewayAccess /\ y = Pool
                                     \/ x = RoutingEntity /\ y \in Collection
                                     \/ x \in Collection /\ y = RoutingEntity
      BY <2>2
    <3>2. Handler \cap alive' = {} /\ Conn \cap alive' = {}
      BY <2>1
    <3>3. QED
      BY <2>1, <3>1, <3>2 DEF Linked
  <2>4. GraphComplete'
    BY <2>1, <2>3 DEF GraphComplete, Root
  <2>5. GraphTyped'
    BY <2>1, <2>2
  <2>6. QED
    BY <1>4, <2>1, <2>4, <2>5 DEF Construct
<1>5. CASE InvalidSpecifier
  BY <1>5 DEF InvalidSpecifier, Stop, GraphComplete, SkipsShutdown
<1>6. CASE RunEventLoop
  <2>1. GraphComplete'
    BY <1>6 DEF RunEventLoop, GraphComplete, Linked
  <2>2. QED
    BY <1>6, <2>1 DEF RunEventLoop
<1>7. ASSUME NEW h \in Handler, CreateHdlcdClientHandler(h) PROVE GraphInv'
  <2>1. GraphComplete'
    BY <1>7 DEF CreateHdlcdClientHandler, GraphComplete, Linked, Root
  <2>2. QED
    BY <1>7, <2>1 DEF CreateHdlcdClientHandler
<1>8. QED
  BY <1>1, <1>2, <1>3, <1>4, <1>5, <1>6, <1>7 DEF Startup

(* Close of a handler: exactly this handler is destroyed.                   *)
LEMMA CloseHandlerKeepsGraph ==
  ASSUME GraphInv, NEW c \in Conn, CloseHandler(c), UNCHANGED <<main, thrown, running>>,
         main \in {"run", "GWCLIENTS handlers"}
  PROVE  GraphInv'
<1> USE DEF GraphInv, GraphTyped, Points, Constructed
<1> DEFINE gone == {<<c, Pool>>, <<GatewayAccess, c>>, <<c, GatewayAccess>>}
<1>1. /\ Root \cup {Pool} \subseteq alive
      /\ locals = <<GatewayAccess, HdlcdClients, RoutingEntity>>
      /\ \A x, y \in Object : <<x, y>> \in pointers <=> Linked(x, y)
  BY DEF GraphComplete
<1>2. /\ <<GatewayAccess, Pool>> \in pointers \ gone
      /\ \A x \in Object, y \in Conn : <<x, y>> \in pointers => x = GatewayAccess
      /\ \A x \in Object, y \in Handler : <<x, y>> \in pointers => x = HdlcdClients
  BY <1>1 DEF Linked
<1>3. Reset(gone)
  BY DEF CloseHandler
<1> HIDE DEF gone
<1>4. /\ locals' = locals
      /\ alive' \subseteq alive
      /\ Root \cup {Pool} \subseteq alive'
      /\ \A d \in Conn \cap alive : d \in alive' <=> <<GatewayAccess, d>> \in pointers \ gone
      /\ \A h \in Handler \cap alive : h \in alive' <=> <<HdlcdClients, h>> \in pointers \ gone
      /\ \A x, y \in Object : <<x, y>> \in pointers' <=> <<x, y>> \in pointers \ gone /\ x \in alive'
      /\ GraphTyped'
  BY <1>1, <1>2, <1>3, ResetKeepsComponents DEF GraphTyped
<1>5. Conn \cap alive' = (Conn \cap alive) \ {c}
  BY <1>1, <1>4 DEF gone, Linked
<1>6. Handler \cap alive' = Handler \cap alive
  BY <1>1, <1>4 DEF gone, Linked
<1>7. \A x, y \in Object : <<x, y>> \in pointers' <=> Linked(x, y)'
  <2> SUFFICES ASSUME NEW x \in Object, NEW y \in Object
               PROVE  <<x, y>> \in pointers' <=> Linked(x, y)'
    OBVIOUS
  <2>1. <<x, y>> \in pointers' <=> Linked(x, y) /\ <<x, y>> \notin gone /\ x \in alive'
    <3>1. <<x, y>> \in pointers <=> Linked(x, y)
      BY <1>1
    <3>2. <<x, y>> \in pointers' <=> <<x, y>> \in pointers \ gone /\ x \in alive'
      BY <1>4
    <3>3. QED
      BY <3>1, <3>2
  <2>2. <<x, y>> \in gone <=> \/ x = c /\ y \in {GatewayAccess, Pool}
                              \/ x = GatewayAccess /\ y = c
    BY DEF gone
  <2>3. /\ Root \subseteq alive' /\ main' = main
        /\ x \in Conn \cap alive' <=> x \in Conn \cap alive /\ x # c
        /\ y \in Conn \cap alive' <=> y \in Conn \cap alive /\ y # c
        /\ x \in Handler \cap alive' <=> x \in Handler \cap alive
        /\ y \in Handler \cap alive' <=> y \in Handler \cap alive
    BY <1>4, <1>5, <1>6
  <2>4. QED
    BY <2>1, <2>2, <2>3 DEF Linked, Root
<1>8. GraphComplete'
  BY <1>1, <1>4, <1>7 DEF GraphComplete
<1>9. HandlersComplete'
  BY <1>6 DEF HandlersComplete
<1>10. QED
  BY <1>4, <1>8, <1>9 DEF BeforeAndAfter

LEMMA EventsKeepGraph ==
  ASSUME GraphInv,
         \/ \E h \in Handler : HdlcdEvent(h)
         \/ \E c \in Conn : Accept(c) \/ ClientLeaves(c)
         \/ SignalArrives \/ EventLoopThrows
  PROVE  GraphInv'
<1> USE DEF GraphInv
<1>1. ASSUME NEW h \in Handler, HdlcdEvent(h) PROVE GraphInv'
  <2>1. running' = running
    BY <1>1 DEF HdlcdEvent, Event, ResolveFails, ResolveSucceeds, ConnectFails, ConnectSucceeds,
                OnClosed, TimerExpires, ResolveDestination
  <2>2. QED
    BY <1>1, <2>1 DEF HdlcdEvent, graphVars, GraphTyped, GraphComplete, HandlersComplete,
                      BeforeAndAfter, Points, Linked
<1>2. ASSUME NEW c \in Conn, Accept(c) PROVE GraphInv'
  <2> USE DEF Accept, Points, Constructed
  <2>1. GraphTyped'
    BY <1>2 DEF GraphTyped, GraphComplete, Root
  <2>2. \A x, y \in Object : <<x, y>> \in pointers' <=> Linked(x, y)'
    <3> SUFFICES ASSUME NEW x \in Object, NEW y \in Object
                 PROVE  <<x, y>> \in pointers' <=> Linked(x, y)'
      OBVIOUS
    <3>1. <<x, y>> \in pointers' <=> \/ Linked(x, y)
                                     \/ x = GatewayAccess /\ y = c
                                     \/ x = c /\ y \in {GatewayAccess, RoutingEntity, Pool}
      BY <1>2 DEF GraphComplete
    <3>2. /\ main' = main /\ c \notin alive
          /\ \A z \in Object : z \in alive' <=> z \in alive \/ z = c
      BY <1>2
    <3>3. QED
      BY <3>1, <3>2 DEF Linked
  <2>3. GraphComplete'
    BY <1>2, <2>2 DEF GraphComplete
  <2>4. QED
    BY <1>2, <2>1, <2>3 DEF HandlersComplete, BeforeAndAfter, vars
<1>3. ASSUME NEW c \in Conn, ClientLeaves(c) PROVE GraphInv'
  BY <1>3, CloseHandlerKeepsGraph DEF ClientLeaves, vars
<1>4. CASE SignalArrives
  <2>1. GraphComplete'
    BY <1>4 DEF SignalArrives, Stop, GraphComplete, Linked, graphVars, Constructed
  <2>2. QED
    BY <1>4, <2>1 DEF SignalArrives, Stop, graphVars, GraphTyped, HandlersComplete,
                      BeforeAndAfter, Points, Constructed
<1>5. CASE EventLoopThrows
  BY <1>5 DEF EventLoopThrows, Stop, graphVars, GraphTyped, GraphComplete, HandlersComplete,
              BeforeAndAfter, Points, Constructed, SkipsShutdown
<1>6. QED
  BY <1>1, <1>2, <1>3, <1>4, <1>5

(* The complete graph meets the conditions of ResetKeepsComponents.         *)
LEMMA HandlersAreOwnedOnce ==
  ASSUME GraphInv, main \in Constructed
  PROVE  /\ GraphTyped
         /\ Root \cup {Pool} \subseteq alive
         /\ locals = <<GatewayAccess, HdlcdClients, RoutingEntity>>
         /\ \A x, y \in Object : <<x, y>> \in pointers <=> Linked(x, y)
         /\ \A x \in Object, y \in Conn : <<x, y>> \in pointers => x = GatewayAccess
         /\ \A x \in Object, y \in Handler : <<x, y>> \in pointers => x = HdlcdClients
<1>1. /\ GraphTyped
      /\ Root \cup {Pool} \subseteq alive
      /\ locals = <<GatewayAccess, HdlcdClients, RoutingEntity>>
      /\ \A x, y \in Object : <<x, y>> \in pointers <=> Linked(x, y)
  BY DEF GraphInv, GraphComplete
<1>2. /\ \A x \in Object, y \in Conn : <<x, y>> \in pointers => x = GatewayAccess
      /\ \A x \in Object, y \in Handler : <<x, y>> \in pointers => x = HdlcdClients
  BY <1>1 DEF Linked
<1>3. QED
  BY <1>1, <1>2

(* The shutdown of the two collections, step by step.                       *)
LEMMA CollectionsShutdownKeepsGraph ==
  ASSUME GraphInv,
         \/ HdlcdSystemShutdown \/ \E h \in Handler : HdlcdHandlerShutdown(h)
         \/ GatewayAccessSystemShutdown \/ \E c \in Conn : GatewayAccessHandlerShutdown(c)
  PROVE  GraphInv'
<1>1. ASSUME main \in Constructed
      PROVE  /\ GraphTyped
             /\ Root \cup {Pool} \subseteq alive
             /\ locals = <<GatewayAccess, HdlcdClients, RoutingEntity>>
             /\ \A x, y \in Object : <<x, y>> \in pointers <=> Linked(x, y)
             /\ \A x \in Object, y \in Conn : <<x, y>> \in pointers => x = GatewayAccess
             /\ \A x \in Object, y \in Handler : <<x, y>> \in pointers => x = HdlcdClients
  BY <1>1, HandlersAreOwnedOnce
<1>2. CASE HdlcdSystemShutdown
  <2> DEFINE gone == {<<HdlcdClients, RoutingEntity>>}
  <2>1. /\ main = "HDLCD" /\ main' = "HDLCD handlers"
        /\ UNCHANGED <<thrown, running>> /\ Reset(gone)
        /\ \A x, y \in Object : <<x, y>> \in pointers <=> Linked(x, y)
    BY <1>1, <1>2 DEF Constructed, HdlcdSystemShutdown, Drop, vars
  <2>2. /\ locals' = locals
        /\ alive' \subseteq alive
        /\ Root \cup {Pool} \subseteq alive'
        /\ \A d \in Conn \cap alive : d \in alive' <=> <<GatewayAccess, d>> \in pointers \ gone
        /\ \A g \in Handler \cap alive : g \in alive' <=> <<HdlcdClients, g>> \in pointers \ gone
        /\ \A x, y \in Object :
             <<x, y>> \in pointers' <=> <<x, y>> \in pointers \ gone /\ x \in alive'
        /\ GraphTyped'
    <3>1. <<GatewayAccess, Pool>> \in pointers \ gone
      BY <2>1 DEF Linked
    <3> HIDE DEF gone
    <3>2. QED
      BY <1>1, <2>1, <3>1, ResetKeepsComponents DEF Constructed
  <2>3. Conn \cap alive' = Conn \cap alive /\ Handler \cap alive' = Handler \cap alive
    BY <2>1, <2>2 DEF Linked
  <2>4. \A x, y \in Object : <<x, y>> \in pointers' <=> Linked(x, y)'
    <3> SUFFICES ASSUME NEW x \in Object, NEW y \in Object
                 PROVE  <<x, y>> \in pointers' <=> Linked(x, y)'
      OBVIOUS
    <3>1. <<x, y>> \in pointers' <=> Linked(x, y) /\ <<x, y>> \notin gone /\ x \in alive'
      BY <2>1, <2>2
    <3>2. QED
      BY <2>1, <2>2, <2>3, <3>1, <1>2 DEF Linked, Root
  <2>5. QED
    BY <1>1, <1>2, <2>1, <2>2, <2>3, <2>4
       DEF GraphInv, GraphComplete, HandlersComplete, BeforeAndAfter, Points, Constructed
<1>3. ASSUME NEW h \in Handler, HdlcdHandlerShutdown(h) PROVE GraphInv'
  <2> DEFINE gone == {<<h, RoutingEntity>>, <<HdlcdClients, h>>}
  <2>1. /\ main = "HDLCD handlers" /\ main' = "HDLCD handlers"
        /\ UNCHANGED <<thrown, running>> /\ Reset(gone)
        /\ \A x, y \in Object : <<x, y>> \in pointers <=> Linked(x, y)
    BY <1>1, <1>3 DEF Constructed, HdlcdHandlerShutdown, Close, Drop, vars
  <2>2. /\ locals' = locals
        /\ alive' \subseteq alive
        /\ Root \cup {Pool} \subseteq alive'
        /\ \A d \in Conn \cap alive : d \in alive' <=> <<GatewayAccess, d>> \in pointers \ gone
        /\ \A g \in Handler \cap alive : g \in alive' <=> <<HdlcdClients, g>> \in pointers \ gone
        /\ \A x, y \in Object :
             <<x, y>> \in pointers' <=> <<x, y>> \in pointers \ gone /\ x \in alive'
        /\ GraphTyped'
    <3>1. <<GatewayAccess, Pool>> \in pointers \ gone
      BY <2>1 DEF Linked
    <3> HIDE DEF gone
    <3>2. QED
      BY <1>1, <2>1, <3>1, ResetKeepsComponents DEF Constructed
  <2>3. Conn \cap alive' = Conn \cap alive /\ Handler \cap alive' = (Handler \cap alive) \ {h}
    BY <2>1, <2>2 DEF Linked
  <2>4. \A x, y \in Object : <<x, y>> \in pointers' <=> Linked(x, y)'
    <3> SUFFICES ASSUME NEW x \in Object, NEW y \in Object
                 PROVE  <<x, y>> \in pointers' <=> Linked(x, y)'
      OBVIOUS
    <3>1. <<x, y>> \in pointers' <=> Linked(x, y) /\ <<x, y>> \notin gone /\ x \in alive'
      BY <2>1, <2>2
    <3>2. QED
      BY <2>1, <2>2, <2>3, <3>1, <1>3 DEF Linked, Root, HdlcdHandlerShutdown
  <2>5. QED
    BY <1>1, <1>3, <2>1, <2>2, <2>3, <2>4
       DEF GraphInv, GraphComplete, HandlersComplete, BeforeAndAfter, Points, Constructed
<1>4. CASE GatewayAccessSystemShutdown
  <2> DEFINE gone == {<<GatewayAccess, RoutingEntity>>}
  <2>1. /\ main = "HDLCD handlers" /\ main' = "GWCLIENTS handlers"
        /\ UNCHANGED <<thrown, running>> /\ Reset(gone)
        /\ \A x, y \in Object : <<x, y>> \in pointers <=> Linked(x, y)
    BY <1>1, <1>4 DEF Constructed, GatewayAccessSystemShutdown, Drop, vars
  <2>2. /\ locals' = locals
        /\ alive' \subseteq alive
        /\ Root \cup {Pool} \subseteq alive'
        /\ \A d \in Conn \cap alive : d \in alive' <=> <<GatewayAccess, d>> \in pointers \ gone
        /\ \A g \in Handler \cap alive : g \in alive' <=> <<HdlcdClients, g>> \in pointers \ gone
        /\ \A x, y \in Object :
             <<x, y>> \in pointers' <=> <<x, y>> \in pointers \ gone /\ x \in alive'
        /\ GraphTyped'
    <3>1. <<GatewayAccess, Pool>> \in pointers \ gone
      BY <2>1 DEF Linked
    <3> HIDE DEF gone
    <3>2. QED
      BY <1>1, <2>1, <3>1, ResetKeepsComponents DEF Constructed
  <2>3. Conn \cap alive' = Conn \cap alive /\ Handler \cap alive' = Handler \cap alive
    BY <2>1, <2>2 DEF Linked
  <2>4. \A x, y \in Object : <<x, y>> \in pointers' <=> Linked(x, y)'
    <3> SUFFICES ASSUME NEW x \in Object, NEW y \in Object
                 PROVE  <<x, y>> \in pointers' <=> Linked(x, y)'
      OBVIOUS
    <3>1. <<x, y>> \in pointers' <=> Linked(x, y) /\ <<x, y>> \notin gone /\ x \in alive'
      BY <2>1, <2>2
    <3>2. QED
      BY <2>1, <2>2, <2>3, <3>1, <1>4 DEF Linked, Root, GatewayAccessSystemShutdown
  <2>5. QED
    BY <1>1, <1>4, <2>1, <2>2, <2>3, <2>4
       DEF GraphInv, GraphComplete, HandlersComplete, BeforeAndAfter, Points, Constructed, GatewayAccessSystemShutdown
<1>5. ASSUME NEW c \in Conn, GatewayAccessHandlerShutdown(c) PROVE GraphInv'
  BY <1>5, CloseHandlerKeepsGraph DEF GatewayAccessHandlerShutdown, vars
<1>6. QED
  BY <1>2, <1>3, <1>4, <1>5

(* The end: once the routing entity has let go of both collections there is *)
(* no cycle left, and what main drops is destroyed.                         *)
LEMMA EndKeepsGraph ==
  ASSUME GraphInv, RoutingSystemShutdown \/ LeaveScope \/ Return
  PROVE  GraphInv'
<1> USE DEF GraphInv, Points, Constructed
<1>1. CASE RoutingSystemShutdown
  <2> DEFINE gone == {RoutingEntity} \X Collection
  <2>1. /\ main = "GWCLIENTS handlers" /\ main' = "leave" /\ Conn \cap alive = {}
        /\ UNCHANGED <<thrown, running>> /\ Reset(gone)
    BY <1>1 DEF RoutingSystemShutdown, Drop, vars
  <2>2. /\ GraphTyped /\ locals = <<GatewayAccess, HdlcdClients, RoutingEntity>>
        /\ \A x, y \in Object : <<x, y>> \in pointers <=> Linked(x, y)
    BY <2>1, HandlersAreOwnedOnce
  <2>3. locals' = locals /\ alive' \subseteq alive /\ pointers' \subseteq pointers \ gone
    <3> HIDE DEF gone
    <3>1. /\ alive' = Survivors(alive, pointers \ gone, ToSet(locals))
          /\ pointers' = {p \in pointers \ gone : p[1] \in alive'}
          /\ locals' = locals
      BY <2>1 DEF Reset, Hold
    <3>2. alive' \subseteq alive
      BY <3>1, SurvivorsAreHeld
    <3>3. QED
      BY <3>1, <3>2
  <2>4. pointers' \subseteq {<<GatewayAccess, Pool>>}
    <3>1. Handler \cap alive = {} /\ pointers \subseteq Object \X Object
      BY <2>1 DEF HandlersComplete, GraphTyped
    <3> SUFFICES ASSUME NEW p \in pointers'
                 PROVE  p = <<GatewayAccess, Pool>>
      OBVIOUS
    <3>2. p \in pointers /\ p \notin gone
      BY <2>3
    <3> PICK x \in Object, y \in Object : p = <<x, y>>
      <4> HIDE DEF Object
      <4>1. p \in Object \X Object
        BY ONLY <3>1, <3>2
      <4>2. QED
        BY ONLY <4>1, PairsHaveComponents
    <3>3. Linked(x, y) /\ <<x, y>> \notin gone
      BY <2>2, <3>2
    <3>4. ~(x = RoutingEntity /\ y \in Collection)
      BY <3>3
    <3>5. QED
      BY <2>1, <3>1, <3>3, <3>4 DEF Linked
  <2>5. locals' # <<>>
    BY <2>2, <2>3
  <2>6. GraphTyped'
    BY <2>2, <2>3 DEF GraphTyped
  <2>7. QED
    BY <2>1, <2>4, <2>5, <2>6 DEF GraphComplete, HandlersComplete, BeforeAndAfter
<1>2. CASE LeaveScope
  <2>1. /\ main = "leave" /\ main' = "leave" /\ UNCHANGED <<thrown, running>>
        /\ alive' = Survivors(alive, pointers, ToSet(locals'))
        /\ pointers' \subseteq pointers
    BY <1>2 DEF LeaveScope, Hold, vars
  <2>2. GraphTyped'
    BY <2>1, SurvivorsAreHeld DEF GraphTyped
  <2>3. ASSUME thrown \notin SkipsShutdown, locals' = <<>>
        PROVE  alive' = {}
    <3>1. ToSet(locals') = {}
      <4>1. DOMAIN <<>> = {}
        BY EmptySeq, LenProperties
      <4>2. QED
        BY <2>3, <4>1 DEF ToSet
    <3>2. pointers \subseteq {<<GatewayAccess, Pool>>}
      BY <2>1, <2>3 DEF BeforeAndAfter
    <3>3. SUFFICES ASSUME NEW y \in alive' PROVE FALSE
      OBVIOUS
    <3>4. PICK x \in alive' : <<x, y>> \in pointers
      BY <2>1, <3>1, SurvivorsAreHeld
    <3>5. PICK z \in alive' : <<z, x>> \in pointers
      BY <2>1, <3>1, SurvivorsAreHeld
    <3>6. QED
      BY <3>2, <3>4, <3>5
  <2>4. QED
    BY <2>1, <2>2, <2>3 DEF GraphComplete, HandlersComplete, BeforeAndAfter
<1>3. CASE Return
  BY <1>3 DEF Return, vars, graphVars, GraphTyped, GraphComplete, HandlersComplete, BeforeAndAfter
<1>4. QED
  BY <1>1, <1>2, <1>3

LEMMA StutteringKeepsGraph ==
  ASSUME GraphInv, UNCHANGED mainVars
  PROVE  GraphInv'
<1>1. UNCHANGED <<running, alive, pointers, locals, main, thrown>>
  BY DEF mainVars, vars, graphVars
<1>2. GraphTyped' /\ HandlersComplete' /\ BeforeAndAfter' /\ Points'
  BY <1>1 DEF GraphInv, GraphTyped, HandlersComplete, BeforeAndAfter, Points
<1>3. \A x, y \in Object : Linked(x, y)' <=> Linked(x, y)
  BY <1>1 DEF Linked
<1>4. GraphComplete'
  BY <1>1, <1>3 DEF GraphInv, GraphComplete
<1>5. QED
  BY <1>2, <1>4 DEF GraphInv

(* The pointers between the components are, at every point of main, those   *)
(* that the code has set and not yet reset.                                 *)
THEOREM GraphInvariant == MainSpec => []GraphInv
<1>1. GraphInv /\ [MainNext]_mainVars => GraphInv'
  <2> SUFFICES ASSUME GraphInv, [MainNext]_mainVars
               PROVE  GraphInv'
    OBVIOUS
  <2>1. CASE Shutdown
    <3>1. CASE \/ HdlcdSystemShutdown \/ \E h \in Handler : HdlcdHandlerShutdown(h)
               \/ GatewayAccessSystemShutdown
               \/ \E c \in Conn : GatewayAccessHandlerShutdown(c)
      BY <3>1, CollectionsShutdownKeepsGraph
    <3>2. CASE RoutingSystemShutdown \/ LeaveScope \/ Return
      BY <3>2, EndKeepsGraph
    <3>3. QED
      BY <2>1, <3>1, <3>2 DEF Shutdown
  <2>2. CASE UNCHANGED mainVars
    BY <2>2, StutteringKeepsGraph
  <2>3. QED
    BY <2>1, <2>2, StartupKeepsGraph, EventsKeepGraph DEF MainNext, Returned
<1>2. QED
  BY <1>1, GraphInitially, PTL DEF MainSpec

(* Whatever clients and daemons do, and whenever the signal comes, a        *)
(* callback never meets a null pointer to a component or to a handler.      *)
THEOREM CallbacksAreSafe == MainSpec => []CallbacksFindTheirObjects
<1>1. GraphInv => CallbacksFindTheirObjects
  <2> SUFFICES ASSUME GraphInv, main = "run"
               PROVE  CallbacksFindTheirObjects
    BY DEF GraphInv, Points, CallbacksFindTheirObjects
  <2>1. /\ Root \cup {Pool} \subseteq alive /\ Handler \subseteq alive /\ alive \subseteq Object
        /\ \A x, y \in Object : <<x, y>> \in pointers <=> Linked(x, y)
    BY DEF GraphInv, GraphTyped, GraphComplete, HandlersComplete, Constructed
  <2>2. /\ \A x \in Collection : <<RoutingEntity, x>> \in pointers
        /\ <<GatewayAccess, RoutingEntity>> \in pointers
        /\ <<GatewayAccess, Pool>> \in pointers
    BY <2>1 DEF Linked
  <2>3. \A h \in Handler : <<HdlcdClients, h>> \in pointers /\ <<h, RoutingEntity>> \in pointers
    BY <2>1 DEF Linked
  <2>4. \A c \in Conn \cap alive :
          /\ <<GatewayAccess, c>> \in pointers /\ <<c, GatewayAccess>> \in pointers
          /\ <<c, RoutingEntity>> \in pointers /\ <<c, Pool>> \in pointers
    BY <2>1 DEF Linked
  <2>5. QED
    BY <2>2, <2>3, <2>4 DEF CallbacksFindTheirObjects
<1>2. QED
  BY <1>1, GraphInvariant, PTL

(* Unless an exception skips it, the shutdown breaks every cycle, for any   *)
(* number of clients and devices.                                           *)
THEOREM EverythingIsDestroyed == MainSpec => []NothingOutlivesIoService
<1>1. GraphInv => NothingOutlivesIoService
  BY DEF GraphInv, BeforeAndAfter, NothingOutlivesIoService
<1>2. QED
  BY <1>1, GraphInvariant, PTL

-------------------------------------------------------------------------------
(* The way past the SystemShutdowns.                                        *)
EachIsHeld == \A y \in alive : \E x \in alive : <<x, y>> \in pointers

LeftWhole == thrown \in SkipsShutdown => main \in {"leave", "returned"} /\ EachIsHeld

(* In the complete graph every object is held by another one.               *)
LEMMA CyclesHoldAll ==
  ASSUME GraphInv, main \in {"configure", "run"}
  PROVE  EachIsHeld
<1>1. /\ alive \subseteq Object /\ Root \cup {Pool} \subseteq alive
      /\ \A x, y \in Object : <<x, y>> \in pointers <=> Linked(x, y)
  BY DEF GraphInv, GraphTyped, GraphComplete, Constructed
<1>2. SUFFICES ASSUME NEW y \in alive PROVE \E x \in alive : <<x, y>> \in pointers
  BY DEF EachIsHeld
<1>3. CASE y \in Collection
  BY <1>1, <1>3 DEF Linked, Root
<1>4. CASE y \in {RoutingEntity, Pool} \/ y \in Conn
  BY <1>1, <1>4 DEF Linked, Root
<1>5. CASE y \in Handler
  BY <1>1, <1>5 DEF Linked, Root
<1>6. QED
  BY <1>1, <1>3, <1>4, <1>5

(* Then nothing is destroyed, whatever main lets go of.                     *)
LEMMA LettingGoIsNoDestruction ==
  ASSUME EachIsHeld, NEW variables, Hold(pointers, variables)
  PROVE  alive' = alive /\ EachIsHeld'
<1>1. /\ alive' = Survivors(alive, pointers, ToSet(variables))
      /\ pointers' = {p \in pointers : p[1] \in alive'}
  BY DEF Hold
<1>2. alive \subseteq alive'
  BY <1>1, HeldSurvive DEF EachIsHeld
<1>3. alive' \subseteq alive
  BY <1>1, SurvivorsAreHeld
<1>4. QED
  BY <1>1, <1>2, <1>3 DEF EachIsHeld

LEMMA ExceptionStep ==
  ASSUME GraphInv, LeftWhole, [MainNext]_mainVars, thrown' \in SkipsShutdown
  PROVE  alive' = alive /\ LeftWhole'
<1>1. CASE thrown \in SkipsShutdown
  <2>1. main \in {"leave", "returned"} /\ EachIsHeld
    BY <1>1 DEF LeftWhole
  <2>2. CASE LeaveScope
    BY <2>1, <2>2, LettingGoIsNoDestruction DEF LeaveScope, LeftWhole
  <2>3. CASE Return \/ UNCHANGED mainVars
    BY <2>1, <2>3 DEF Return, graphVars, mainVars, LeftWhole, EachIsHeld
  <2>4. LeaveScope \/ Return \/ UNCHANGED mainVars
    BY <2>1 DEF MainNext, Startup, ParseOptions, RefuseOptions, Listen, ListenFails, Construct,
       InvalidSpecifier, RunEventLoop, CreateHdlcdClientHandler, HdlcdEvent, Accept, ClientLeaves,
       SignalArrives, EventLoopThrows, Shutdown, HdlcdSystemShutdown, HdlcdHandlerShutdown,
       GatewayAccessSystemShutdown, GatewayAccessHandlerShutdown, RoutingSystemShutdown, Returned
  <2>5. QED
    BY <2>2, <2>3, <2>4
<1>2. CASE thrown \notin SkipsShutdown
  <2>1. InvalidSpecifier \/ EventLoopThrows
    BY <1>2 DEF MainNext, Startup, ParseOptions, RefuseOptions, Listen, ListenFails, Construct,
       RunEventLoop, CreateHdlcdClientHandler, HdlcdEvent, Accept, ClientLeaves,
       SignalArrives, Shutdown, HdlcdSystemShutdown, HdlcdHandlerShutdown,
       GatewayAccessSystemShutdown, GatewayAccessHandlerShutdown, RoutingSystemShutdown, LeaveScope,
       Return, Returned, Drop, mainVars, SkipsShutdown
  <2>2. EachIsHeld
    BY <2>1, CyclesHoldAll DEF InvalidSpecifier, EventLoopThrows
  <2>3. QED
    BY <2>1, <2>2 DEF InvalidSpecifier, EventLoopThrows, graphVars, LeftWhole, EachIsHeld
<1>3. QED
  BY <1>1, <1>2

(* An exception that reaches main past the SystemShutdowns destroys none of *)
(* the objects, for any number of devices and clients: no destructor runs   *)
(* among handlers that have not been shut down.                             *)
THEOREM ExceptionsDestroyNothing == MainSpec => ExceptionDestroysNothing
<1>1. MainInit => LeftWhole
  BY DEF MainInit, LeftWhole, SkipsShutdown
<1>2. GraphInv /\ LeftWhole /\ [MainNext]_mainVars => LeftWhole'
  BY ExceptionStep DEF LeftWhole
<1>3. GraphInv /\ LeftWhole /\ [MainNext]_mainVars
        => [thrown' \in SkipsShutdown => alive' = alive]_mainVars
  BY ExceptionStep
<1>4. QED
  BY <1>1, <1>2, <1>3, GraphInvariant, PTL DEF MainSpec, ExceptionDestroysNothing

-------------------------------------------------------------------------------
(* Within the program the HDLCd handlers behave as HdlcdClientHandler says: *)
(* what is proved about them holds for the program.                         *)
THEOREM ProgramRunsHandlers == MainSpec => Spec
<1>1. MainInit => Init
  BY DEF MainInit
<1>2. GraphInv /\ [MainNext]_mainVars => [Next]_vars
  <2> SUFFICES ASSUME GraphInv, [MainNext]_mainVars
               PROVE  [Next]_vars
    OBVIOUS
  <2>1. CASE Startup
    BY <2>1 DEF Startup, ParseOptions, RefuseOptions, Listen, ListenFails, Construct,
                InvalidSpecifier, RunEventLoop, CreateHdlcdClientHandler, Next
  <2>2. ASSUME NEW h \in Handler, HdlcdEvent(h) PROVE Next
    BY <2>2 DEF HdlcdEvent, Next
  <2>3. ASSUME NEW c \in Conn, Accept(c) \/ ClientLeaves(c) PROVE UNCHANGED vars
    BY <2>3 DEF Accept, ClientLeaves
  <2>4. CASE SignalArrives \/ EventLoopThrows
    BY <2>4 DEF SignalArrives, EventLoopThrows, Next
  <2>5. ASSUME NEW h \in Handler, HdlcdHandlerShutdown(h) PROVE Next
    BY <2>5 DEF HdlcdHandlerShutdown, Next, GraphInv, Points
  <2>6. CASE Shutdown
    BY <2>5, <2>6 DEF Shutdown, HdlcdSystemShutdown, GatewayAccessSystemShutdown,
                      GatewayAccessHandlerShutdown, RoutingSystemShutdown, LeaveScope, Return, Drop
  <2>7. CASE UNCHANGED mainVars
    BY <2>7 DEF mainVars
  <2>8. QED
    BY <2>1, <2>2, <2>3, <2>4, <2>6, <2>7 DEF MainNext, Returned
<1>3. QED
  BY <1>1, <1>2, GraphInvariant, PTL DEF MainSpec, Spec
===============================================================================

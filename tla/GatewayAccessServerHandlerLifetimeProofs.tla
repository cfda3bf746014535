--------------- MODULE GatewayAccessServerHandlerLifetimeProofs ---------------
(***************************************************************************)
(* Proofs about GatewayAccessServerHandlerLifetime for any number of       *)
(* handlers.  The inductive invariant lists the shapes the stack can have, *)
(* and what is true of the handler at each point of its methods; all other *)
(* handlers are at rest.                                                   *)
(***************************************************************************)
EXTENDS GatewayAccessServerHandlerLifetime, SequenceTheorems, TLAPS

USE HandlerAssumption, ReportsAssumption

Activation == [at : Point, of : Handler \cup {Nobody}]
Closing == At("SystemShutdown", Nobody)
Serving == {"OnFrame", "OnPayload", "Send", "++It"}

Typed ==
  /\ m_GatewayAccessServerHandlerList \subseteq Handler /\ remaining \subseteq Handler
  /\ alive \subseteq Handler
  /\ stack \in Seq(Activation)
  /\ m_Registered \in [Handler -> BOOLEAN]
  /\ m_AddressLease \in [Handler -> BOOLEAN]
  /\ endpoint \in [Handler -> {"open", "closed"}]
  /\ phase \in {"running", "stopping", "stopped"}

(* A handler nobody is at work on is complete, or does not exist.           *)
Settled(h) ==
  /\ h \in m_GatewayAccessServerHandlerList /\ h \in alive
  /\ m_Registered[h] /\ m_AddressLease[h]
  /\ phase = "running" => endpoint[h] = "open"

Gone(h) ==
  /\ h \notin m_GatewayAccessServerHandlerList
  /\ ~m_Registered[h] /\ ~m_AddressLease[h]
  /\ phase = "running" => endpoint[h] = "closed"

Others(h) == \A g \in Handler \ {h} : Settled(g) \/ (Gone(g) /\ g \notin alive)

(* What is true of the handler at each point.                               *)
AtPoint(point, h) ==
  /\ h \in alive
  /\ point = "DoAccept" => Settled(h) \/ Gone(h)
  /\ point # "DoAccept" =>
       /\ h \in m_GatewayAccessServerHandlerList <=> point \notin {"Start", "Leave"}
       /\ m_Registered[h] <=> point \notin {"Start", "Deregister", "Leave"}
       /\ m_AddressLease[h] <=> point \notin {"Deregister", "Leave"}
       /\ phase = "running" =>
            /\ point \in Serving => endpoint[h] = "open"
            /\ point \notin Serving \cup {"Protocol::Close"} => endpoint[h] = "closed"

(* What the point may return to.                                            *)
Below(point, h) ==
  IF point \in Serving \cup {"DoAccept"} THEN {<<>>}
  ELSE IF point \in {"Start", "Protocol::Start"} THEN {<<At("DoAccept", h)>>}
  ELSE IF point \in {"Protocol::Close", "OnClosedCallback"} THEN {<<>>, <<At("DoAccept", h)>>}
  ELSE {<<>>, <<At("DoAccept", h)>>, <<Closing>>}

InMethod(point, h, below) ==
  /\ stack # <<>> /\ Head(stack) = At(point, h) /\ Tail(stack) = below
  /\ phase = IF below = <<Closing>> THEN "stopping" ELSE "running"
  /\ Others(h) /\ AtPoint(point, h)

BetweenMethods ==
  /\ \A g \in Handler : Settled(g) \/ (Gone(g) /\ g \notin alive)
  /\ \/ stack = <<>> /\ phase = "running"
     \/ stack = <<>> /\ phase = "stopped" /\ alive = {}
     \/ stack = <<Closing>> /\ phase = "stopping"

HandlerPoint == Point \ {"SystemShutdown"}

LifetimeInv ==
  /\ Typed
  /\ \/ BetweenMethods
     \/ \E point \in HandlerPoint, h \in Handler : \E below \in Below(point, h) :
          InMethod(point, h, below)

USE DEF At, Activation, Closing, Serving, Point, ClosePoint, HandlerPoint, Holders

(* Sequences of one or two activations.                                     *)
LEMMA OneActivation ==
  ASSUME NEW x \in Activation
  PROVE  /\ <<x>> \in Seq(Activation) /\ <<x>> # <<>>
         /\ Head(<<x>>) = x /\ Tail(<<x>>) = <<>>
         /\ <<x>>[1] = x /\ 1 \in DOMAIN <<x>>
         /\ <<x>> \o <<>> = <<x>>
<1> HIDE DEF Activation
<1>1. <<x>> \in Seq(Activation) /\ <<x>> # <<>>
  OBVIOUS
<1>2. Head(<<x>>) = x /\ Tail(<<x>>) = <<>> /\ <<x>>[1] = x /\ 1 \in DOMAIN <<x>>
  OBVIOUS
<1>3. QED
  BY <1>1, <1>2, ConcatEmptySeq

LEMMA CallOnTop ==
  ASSUME NEW x \in Activation, NEW below \in Seq(Activation)
  PROVE  /\ <<x>> \o below \in Seq(Activation) /\ <<x>> \o below # <<>>
         /\ Head(<<x>> \o below) = x /\ Tail(<<x>> \o below) = below
         /\ (<<x>> \o below)[1] = x /\ 1 \in DOMAIN (<<x>> \o below)
<1> HIDE DEF Activation
<1>1. /\ <<x>> \o below \in Seq(Activation) /\ Len(<<x>> \o below) = 1 + Len(below)
      /\ \A i \in 1..(1 + Len(below)) :
           (<<x>> \o below)[i] = IF i <= 1 THEN x ELSE below[i - 1]
  <2>1. <<x>> \in Seq(Activation) /\ Len(<<x>>) = 1 /\ <<x>>[1] = x
    OBVIOUS
  <2>2. QED
    BY <2>1, ConcatProperties
<1>2. /\ <<x>> \o below # <<>> /\ 1 \in DOMAIN (<<x>> \o below)
      /\ Head(<<x>> \o below) = x /\ (<<x>> \o below)[1] = x
  BY <1>1
<1>3. Tail(<<x>> \o below) = below
  <2> DEFINE s == <<x>> \o below
  <2>1. /\ Tail(s) \in Seq(Activation) /\ Len(Tail(s)) = Len(s) - 1
        /\ \A i \in 1..Len(Tail(s)) : Tail(s)[i] = s[i + 1]
    BY <1>1, <1>2, HeadTailProperties
  <2>2. Len(Tail(s)) = Len(below)
    BY <1>1, <2>1
  <2>3. \A i \in 1..Len(Tail(s)) : Tail(s)[i] = below[i]
    BY <1>1, <2>1, <2>2
  <2>4. QED
    BY <2>1, <2>2, <2>3, SeqEqual
<1>4. QED
  BY <1>1, <1>2, <1>3

LEMMA TwoActivations ==
  ASSUME NEW x \in Activation, NEW y \in Activation
  PROVE  /\ <<x, y>> \in Seq(Activation) /\ <<x, y>> # <<>>
         /\ Head(<<x, y>>) = x /\ Tail(<<x, y>>) = <<y>>
         /\ <<x, y>> \o <<>> = <<x, y>>
<1> HIDE DEF Activation
<1>1. <<x, y>> \in Seq(Activation) /\ <<x, y>> # <<>> /\ Head(<<x, y>>) = x
  OBVIOUS
<1>2. Tail(<<x, y>>) = <<y>>
  OBVIOUS
<1>3. QED
  BY <1>1, <1>2, ConcatEmptySeq

(* A method returns, or calls another one.                                  *)
LEMMA ReturnEffect ==
  ASSUME stack \in Seq(Activation), stack # <<>>, NEW handlers, Proceed(handlers, <<>>)
  PROVE  /\ m_GatewayAccessServerHandlerList' = handlers
         /\ stack' = Tail(stack) /\ stack' \in Seq(Activation)
         /\ alive' = {g \in alive : Owned(g, handlers, Tail(stack))}
<1> HIDE DEF Activation
<1>1. Tail(stack) \in Seq(Activation)
  BY HeadTailProperties
<1>2. <<>> \o Tail(stack) = Tail(stack)
  BY <1>1, ConcatEmptySeq
<1>3. QED
  BY <1>1, <1>2 DEF Proceed

LEMMA CallEffect ==
  ASSUME stack \in Seq(Activation), stack # <<>>, NEW handlers, NEW x \in Activation,
         Proceed(handlers, <<x>>)
  PROVE  /\ m_GatewayAccessServerHandlerList' = handlers
         /\ stack' \in Seq(Activation) /\ stack' # <<>>
         /\ Head(stack') = x /\ Tail(stack') = Tail(stack)
         /\ alive' \subseteq alive
         /\ \A g \in alive : g \in handlers \/ (x.of = g /\ x.at \in Holders) => g \in alive'
<1> HIDE DEF Activation
<1>1. Tail(stack) \in Seq(Activation)
  BY HeadTailProperties
<1>2. /\ m_GatewayAccessServerHandlerList' = handlers
      /\ stack' = <<x>> \o Tail(stack)
      /\ alive' = {g \in alive : Owned(g, handlers, <<x>> \o Tail(stack))}
  BY DEF Proceed
<1>3. /\ stack' \in Seq(Activation) /\ stack' # <<>>
      /\ Head(stack') = x /\ Tail(stack') = Tail(stack)
      /\ stack'[1] = x /\ 1 \in DOMAIN stack'
  BY <1>1, <1>2, CallOnTop
<1>4. \A g \in alive : g \in handlers \/ (x.of = g /\ x.at \in Holders) => g \in alive'
  BY <1>2, <1>3 DEF Owned
<1>5. QED
  BY <1>2, <1>3, <1>4

-------------------------------------------------------------------------------
(* A step in a method of h leaves the other handlers alone.                 *)
OnlyConcerns(h) ==
  /\ m_GatewayAccessServerHandlerList' \subseteq Handler /\ remaining' \subseteq Handler
  /\ m_Registered' \in [Handler -> BOOLEAN]
  /\ m_AddressLease' \in [Handler -> BOOLEAN]
  /\ endpoint' \in [Handler -> {"open", "closed"}]
  /\ \A g \in Handler \ {h} :
       /\ g \in m_GatewayAccessServerHandlerList' <=> g \in m_GatewayAccessServerHandlerList
       /\ m_Registered'[g] = m_Registered[g]
       /\ m_AddressLease'[g] = m_AddressLease[g]
       /\ endpoint'[g] = endpoint[g]
  /\ phase' = phase

Complete(h) ==
  /\ h \in m_GatewayAccessServerHandlerList
  /\ m_Registered[h] /\ m_AddressLease[h]
  /\ phase = "running" => endpoint[h] = "open"

LEMMA OthersKept ==
  ASSUME NEW h \in Handler, Others(h), OnlyConcerns(h), alive' \subseteq alive,
         \A g \in alive : g \in m_GatewayAccessServerHandlerList' => g \in alive'
  PROVE  Others(h)'
BY DEF Others, OnlyConcerns, Settled, Gone

(* A method of h calls another method of h, or goes on.                     *)
LEMMA CallKeeps ==
  ASSUME Typed, NEW h \in Handler, NEW point, NEW below, InMethod(point, h, below),
         NEW handlers, NEW q \in HandlerPoint, below \in Below(q, h),
         Proceed(handlers, <<At(q, h)>>), OnlyConcerns(h),
         q # "DoAccept", h \in handlers \/ q \in Holders,
         /\ h \in m_GatewayAccessServerHandlerList' <=> q \notin {"Start", "Leave"}
         /\ m_Registered'[h] <=> q \notin {"Start", "Deregister", "Leave"}
         /\ m_AddressLease'[h] <=> q \notin {"Deregister", "Leave"}
         /\ phase = "running" =>
              /\ q \in Serving => endpoint'[h] = "open"
              /\ q \notin Serving \cup {"Protocol::Close"} => endpoint'[h] = "closed"
  PROVE  LifetimeInv'
<1>1. At(q, h) \in Activation
  OBVIOUS
<1>2. /\ m_GatewayAccessServerHandlerList' = handlers
      /\ stack' \in Seq(Activation) /\ stack' # <<>>
      /\ Head(stack') = At(q, h) /\ Tail(stack') = Tail(stack)
      /\ alive' \subseteq alive
      /\ \A g \in alive : g \in handlers \/ (At(q, h).of = g /\ At(q, h).at \in Holders)
                          => g \in alive'
  <2> HIDE DEF At, Activation, Holders
  <2>1. QED
    BY <1>1, CallEffect DEF Typed, InMethod
<1>3. h \in alive'
  BY <1>2 DEF InMethod, AtPoint
<1>4. Others(h)'
  BY <1>2, OthersKept DEF InMethod
<1>5. Typed'
  BY <1>2 DEF Typed, OnlyConcerns
<1>6. AtPoint(q, h)'
  BY <1>3 DEF AtPoint, OnlyConcerns
<1>7. InMethod(q, h, below)'
  BY <1>2, <1>4, <1>6 DEF InMethod, OnlyConcerns
<1>8. below \in Below(q, h)'
  BY DEF Below
<1>9. QED
  BY <1>5, <1>7, <1>8 DEF LifetimeInv

(* A method of h returns: to the event loop, to DoAccept or to the loop of  *)
(* SystemShutdown.                                                          *)
LEMMA ReturnKeeps ==
  ASSUME Typed, NEW h \in Handler, NEW point, NEW below, InMethod(point, h, below),
         below \in {<<>>, <<At("DoAccept", h)>>, <<Closing>>},
         NEW handlers, Proceed(handlers, <<>>), OnlyConcerns(h),
         Complete(h)' \/ Gone(h)'
  PROVE  LifetimeInv'
<1>1. /\ m_GatewayAccessServerHandlerList' = handlers
      /\ stack' = below /\ stack' \in Seq(Activation)
      /\ alive' = {g \in alive : Owned(g, handlers, below)}
  <2> HIDE DEF At, Activation, Holders
  <2>1. QED
    BY ReturnEffect DEF Typed, InMethod
<1>2. /\ alive' \subseteq alive
      /\ \A g \in alive : g \in handlers => g \in alive'
  BY <1>1 DEF Owned
<1>3. Typed'
  BY <1>1, <1>2 DEF Typed, OnlyConcerns
<1>4. Others(h)'
  BY <1>1, <1>2, OthersKept DEF InMethod
<1>5. Complete(h)' => Settled(h)'
  BY <1>1, <1>2 DEF Complete, Settled, InMethod, AtPoint
<1>6. CASE below = <<At("DoAccept", h)>>
  <2>1. /\ At("DoAccept", h) \in Activation
        /\ Head(<<At("DoAccept", h)>>) = At("DoAccept", h)
        /\ Tail(<<At("DoAccept", h)>>) = <<>>
        /\ <<At("DoAccept", h)>>[1] = At("DoAccept", h)
        /\ 1 \in DOMAIN <<At("DoAccept", h)>>
        /\ <<At("DoAccept", h)>> # <<>>
    <3>1. At("DoAccept", h) \in Activation
      OBVIOUS
    <3>2. QED
      BY <3>1, OneActivation
  <2>2. h \in alive'
    BY <1>1, <1>6, <2>1 DEF Owned, InMethod, AtPoint
  <2>3. phase' = "running"
    BY <1>6 DEF InMethod, OnlyConcerns
  <2>4. InMethod("DoAccept", h, <<>>)'
    BY <1>1, <1>4, <1>5, <1>6, <2>1, <2>2, <2>3 DEF InMethod, AtPoint
  <2>5. <<>> \in Below("DoAccept", h)'
    BY DEF Below
  <2>6. QED
    BY <1>3, <2>4, <2>5 DEF LifetimeInv
<1>7. CASE below \in {<<>>, <<Closing>>}
  <2>1. h \notin handlers => h \notin alive'
    BY <1>1, <1>7 DEF Owned
  <2>2. Settled(h)' \/ (Gone(h)' /\ h \notin alive')
    BY <1>1, <1>5, <2>1 DEF Gone
  <2>3. \A g \in Handler : Settled(g)' \/ (Gone(g)' /\ g \notin alive')
    BY <1>4, <2>2 DEF Others
  <2>4. \/ stack' = <<>> /\ phase' = "running"
        \/ stack' = <<Closing>> /\ phase' = "stopping"
    BY <1>1, <1>7 DEF InMethod, OnlyConcerns
  <2>5. BetweenMethods'
    BY <2>3, <2>4 DEF BetweenMethods
  <2>6. QED
    BY <1>3, <2>5 DEF LifetimeInv
<1>8. QED
  BY <1>6, <1>7

LEMMA Decompose ==
  ASSUME LifetimeInv, NEW h \in Handler, NEW p, Running(p, h)
  PROVE  Typed /\ p \in HandlerPoint /\ \E below \in Below(p, h) : InMethod(p, h, below)
<1>1. ~BetweenMethods
  <2>1. Head(stack) = At(p, h) /\ stack # <<>>
    BY DEF Running
  <2>2. stack # <<Closing>>
    <3>1. Closing \in Activation /\ At(p, h) # Closing
      OBVIOUS
    <3>2. QED
      BY <2>1, <3>1, OneActivation
  <2>3. QED
    BY <2>1, <2>2 DEF BetweenMethods
<1>2. PICK q \in HandlerPoint, g \in Handler : \E below \in Below(q, g) : InMethod(q, g, below)
  BY <1>1 DEF LifetimeInv
<1>3. q = p /\ g = h
  BY <1>2 DEF InMethod, Running
<1>4. QED
  BY <1>2, <1>3 DEF LifetimeInv

(* What each point may return to. *)
LEMMA WhereToReturn ==
  ASSUME NEW h \in Handler
  PROVE  /\ \A p \in Point : Below(p, h) \subseteq {<<>>, <<At("DoAccept", h)>>, <<Closing>>}
         /\ \A p \in Serving : Below(p, h) = {<<>>}
         /\ \A p \in {"Close", "Deregister", "Leave"} :
              Below(p, h) = {<<>>, <<At("DoAccept", h)>>, <<Closing>>}
         /\ \A p \in {"Protocol::Close", "OnClosedCallback"} :
              Below(p, h) = {<<>>, <<At("DoAccept", h)>>}
         /\ \A p \in {"Start", "Protocol::Start"} : Below(p, h) = {<<At("DoAccept", h)>>}
         /\ Below("DoAccept", h) = {<<>>}
BY DEF Below

(* Only Start may report the end of the connection before it returns.       *)
LEMMA NoReports ==
  ASSUME NEW h, NEW operation \in {"SendFrame", "Close"}
  PROVE  Reported(operation, h) = {<<>>}
BY DEF Reported

LEMMA NothingReported ==
  ASSUME NEW x \in Activation
  PROVE  <<>> \o <<x>> = <<x>> /\ <<>> \o <<>> = <<>>
<1> HIDE DEF Activation
<1>1. <<x>> \in Seq(Activation) /\ <<>> \in Seq(Activation)
  OBVIOUS
<1>2. QED
  BY <1>1, ConcatEmptySeq

LEMMA EndpointCalled ==
  ASSUME NEW h, NEW operation \in {"SendFrame", "Close"}, NEW x \in Activation,
         CallEndpoint(operation, h, <<x>>)
  PROVE  Continue(<<x>>) /\ endpoint' = endpoint
BY NoReports, NothingReported DEF CallEndpoint

LEMMA EndpointCalledLast ==
  ASSUME NEW h, NEW operation \in {"SendFrame", "Close"}, CallEndpoint(operation, h, <<>>)
  PROVE  Continue(<<>>) /\ endpoint' = endpoint
<1>1. Closing \in Activation
  OBVIOUS
<1>2. <<>> \o <<>> = <<>>
  BY <1>1, NothingReported
<1>3. QED
  BY <1>2, NoReports DEF CallEndpoint

-------------------------------------------------------------------------------
(* One lemma per action.                                                    *)
LEMMA StartStep ==
  ASSUME LifetimeInv, NEW h \in Handler, Start(h)
  PROVE  LifetimeInv'
<1>1. PICK below \in Below("Start", h) : Typed /\ InMethod("Start", h, below)
  BY Decompose DEF Start
<1>2. /\ Proceed(m_GatewayAccessServerHandlerList \cup {h}, <<At("Protocol::Start", h)>>)
      /\ m_GatewayAccessServerHandlerList' = m_GatewayAccessServerHandlerList \cup {h}
  BY DEF Start, Proceed
<1>3. OnlyConcerns(h)
  BY <1>1, <1>2 DEF Start, OnlyConcerns, Typed, memberVars
<1>4. below \in Below("Protocol::Start", h)
  BY <1>1, WhereToReturn
<1>5. /\ m_Registered'[h] /\ m_AddressLease'[h]
      /\ phase = "running" => endpoint'[h] = "closed"
  BY <1>1 DEF Start, InMethod, AtPoint, Typed
<1>6. QED
  BY <1>1, <1>2, <1>3, <1>4, <1>5, CallKeeps

LEMMA StartProtocolStep ==
  ASSUME LifetimeInv, NEW h \in Handler, StartProtocol(h)
  PROVE  LifetimeInv'
<1>1. PICK below \in Below("Protocol::Start", h) : Typed /\ InMethod("Protocol::Start", h, below)
  BY Decompose DEF StartProtocol
<1>2. PICK report \in {<<>>, <<At("Protocol::Close", h)>>} :
        /\ Continue(report)
        /\ endpoint' = [endpoint EXCEPT ![h] = IF report = <<>> THEN "open" ELSE "closed"]
  BY DEF StartProtocol
<1>3. m_GatewayAccessServerHandlerList' = m_GatewayAccessServerHandlerList
  BY <1>2 DEF Continue, Proceed
<1>4. OnlyConcerns(h)
  BY <1>1, <1>2, <1>3 DEF StartProtocol, OnlyConcerns, Typed, memberVars
<1>5. /\ h \in m_GatewayAccessServerHandlerList' /\ m_Registered'[h] /\ m_AddressLease'[h]
  BY <1>1, <1>3 DEF StartProtocol, InMethod, AtPoint, Typed, memberVars
<1>6. CASE report = <<>>
  <2>1. Complete(h)'
    BY <1>1, <1>2, <1>5, <1>6 DEF Complete, Typed
  <2>2. Proceed(m_GatewayAccessServerHandlerList, <<>>)
    BY <1>2, <1>6 DEF Continue
  <2>3. below \in {<<>>, <<At("DoAccept", h)>>, <<Closing>>}
    BY <1>1, WhereToReturn
  <2>4. QED
    BY <1>1, <1>4, <2>1, <2>2, <2>3, ReturnKeeps
<1>7. CASE report = <<At("Protocol::Close", h)>>
  <2>1. Proceed(m_GatewayAccessServerHandlerList, <<At("Protocol::Close", h)>>)
    BY <1>2, <1>7 DEF Continue
  <2>2. below \in Below("Protocol::Close", h)
    BY <1>1, WhereToReturn
  <2>3. QED
    BY <1>1, <1>3, <1>4, <1>5, <2>1, <2>2, CallKeeps
<1>8. QED
  BY <1>2, <1>6, <1>7

LEMMA DoAcceptEndsStep ==
  ASSUME LifetimeInv, NEW h \in Handler, DoAcceptEnds(h)
  PROVE  LifetimeInv'
<1>1. PICK below \in Below("DoAccept", h) : Typed /\ InMethod("DoAccept", h, below)
  BY Decompose DEF DoAcceptEnds
<1>2. Proceed(m_GatewayAccessServerHandlerList, <<>>)
  BY DEF DoAcceptEnds, Continue
<1>3. m_GatewayAccessServerHandlerList' = m_GatewayAccessServerHandlerList
  BY <1>2 DEF Proceed
<1>4. OnlyConcerns(h)
  BY <1>1, <1>3 DEF DoAcceptEnds, OnlyConcerns, Typed, memberVars
<1>5. Complete(h)' \/ Gone(h)'
  BY <1>1, <1>3 DEF DoAcceptEnds, memberVars, InMethod, AtPoint, Settled, Gone, Complete
<1>6. below \in {<<>>, <<At("DoAccept", h)>>, <<Closing>>}
  BY <1>1, WhereToReturn
<1>7. QED
  BY <1>1, <1>2, <1>4, <1>5, <1>6, ReturnKeeps

LEMMA CloseProtocolStep ==
  ASSUME LifetimeInv, NEW h \in Handler, CloseProtocol(h)
  PROVE  LifetimeInv'
<1>1. PICK below \in Below("Protocol::Close", h) : Typed /\ InMethod("Protocol::Close", h, below)
  BY Decompose DEF CloseProtocol
<1>2. Proceed(m_GatewayAccessServerHandlerList, <<At("OnClosedCallback", h)>>)
  <2>1. At("OnClosedCallback", h) \in Activation
    OBVIOUS
  <2>2. <<>> \o <<At("OnClosedCallback", h)>> = <<At("OnClosedCallback", h)>>
    BY <2>1, NothingReported
  <2>3. QED
    BY <2>2, NoReports DEF CloseProtocol, Continue
<1>3. m_GatewayAccessServerHandlerList' = m_GatewayAccessServerHandlerList
  BY <1>2 DEF Proceed
<1>4. OnlyConcerns(h)
  BY <1>1, <1>3 DEF CloseProtocol, OnlyConcerns, Typed, memberVars
<1>5. /\ h \in m_GatewayAccessServerHandlerList' /\ m_Registered'[h] /\ m_AddressLease'[h]
      /\ endpoint'[h] = "closed"
  BY <1>1, <1>3 DEF CloseProtocol, InMethod, AtPoint, Typed, memberVars
<1>6. below \in Below("OnClosedCallback", h)
  BY <1>1, WhereToReturn
<1>7. h \in m_GatewayAccessServerHandlerList
  BY <1>3, <1>5
<1>8. QED
  BY <1>1, <1>2, <1>4, <1>5, <1>6, <1>7, CallKeeps

LEMMA CallOnClosedStep ==
  ASSUME LifetimeInv, NEW h \in Handler, CallOnClosed(h)
  PROVE  LifetimeInv'
<1>1. PICK below \in Below("OnClosedCallback", h) :
        Typed /\ InMethod("OnClosedCallback", h, below)
  BY Decompose DEF CallOnClosed
<1>2. Proceed(m_GatewayAccessServerHandlerList, <<At("Close", h)>>)
  BY DEF CallOnClosed, Continue
<1>3. m_GatewayAccessServerHandlerList' = m_GatewayAccessServerHandlerList
  BY <1>2 DEF Proceed
<1>4. OnlyConcerns(h)
  BY <1>1, <1>3 DEF CallOnClosed, OnlyConcerns, Typed, memberVars
<1>5. /\ h \in m_GatewayAccessServerHandlerList
      /\ h \in m_GatewayAccessServerHandlerList' /\ m_Registered'[h] /\ m_AddressLease'[h]
      /\ phase = "running" => endpoint'[h] = "closed"
  BY <1>1, <1>3 DEF CallOnClosed, InMethod, AtPoint, Typed, memberVars
<1>6. below \in Below("Close", h)
  BY <1>1, WhereToReturn
<1>7. QED
  BY <1>1, <1>2, <1>4, <1>5, <1>6, CallKeeps

LEMMA CloseStep ==
  ASSUME LifetimeInv, NEW h \in Handler, Close(h)
  PROVE  LifetimeInv'
<1>1. PICK below \in Below("Close", h) : Typed /\ InMethod("Close", h, below)
  BY Decompose DEF Close
<1>2. m_Registered[h] /\ h \in m_GatewayAccessServerHandlerList
  BY <1>1 DEF InMethod, AtPoint
<1>3. Proceed(m_GatewayAccessServerHandlerList, <<At("Deregister", h)>>)
  BY <1>2 DEF Close, Continue
<1>4. m_GatewayAccessServerHandlerList' = m_GatewayAccessServerHandlerList
  BY <1>3 DEF Proceed
<1>5. OnlyConcerns(h)
  BY <1>1, <1>4 DEF Close, OnlyConcerns, Typed
<1>6. /\ ~m_Registered'[h] /\ ~m_AddressLease'[h]
      /\ phase = "running" => endpoint'[h] = "closed"
  BY <1>1, <1>2 DEF Close, InMethod, AtPoint, Typed
<1>7. below \in Below("Deregister", h)
  BY <1>1, WhereToReturn
<1>8. QED
  BY <1>1, <1>2, <1>3, <1>4, <1>5, <1>6, <1>7, CallKeeps

LEMMA DeregisterStep ==
  ASSUME LifetimeInv, NEW h \in Handler, Deregister(h)
  PROVE  LifetimeInv'
<1>1. PICK below \in Below("Deregister", h) : Typed /\ InMethod("Deregister", h, below)
  BY Decompose DEF Deregister
<1>2. /\ Proceed(m_GatewayAccessServerHandlerList \ {h}, <<At("Leave", h)>>)
      /\ m_GatewayAccessServerHandlerList' = m_GatewayAccessServerHandlerList \ {h}
  BY DEF Deregister, Proceed
<1>3. OnlyConcerns(h)
  BY <1>1, <1>2 DEF Deregister, OnlyConcerns, Typed, memberVars
<1>4. /\ ~m_Registered'[h] /\ ~m_AddressLease'[h]
      /\ phase = "running" => endpoint'[h] = "closed"
  BY <1>1 DEF Deregister, InMethod, AtPoint, Typed, memberVars
<1>5. below \in Below("Leave", h)
  BY <1>1, WhereToReturn
<1>6. QED
  BY <1>1, <1>2, <1>3, <1>4, <1>5, CallKeeps

LEMMA LeaveStep ==
  ASSUME LifetimeInv, NEW h \in Handler, Leave(h)
  PROVE  LifetimeInv'
<1>1. PICK below \in Below("Leave", h) : Typed /\ InMethod("Leave", h, below)
  BY Decompose DEF Leave
<1>2. Proceed(m_GatewayAccessServerHandlerList, <<>>)
  BY DEF Leave, Continue
<1>3. m_GatewayAccessServerHandlerList' = m_GatewayAccessServerHandlerList
  BY <1>2 DEF Proceed
<1>4. OnlyConcerns(h)
  BY <1>1, <1>3 DEF Leave, OnlyConcerns, Typed, memberVars
<1>5. Gone(h)'
  BY <1>1, <1>3 DEF Leave, InMethod, AtPoint, Gone, Typed, memberVars
<1>6. below \in {<<>>, <<At("DoAccept", h)>>, <<Closing>>}
  BY <1>1, WhereToReturn
<1>7. QED
  BY <1>1, <1>2, <1>4, <1>5, <1>6, ReturnKeeps

(* With all handlers at rest, a method of one of them is entered.           *)
AtRest == \A g \in Handler : Settled(g) \/ (Gone(g) /\ g \notin alive)

LEMMA EnterKeeps ==
  ASSUME Typed, AtRest, phase = "running", NEW h \in m_GatewayAccessServerHandlerList,
         NEW p \in Serving \cup {"Protocol::Close"},
         stack' \in Seq(Activation), stack' # <<>>,
         Head(stack') = At(p, h), Tail(stack') = <<>>,
         m_GatewayAccessServerHandlerList' = m_GatewayAccessServerHandlerList,
         alive' = alive, OnlyConcerns(h),
         m_Registered' = m_Registered, m_AddressLease' = m_AddressLease,
         p \in Serving => endpoint'[h] = "open"
  PROVE  LifetimeInv'
<1>1. h \in Handler /\ Settled(h)
  BY DEF Typed, AtRest, Settled, Gone
<1>2. Typed'
  BY DEF Typed, OnlyConcerns
<1>3. Others(h)'
  BY DEF AtRest, Others, OnlyConcerns, Settled, Gone
<1>4. AtPoint(p, h)'
  BY <1>1 DEF AtPoint, Settled, OnlyConcerns
<1>5. InMethod(p, h, <<>>)'
  <2>1. <<>> # <<Closing>>
    OBVIOUS
  <2>2. QED
    BY <1>3, <1>4, <2>1 DEF InMethod, OnlyConcerns
<1>6. <<>> \in Below(p, h)' /\ p \in HandlerPoint
  BY DEF Below
<1>7. QED
  BY <1>1, <1>2, <1>5, <1>6 DEF LifetimeInv

LEMMA SendFirstKeeps ==
  ASSUME Typed, NEW h \in Handler, NEW point \in Serving, InMethod(point, h, <<>>),
         NEW handlers \in SUBSET m_GatewayAccessServerHandlerList, SendFirst(handlers),
         m_Registered' = m_Registered, m_AddressLease' = m_AddressLease,
         endpoint' = endpoint, phase' = phase
  PROVE  LifetimeInv'
<1>1. phase = "running"
  <2>1. <<>> # <<Closing>>
    OBVIOUS
  <2>2. QED
    BY <2>1 DEF InMethod
<1>2. AtRest
  <2>1. Settled(h)
    BY <1>1 DEF InMethod, AtPoint, Settled
  <2>2. QED
    BY <2>1 DEF InMethod, Others, AtRest
<1>3. CASE handlers = {} /\ Continue(<<>>) /\ remaining' = {}
  <2>1. Proceed(m_GatewayAccessServerHandlerList, <<>>)
    BY <1>3 DEF Continue
  <2>2. m_GatewayAccessServerHandlerList' = m_GatewayAccessServerHandlerList
    BY <2>1 DEF Proceed
  <2>3. OnlyConcerns(h)
    BY <1>3, <2>2 DEF OnlyConcerns, Typed
  <2>4. Complete(h)'
    BY <1>1, <2>2 DEF Complete, InMethod, AtPoint
  <2>5. QED
    BY <2>1, <2>3, <2>4, ReturnKeeps
<1>4. ASSUME NEW g \in handlers, Continue(<<At("Send", g)>>), remaining' = handlers \ {g}
      PROVE  LifetimeInv'
  <2>1. g \in Handler /\ At("Send", g) \in Activation /\ At("Send", g).of = g
    BY DEF Typed
  <2>2. Proceed(m_GatewayAccessServerHandlerList, <<At("Send", g)>>)
    BY <1>4 DEF Continue
  <2>3. /\ m_GatewayAccessServerHandlerList' = m_GatewayAccessServerHandlerList
        /\ stack' \in Seq(Activation) /\ stack' # <<>>
        /\ Head(stack') = At("Send", g) /\ Tail(stack') = <<>>
        /\ alive' \subseteq alive
        /\ \A f \in alive : f \in m_GatewayAccessServerHandlerList => f \in alive'
    <3> HIDE DEF At, Activation, Holders
    <3>1. QED
      BY <2>1, <2>2, CallEffect DEF Typed, InMethod
  <2>4. alive' = alive
    BY <1>2, <2>3 DEF AtRest, Settled, Typed
  <2>5. OnlyConcerns(g)
    BY <1>4, <2>3 DEF OnlyConcerns, Typed
  <2>6. endpoint'[g] = "open"
    BY <1>1, <1>2, <2>1 DEF AtRest, Settled, Gone
  <2>7. QED
    BY <1>1, <1>2, <2>3, <2>4, <2>5, <2>6, EnterKeeps
<1>5. QED
  BY <1>3, <1>4 DEF SendFirst

LEMMA SendStep ==
  ASSUME LifetimeInv, NEW h \in Handler, Send(h)
  PROVE  LifetimeInv'
<1>1. PICK below \in Below("Send", h) : Typed /\ InMethod("Send", h, below)
  BY Decompose DEF Send
<1>2. Proceed(m_GatewayAccessServerHandlerList, <<At("++It", h)>>) /\ endpoint' = endpoint
  <2>1. At("++It", h) \in Activation
    OBVIOUS
  <2>2. QED
    BY <2>1, EndpointCalled DEF Send, Continue
<1>3. m_GatewayAccessServerHandlerList' = m_GatewayAccessServerHandlerList
  BY <1>2 DEF Proceed
<1>4. OnlyConcerns(h)
  BY <1>1, <1>2, <1>3 DEF Send, OnlyConcerns, Typed, memberVars
<1>5. /\ h \in m_GatewayAccessServerHandlerList
      /\ h \in m_GatewayAccessServerHandlerList' /\ m_Registered'[h] /\ m_AddressLease'[h]
      /\ phase = "running" => endpoint'[h] = "open"
  BY <1>1, <1>2, <1>3 DEF Send, InMethod, AtPoint, memberVars
<1>6. below \in Below("++It", h)
  BY <1>1, WhereToReturn
<1>7. QED
  BY <1>1, <1>2, <1>4, <1>5, <1>6, CallKeeps

LEMMA SendNextStep ==
  ASSUME LifetimeInv, NEW h \in Handler, SendNext(h)
  PROVE  LifetimeInv'
<1>1. Typed /\ InMethod("++It", h, <<>>)
  BY Decompose, WhereToReturn DEF SendNext
<1>2. QED
  BY <1>1, SendFirstKeeps DEF SendNext, memberVars

(* The handler is served and its callback returns.                          *)
LEMMA ServedKeeps ==
  ASSUME NEW h \in Handler, NEW point \in Serving, Typed, InMethod(point, h, <<>>),
         Continue(<<>>), endpoint' = endpoint, remaining' = remaining,
         m_Registered' = m_Registered, m_AddressLease' = m_AddressLease, phase' = phase
  PROVE  LifetimeInv'
<1>1. Proceed(m_GatewayAccessServerHandlerList, <<>>)
  BY DEF Continue
<1>2. m_GatewayAccessServerHandlerList' = m_GatewayAccessServerHandlerList
  BY <1>1 DEF Proceed
<1>3. OnlyConcerns(h)
  BY <1>2 DEF OnlyConcerns, Typed
<1>4. Complete(h)'
  BY <1>2 DEF InMethod, AtPoint, Complete
<1>5. QED
  BY <1>1, <1>3, <1>4, ReturnKeeps

LEMMA OnFrameStep ==
  ASSUME LifetimeInv, NEW h \in Handler, OnFrame(h)
  PROVE  LifetimeInv'
<1>1. Typed /\ InMethod("OnFrame", h, <<>>)
  BY Decompose, WhereToReturn DEF OnFrame
<1>2. /\ remaining' = remaining /\ phase' = phase
      /\ m_Registered' = m_Registered /\ m_AddressLease' = m_AddressLease
  BY DEF OnFrame, memberVars
<1>3. ASSUME NEW q \in {"Protocol::Close", "OnPayload"}, Continue(<<At(q, h)>>),
             endpoint' = endpoint
      PROVE  LifetimeInv'
  <2>1. Proceed(m_GatewayAccessServerHandlerList, <<At(q, h)>>)
    BY <1>3 DEF Continue
  <2>2. m_GatewayAccessServerHandlerList' = m_GatewayAccessServerHandlerList
    BY <2>1 DEF Proceed
  <2>3. OnlyConcerns(h)
    BY <1>1, <1>2, <1>3, <2>2 DEF OnlyConcerns, Typed
  <2>4. /\ h \in m_GatewayAccessServerHandlerList
        /\ h \in m_GatewayAccessServerHandlerList' /\ m_Registered'[h] /\ m_AddressLease'[h]
        /\ phase = "running" => endpoint'[h] = "open"
    BY <1>1, <1>2, <1>3, <2>2 DEF InMethod, AtPoint
  <2>5. <<>> \in Below(q, h)
    BY WhereToReturn
  <2>6. QED
    BY <1>1, <2>1, <2>3, <2>4, <2>5, CallKeeps
<1>4. CASE Continue(<<At("Protocol::Close", h)>>) /\ UNCHANGED endpoint
  BY <1>3, <1>4
<1>5. CASE CallEndpoint("SendFrame", h, <<>>)
  <2>1. Continue(<<>>) /\ endpoint' = endpoint
    BY <1>5, EndpointCalledLast
  <2>2. QED
    BY <1>1, <1>2, <2>1, ServedKeeps
<1>6. CASE CallEndpoint("SendFrame", h, <<At("OnPayload", h)>>)
  <2>1. At("OnPayload", h) \in Activation
    OBVIOUS
  <2>2. Continue(<<At("OnPayload", h)>>) /\ endpoint' = endpoint
    BY <1>6, <2>1, EndpointCalled
  <2>3. QED
    BY <1>3, <2>2
<1>7. QED
  BY <1>4, <1>5, <1>6 DEF OnFrame

LEMMA OnPayloadStep ==
  ASSUME LifetimeInv, NEW h \in Handler, OnPayload(h)
  PROVE  LifetimeInv'
<1>1. Typed /\ InMethod("OnPayload", h, <<>>)
  BY Decompose, WhereToReturn DEF OnPayload
<1>2. phase' = phase /\ m_Registered' = m_Registered /\ m_AddressLease' = m_AddressLease
  BY DEF OnPayload, memberVars
<1>3. CASE CallEndpoint("SendFrame", h, <<>>) /\ UNCHANGED remaining
  <2>1. Continue(<<>>) /\ endpoint' = endpoint
    BY <1>3, EndpointCalledLast
  <2>2. QED
    BY <1>1, <1>2, <1>3, <2>1, ServedKeeps
<1>4. CASE SendFirst(m_GatewayAccessServerHandlerList) /\ UNCHANGED endpoint
  BY <1>1, <1>2, <1>4, SendFirstKeeps
<1>5. QED
  BY <1>3, <1>4 DEF OnPayload

LEMMA AtTheClosingLoop ==
  ASSUME LifetimeInv, Running("SystemShutdown", Nobody)
  PROVE  Typed /\ AtRest /\ stack = <<Closing>> /\ phase = "stopping"
<1>1. ASSUME NEW point \in HandlerPoint, NEW h \in Handler, NEW below,
             InMethod(point, h, below)
      PROVE  FALSE
  BY <1>1 DEF InMethod, Running
<1>2. BetweenMethods
  BY <1>1 DEF LifetimeInv
<1>3. QED
  BY <1>2 DEF LifetimeInv, BetweenMethods, AtRest, Running

LEMMA CloseNextStep ==
  ASSUME LifetimeInv, CloseNext
  PROVE  LifetimeInv'
<1>1. Typed /\ AtRest /\ stack = <<Closing>> /\ phase = "stopping"
  BY AtTheClosingLoop DEF CloseNext
<1>2. Closing \in Activation
  OBVIOUS
<1>3. Tail(stack) = <<>> /\ stack \in Seq(Activation) /\ stack # <<>>
  BY <1>1, <1>2, OneActivation
<1>4. /\ remaining' = remaining /\ endpoint' = endpoint
      /\ m_Registered' = m_Registered /\ m_AddressLease' = m_AddressLease
  BY DEF CloseNext, memberVars
<1>5. CASE m_GatewayAccessServerHandlerList = {} /\ Continue(<<>>) /\ phase' = "stopped"
  <2>1. Proceed(m_GatewayAccessServerHandlerList, <<>>)
    BY <1>5 DEF Continue
  <2>2. /\ m_GatewayAccessServerHandlerList' = m_GatewayAccessServerHandlerList
        /\ stack' = <<>> /\ stack' \in Seq(Activation)
        /\ alive' = {g \in alive : Owned(g, m_GatewayAccessServerHandlerList, <<>>)}
    <3> HIDE DEF At, Activation, Holders
    <3>1. QED
      BY <1>3, <2>1, ReturnEffect
  <2>3. alive' = {}
    BY <1>5, <2>2 DEF Owned
  <2>4. \A g \in Handler : Gone(g)' /\ g \notin alive'
    BY <1>1, <1>4, <1>5, <2>2, <2>3 DEF AtRest, Settled, Gone
  <2>5. Typed'
    BY <1>1, <1>4, <1>5, <2>2, <2>3 DEF Typed
  <2>6. BetweenMethods'
    BY <1>5, <2>2, <2>3, <2>4 DEF BetweenMethods
  <2>7. QED
    BY <2>5, <2>6 DEF LifetimeInv
<1>6. ASSUME NEW h \in m_GatewayAccessServerHandlerList,
             Continue(<<At("Close", h), Closing>>), phase' = phase
      PROVE  LifetimeInv'
  <2>1. h \in Handler /\ Settled(h)
    BY <1>1 DEF Typed, AtRest, Settled, Gone
  <2>2. At("Close", h) \in Activation
    BY <2>1
  <2>3. /\ m_GatewayAccessServerHandlerList' = m_GatewayAccessServerHandlerList
        /\ stack' = <<At("Close", h), Closing>> \o <<>>
        /\ alive' = {g \in alive : Owned(g, m_GatewayAccessServerHandlerList,
                                         <<At("Close", h), Closing>> \o <<>>)}
    BY <1>3, <1>6 DEF Continue, Proceed
  <2>4. /\ stack' \in Seq(Activation) /\ stack' # <<>>
        /\ Head(stack') = At("Close", h) /\ Tail(stack') = <<Closing>>
    <3> HIDE DEF At, Activation, Closing
    <3>1. QED
      BY <1>2, <2>2, <2>3, TwoActivations
  <2>5. alive' = alive
    BY <1>1, <2>3 DEF AtRest, Settled, Typed, Owned
  <2>6. Others(h)'
    BY <1>1, <1>4, <1>6, <2>3, <2>5 DEF AtRest, Others, Settled, Gone
  <2>7. AtPoint("Close", h)'
    BY <1>1, <1>4, <1>6, <2>1, <2>3, <2>5 DEF AtPoint, Settled
  <2>8. InMethod("Close", h, <<Closing>>)'
    BY <1>1, <1>6, <2>4, <2>6, <2>7 DEF InMethod
  <2>9. Typed'
    BY <1>1, <1>4, <1>6, <2>3, <2>4, <2>5 DEF Typed
  <2>10. <<Closing>> \in Below("Close", h)'
    BY DEF Below
  <2>11. QED
    BY <2>1, <2>8, <2>9, <2>10 DEF LifetimeInv
<1>7. QED
  BY <1>5, <1>6 DEF CloseNext

(* The event loop finds every handler at rest.                              *)
LEMMA AtTheEventLoop ==
  ASSUME LifetimeInv, Event
  PROVE  Typed /\ AtRest /\ phase = "running" /\ stack = <<>>
BY DEF LifetimeInv, Event, BetweenMethods, InMethod, AtRest

LEMMA AcceptStep ==
  ASSUME LifetimeInv, NEW h \in Handler, Accept(h)
  PROVE  LifetimeInv'
<1>1. Typed /\ AtRest /\ phase = "running"
  BY AtTheEventLoop DEF Accept
<1>2. Gone(h) /\ h \notin alive
  BY <1>1 DEF Accept, AtRest, Settled
<1>3. At("Start", h) \in Activation /\ At("DoAccept", h) \in Activation
  OBVIOUS
<1>4. /\ stack' \in Seq(Activation) /\ stack' # <<>>
      /\ Head(stack') = At("Start", h) /\ Tail(stack') = <<At("DoAccept", h)>>
  <2> HIDE DEF At, Activation
  <2>1. QED
    BY <1>3, TwoActivations DEF Accept
<1>5. Typed'
  BY <1>1, <1>4 DEF Accept, Typed
<1>6. Others(h)'
  BY <1>1 DEF Accept, AtRest, Others, Settled, Gone, Typed
<1>7. AtPoint("Start", h)'
  BY <1>1, <1>2 DEF Accept, AtPoint, Gone, Typed
<1>8. InMethod("Start", h, <<At("DoAccept", h)>>)'
  <2>1. <<At("DoAccept", h)>> # <<Closing>>
    OBVIOUS
  <2>2. phase' = "running"
    BY <1>1 DEF Accept
  <2>3. QED
    BY <1>4, <1>6, <1>7, <2>1, <2>2 DEF InMethod
<1>9. <<At("DoAccept", h)>> \in Below("Start", h)'
  BY DEF Below
<1>10. QED
  BY <1>5, <1>8, <1>9 DEF LifetimeInv

LEMMA FrameArrivesStep ==
  ASSUME LifetimeInv, NEW h \in Handler, FrameArrives(h)
  PROVE  LifetimeInv'
<1>1. Typed /\ AtRest /\ phase = "running"
  BY AtTheEventLoop DEF FrameArrives
<1>2. h \in m_GatewayAccessServerHandlerList
  BY <1>1 DEF FrameArrives, AtRest, Settled, Gone
<1>3. OnlyConcerns(h)
  BY <1>1 DEF FrameArrives, OnlyConcerns, Typed, memberVars
<1>4. At("OnFrame", h) \in Activation
  OBVIOUS
<1>5. /\ stack' \in Seq(Activation) /\ stack' # <<>>
      /\ Head(stack') = At("OnFrame", h) /\ Tail(stack') = <<>>
  <2> HIDE DEF At, Activation
  <2>1. QED
    BY <1>4, OneActivation DEF FrameArrives
<1>6. QED
  BY <1>1, <1>2, <1>3, <1>5, EnterKeeps DEF FrameArrives, memberVars

LEMMA ConnectionBreaksStep ==
  ASSUME LifetimeInv, NEW h \in Handler, ConnectionBreaks(h)
  PROVE  LifetimeInv'
<1>1. Typed /\ AtRest /\ phase = "running"
  BY AtTheEventLoop DEF ConnectionBreaks
<1>2. h \in m_GatewayAccessServerHandlerList
  BY <1>1 DEF ConnectionBreaks, AtRest, Settled, Gone
<1>3. OnlyConcerns(h)
  BY <1>1 DEF ConnectionBreaks, OnlyConcerns, Typed, memberVars
<1>4. At("Protocol::Close", h) \in Activation
  OBVIOUS
<1>5. /\ stack' \in Seq(Activation) /\ stack' # <<>>
      /\ Head(stack') = At("Protocol::Close", h) /\ Tail(stack') = <<>>
  <2> HIDE DEF At, Activation
  <2>1. QED
    BY <1>4, OneActivation DEF ConnectionBreaks
<1>6. QED
  BY <1>1, <1>2, <1>3, <1>5, EnterKeeps DEF ConnectionBreaks, memberVars

LEMMA PacketArrivesStep ==
  ASSUME LifetimeInv, PacketArrives
  PROVE  LifetimeInv'
<1>1. Typed /\ AtRest /\ phase = "running"
  BY AtTheEventLoop DEF PacketArrives
<1>2. PICK h \in m_GatewayAccessServerHandlerList :
        /\ stack' = <<At("Send", h)>>
        /\ remaining' = m_GatewayAccessServerHandlerList \ {h}
  BY DEF PacketArrives
<1>3. OnlyConcerns(h)
  BY <1>1, <1>2 DEF PacketArrives, OnlyConcerns, Typed, memberVars
<1>4. At("Send", h) \in Activation
  BY <1>1 DEF Typed
<1>5. /\ stack' \in Seq(Activation) /\ stack' # <<>>
      /\ Head(stack') = At("Send", h) /\ Tail(stack') = <<>>
  <2> HIDE DEF At, Activation
  <2>1. QED
    BY <1>2, <1>4, OneActivation
<1>6. endpoint'[h] = "open"
  BY <1>1 DEF PacketArrives, Typed, AtRest, Settled, Gone
<1>7. QED
  BY <1>1, <1>3, <1>5, <1>6, EnterKeeps DEF PacketArrives, memberVars

LEMMA StopStep ==
  ASSUME LifetimeInv, Stop
  PROVE  LifetimeInv'
<1>1. Typed /\ AtRest
  BY AtTheEventLoop DEF Stop
<1>2. Closing \in Activation
  OBVIOUS
<1>3. stack' = <<Closing>> /\ stack' \in Seq(Activation)
  <2> HIDE DEF Activation
  <2>1. QED
    BY <1>2, OneActivation DEF Stop
<1>4. Typed'
  BY <1>1, <1>3 DEF Stop, Typed, memberVars
<1>5. \A g \in Handler : Settled(g)' \/ (Gone(g)' /\ g \notin alive')
  BY <1>1 DEF Stop, AtRest, Settled, Gone, memberVars
<1>6. QED
  BY <1>3, <1>4, <1>5 DEF Stop, BetweenMethods, LifetimeInv

LEMMA IdleStep ==
  ASSUME LifetimeInv, UNCHANGED vars
  PROVE  LifetimeInv'
<1>1. /\ m_GatewayAccessServerHandlerList' = m_GatewayAccessServerHandlerList
      /\ remaining' = remaining /\ stack' = stack /\ alive' = alive
      /\ m_Registered' = m_Registered /\ m_AddressLease' = m_AddressLease
      /\ endpoint' = endpoint /\ phase' = phase
  BY DEF vars, memberVars
<1>2. Typed' /\ (BetweenMethods => BetweenMethods')
  BY <1>1 DEF LifetimeInv, Typed, BetweenMethods, Settled, Gone
<1>3. ASSUME NEW point \in HandlerPoint, NEW h \in Handler, NEW below \in Below(point, h),
             InMethod(point, h, below)
      PROVE  InMethod(point, h, below)' /\ below \in Below(point, h)'
  BY <1>1, <1>3 DEF InMethod, Others, AtPoint, Settled, Gone, Below
<1>4. QED
  BY <1>2, <1>3 DEF LifetimeInv

-------------------------------------------------------------------------------
(* The handlers are at rest, or one of them is at work, at a point of a     *)
(* method that finds what it needs.                                         *)
THEOREM HandlersAtRestOrAtWork == Spec => []LifetimeInv
<1>1. Init => LifetimeInv
  <2> SUFFICES ASSUME Init PROVE LifetimeInv
    OBVIOUS
  <2>1. Typed
    BY DEF Init, Typed
  <2>2. BetweenMethods
    BY DEF Init, BetweenMethods, Gone
  <2>3. QED
    BY <2>1, <2>2 DEF LifetimeInv
<1>2. LifetimeInv /\ [Next]_vars => LifetimeInv'
  <2> SUFFICES ASSUME LifetimeInv, [Next]_vars PROVE LifetimeInv'
    OBVIOUS
  <2>1. ASSUME NEW h \in Handler,
               \/ Start(h) \/ StartProtocol(h) \/ DoAcceptEnds(h)
               \/ CloseProtocol(h) \/ CallOnClosed(h) \/ Close(h) \/ Deregister(h) \/ Leave(h)
        PROVE  LifetimeInv'
    BY ONLY LifetimeInv, <2>1, StartStep, StartProtocolStep, DoAcceptEndsStep,
       CloseProtocolStep, CallOnClosedStep, CloseStep, DeregisterStep, LeaveStep
  <2>2. ASSUME NEW h \in Handler, Send(h) \/ SendNext(h) \/ OnFrame(h) \/ OnPayload(h)
        PROVE  LifetimeInv'
    BY ONLY LifetimeInv, <2>2, SendStep, SendNextStep, OnFrameStep, OnPayloadStep
  <2>3. ASSUME NEW h \in Handler, Accept(h) \/ FrameArrives(h) \/ ConnectionBreaks(h)
        PROVE  LifetimeInv'
    BY ONLY LifetimeInv, <2>3, AcceptStep, FrameArrivesStep, ConnectionBreaksStep
  <2>4. CASE CloseNext \/ PacketArrives \/ Stop
    BY ONLY LifetimeInv, <2>4, CloseNextStep, PacketArrivesStep, StopStep
  <2>5. CASE UNCHANGED vars
    BY <2>5, IdleStep
  <2>6. QED
    BY <2>1, <2>2, <2>3, <2>4, <2>5 DEF Next, Step, Stopped
<1>3. QED
  BY <1>1, <1>2, PTL DEF Spec

(* The activations on the stack: the innermost, and the one it returns to.  *)
LEMMA OnTheStack ==
  ASSUME LifetimeInv, stack # <<>>, NEW i \in DOMAIN stack
  PROVE  \/ stack[i] = Closing
         \/ \E point \in HandlerPoint, h \in Handler :
              /\ stack[i] = At(point, h)
              /\ AtPoint(point, h) \/ (point = "DoAccept" /\ h \in alive)
<1>1. CASE BetweenMethods
  <2>1. stack = <<Closing>>
    BY <1>1 DEF BetweenMethods
  <2>2. QED
    BY <2>1
<1>2. ASSUME NEW point \in HandlerPoint, NEW h \in Handler, NEW below \in Below(point, h),
             InMethod(point, h, below)
      PROVE  \/ stack[i] = Closing
             \/ \E q \in HandlerPoint, g \in Handler :
                  /\ stack[i] = At(q, g)
                  /\ AtPoint(q, g) \/ (q = "DoAccept" /\ g \in alive)
  <2>1. /\ stack \in Seq(Activation) /\ Tail(stack) = below
        /\ Head(stack) = At(point, h) /\ AtPoint(point, h)
    BY <1>2 DEF LifetimeInv, Typed, InMethod
  <2>2. i \in 1..Len(stack) /\ Len(Tail(stack)) = Len(stack) - 1
    <3> HIDE DEF Activation
    <3>1. QED
      BY <2>1, HeadTailProperties, LenProperties
  <2>3. CASE i = 1
    <3>1. stack[i] = At(point, h)
      BY <2>1, <2>3
    <3>2. QED
      BY <2>1, <3>1
  <2>4. CASE i # 1
    <3>1. i - 1 \in 1..Len(below) /\ stack[i] = below[i - 1]
      <4> HIDE DEF Activation
      <4>1. i - 1 \in 1..Len(Tail(stack))
        BY <2>1, <2>2, <2>4, LenProperties
      <4>2. Tail(stack)[i - 1] = stack[(i - 1) + 1]
        BY <2>1, <4>1, HeadTailProperties
      <4>3. (i - 1) + 1 = i
        BY <2>1, <2>2, LenProperties
      <4>4. QED
        BY <2>1, <4>1, <4>2, <4>3
    <3>2. below \in {<<At("DoAccept", h)>>, <<Closing>>}
      BY <3>1, WhereToReturn
    <3>3. stack[i] \in {At("DoAccept", h), Closing}
      BY <3>1, <3>2
    <3>4. "DoAccept" \in HandlerPoint /\ h \in alive
      BY <2>1 DEF AtPoint
    <3>5. QED
      BY <3>3, <3>4
  <2>5. QED
    BY <2>3, <2>4
<1>3. QED
  BY <1>1, <1>2 DEF LifetimeInv

LEMMA NoStackNoActivation == stack = <<>> => DOMAIN stack = {}
BY EmptySeq, LenProperties

(* TypeOK, with its claim that only living handlers are listed.             *)
THEOREM ListedHandlersLive == Spec => []TypeOK
<1>1. LifetimeInv => TypeOK
  <2> SUFFICES ASSUME LifetimeInv PROVE TypeOK
    OBVIOUS
  <2>1. Typed
    BY DEF LifetimeInv
  <2>2. ASSUME NEW g \in Handler, g \in m_GatewayAccessServerHandlerList
        PROVE  g \in alive
    BY <2>2 DEF LifetimeInv, BetweenMethods, InMethod, Others, AtPoint, Settled, Gone
  <2>3. QED
    BY <2>1, <2>2 DEF Typed, TypeOK
<1>2. QED
  BY <1>1, HandlersAtRestOrAtWork, PTL

(* No method goes on with a destroyed handler (UsedWhileAlive), for any     *)
(* number of handlers: self of GatewayAccessServerHandler::Close, and the   *)
(* local pointer of DoAccept, are what it takes.                            *)
THEOREM MethodsRunOnLiveHandlers == Spec => []UsedWhileAlive
<1>1. LifetimeInv => UsedWhileAlive
  <2> SUFFICES ASSUME LifetimeInv, NEW i \in DOMAIN stack
               PROVE  /\ stack[i].of # Nobody => stack[i].of \in alive
                      /\ stack[i].at \in {"Send", "++It"} =>
                           stack[i].of \in m_GatewayAccessServerHandlerList
    BY DEF UsedWhileAlive
  <2>1. stack # <<>>
    BY NoStackNoActivation
  <2>2. QED
    BY <2>1, OnTheStack DEF AtPoint
<1>2. QED
  BY <1>1, HandlersAtRestOrAtWork, PTL

(* Send, OnPayload and Close find a lease (LeaseAtHand).                    *)
THEOREM LeaseIsThere == Spec => []LeaseAtHand
<1>1. LifetimeInv => LeaseAtHand
  <2> SUFFICES ASSUME LifetimeInv, NEW i \in DOMAIN stack,
                      stack[i].at \in {"Send", "OnPayload", "Close"}
               PROVE  m_AddressLease[stack[i].of]
    BY DEF LeaseAtHand
  <2>1. stack # <<>>
    BY NoStackNoActivation
  <2>2. QED
    BY <2>1, OnTheStack DEF AtPoint
<1>2. QED
  BY <1>1, HandlersAtRestOrAtWork, PTL

(* Between two callbacks the list, the objects, the registrations, the      *)
(* leases and the open endpoints are the same handlers (Quiescent).         *)
THEOREM NothingDanglesBetweenCallbacks == Spec => []Quiescent
<1>1. LifetimeInv => Quiescent
  <2> SUFFICES ASSUME LifetimeInv, stack = <<>> PROVE Quiescent
    BY DEF Quiescent
  <2>1. Typed /\ BetweenMethods
    BY DEF LifetimeInv, InMethod
  <2>2. /\ m_GatewayAccessServerHandlerList = alive
        /\ alive = {h \in Handler : m_Registered[h]}
        /\ alive = {h \in Handler : m_AddressLease[h]}
    BY <2>1 DEF Typed, BetweenMethods, Settled, Gone
  <2>3. phase = "running" => alive = {h \in Handler : endpoint[h] = "open"}
    BY <2>1 DEF Typed, BetweenMethods, Settled, Gone
  <2>4. phase = "stopped" => alive = {}
    BY <2>1 DEF BetweenMethods
  <2>5. QED
    BY <2>2, <2>3, <2>4 DEF Quiescent
<1>2. QED
  BY <1>1, HandlersAtRestOrAtWork, PTL
===============================================================================

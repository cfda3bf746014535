---------------------- MODULE GatewayAccessServerProofs -----------------------
(***************************************************************************)
(* Proofs about the gateway access server, for any number of clients that  *)
(* send anything and a network that answers anything.                      *)
(*                                                                         *)
(* Those about leases rest on one observation: apart from Accept and Close, *)
(* no callback touches the pool, the collection or the flag of a handler.   *)
(* The last part is about the send queues, which nearly all callbacks       *)
(* change: their frames have the format each client has chosen (QueueInv).  *)
(***************************************************************************)
EXTENDS GatewayAccessServer, SequenceTheorems, TLAPS

(* What the book-keeping of leases and handlers consists of. *)
leaseVars == <<poolVars, collectionVars>>

(* Counting modulo last + 1 stays within 0..last.                           *)
LEMMA Wrapping ==
  ASSUME NEW last \in Nat
  PROVE  /\ \A n \in 0..last : (n + 1) % (last + 1) \in 0..last
         /\ \A n \in Nat : n <= last => n \in 0..last
OBVIOUS

(* Addresses are counted modulo 2^16 and never look like the null lease.    *)
LEMMA AddressArithmetic ==
  /\ NoLease \notin SSA
  /\ \A a \in SSA : (a + 1) % SSAModulus \in SSA
  /\ FirstClientSSA \in SSA
<1>1. NonWsnAddr \in Nat
  BY SMT DEF NonWsnAddr
<1>2. FirstClientSSA \in Nat /\ FirstClientSSA <= NonWsnAddr
  BY SMT DEF FirstClientSSA, MulticastGateway, NonWsnAddr
<1>3. QED
  BY <1>1, <1>2, Wrapping, LeaseAssumption DEF SSA, SSAModulus

(* The inductive invariant: types of the book-keeping, and agreement.       *)
LeaseInv ==
  /\ m_NextFreeAddress \in SSA
  /\ m_ReleasedAddresses \in Seq(SSA)
  /\ m_AddressLease \in [Conn -> SSA \cup {NoLease}]
  /\ m_Registered \in [Conn -> BOOLEAN]
  /\ m_GatewayAccessServerHandlerList \subseteq Conn
  /\ HandlersHoldLeases

(* The one observation. *)
LEMMA LeaseSteps ==
  ASSUME [Next]_vars, m_GatewayAccessServerHandlerList \subseteq Conn
  PROVE  \/ \E c \in Conn : Accept(c) \/ Close(c)
         \/ UNCHANGED leaseVars
<1> USE DEF leaseVars, poolVars, collectionVars
<1>1. ASSUME NEW c \in Conn, OnClosed(c) PROVE Close(c)
  BY <1>1 DEF OnClosed
<1>2. ASSUME NEW c \in Conn, NEW frame \in ClientFrames, OnFrame(c, frame)
      PROVE  Close(c) \/ UNCHANGED leaseVars
  BY <1>2 DEF OnFrame, OnFrameWithoutMessage, OnPayloadForAddressService,
     OnPayloadForPublishSubscribe, OnPayloadForRouting, MessageArrives, FrameArrives,
     OnProtocolViolation
<1>3. ASSUME NEW c \in Conn, ClientReceives(c) PROVE UNCHANGED leaseVars
  BY <1>3 DEF ClientReceives
<1>4. CASE NodeReplies \/ NodeSends
  BY <1>4 DEF NodeReplies, NodeSends, OnSnetPacket
<1>5. CASE ShutdownClosesOne
  BY <1>5 DEF ShutdownClosesOne
<1>6. CASE Stop \/ ShutdownEnds
  BY <1>6 DEF Stop, ShutdownEnds
<1>7. CASE UNCHANGED vars
  BY <1>7 DEF vars
<1>8. QED
  BY <1>1, <1>2, <1>3, <1>4, <1>5, <1>6, <1>7 DEF Next, Stopped

LEMMA AcceptKeepsLeaseInv ==
  ASSUME LeaseInv, NEW c \in Conn, Accept(c)
  PROVE  LeaseInv'
<1>1. PICK a \in SSA :
        /\ m_AddressLease' = [m_AddressLease EXCEPT ![c] = a]
        /\ m_NextFreeAddress' \in SSA
        /\ m_ReleasedAddresses' \in Seq(SSA)
  <2>1. CASE Pool!LeaseFresh(c)
    BY <2>1, AddressArithmetic DEF LeaseInv, Pool!LeaseFresh
  <2>2. CASE Pool!LeaseReclaimed(c)
    <3>1. /\ Head(m_ReleasedAddresses) \in SSA
          /\ Tail(m_ReleasedAddresses) \in Seq(SSA)
      BY <2>2, HeadTailProperties DEF LeaseInv, Pool!LeaseReclaimed
    <3>2. QED
      BY <2>2, <3>1 DEF LeaseInv, Pool!LeaseReclaimed
  <2>3. QED
    BY <2>1, <2>2 DEF Accept, Pool!ObtainAddressLease
<1>2. QED
  BY <1>1, AddressArithmetic DEF LeaseInv, HandlersHoldLeases, Accept

LEMMA CloseKeepsLeaseInv ==
  ASSUME LeaseInv, NEW c \in Conn, Close(c)
  PROVE  LeaseInv'
<1>1. /\ m_AddressLease' = [m_AddressLease EXCEPT ![c] = NoLease]
      /\ m_NextFreeAddress' \in SSA
      /\ m_ReleasedAddresses' \in Seq(SSA)
  BY DEF LeaseInv, Close, Pool!ReleaseAddressLease
<1>2. QED
  BY <1>1 DEF LeaseInv, HandlersHoldLeases, Close

LEMMA NextLeaseInv ==
  ASSUME LeaseInv, [Next]_vars
  PROVE  LeaseInv'
<1>1. CASE UNCHANGED leaseVars
  BY <1>1 DEF leaseVars, poolVars, collectionVars, LeaseInv, HandlersHoldLeases
<1>2. QED
  BY <1>1, LeaseSteps, AcceptKeepsLeaseInv, CloseKeepsLeaseInv DEF LeaseInv

LEMMA InitLeaseInv == Init => LeaseInv
BY AddressArithmetic DEF Init, Pool!Init, LeaseInv, HandlersHoldLeases

(* A handler in the collection always has a lease to be asked for its       *)
(* address, and a handler that has one is in the collection: neither Send   *)
(* nor OnPayload ever dereferences the lease that Close has reset, and the  *)
(* closing loop of SystemShutdown always makes progress.                    *)
THEOREM LeasesAreHeld == Spec => []HandlersHoldLeases
<1>1. LeaseInv => HandlersHoldLeases
  BY DEF LeaseInv
<1>2. QED
  BY InitLeaseInv, NextLeaseInv, <1>1, PTL DEF Spec

(* Accept and Close use the operations of the pool and nothing else touches *)
(* its variables, so that what is proved of the pool holds in the server.   *)
LEMMA ServerRunsItsPool == Spec => Pool!Spec
<1>1. Init => Pool!Init
  BY DEF Init
<1>2. LeaseInv /\ [Next]_vars => [Pool!Next]_(Pool!vars)
  <2> SUFFICES ASSUME LeaseInv, [Next]_vars
               PROVE  Pool!Next \/ UNCHANGED Pool!vars
    OBVIOUS
  <2>1. ASSUME NEW c \in Conn, Accept(c) \/ Close(c) PROVE Pool!Next
    BY <2>1 DEF Accept, Close, Pool!Next
  <2>2. CASE UNCHANGED leaseVars
    BY <2>2 DEF leaseVars, poolVars, Pool!vars
  <2>3. QED
    BY <2>1, <2>2, LeaseSteps DEF LeaseInv
<1>3. QED
  BY InitLeaseInv, NextLeaseInv, <1>1, <1>2, PTL DEF Spec, Pool!Spec
-------------------------------------------------------------------------------
(* The theorems about the pool hold for the pool of the server.             *)
PoolProofs == INSTANCE AddressPoolProofs
                WITH Lessee <- Conn, FirstAddress <- FirstClientSSA,
                     ReservedFrom <- FirstGroupSSA, Modulus <- SSAModulus

LEMMA PoolAssumption == PoolProofs!AddressAssumption
<1>1. /\ NonWsnAddr \in Nat /\ FirstClientSSA \in Nat /\ FirstGroupSSA \in Nat
      /\ 0 < FirstClientSSA /\ FirstClientSSA <= FirstGroupSSA /\ FirstGroupSSA < SSAModulus
      /\ SSAModulus \in Nat
  BY SMT DEF FirstClientSSA, MulticastGateway, NonWsnAddr, SSAModulus, FirstGroupSSA
<1>2. SSAModulus - 1 = NonWsnAddr
  BY <1>1, SMT DEF SSAModulus
<1>3. PoolProofs!IsFiniteSet(Conn)
  BY LeaseAssumption DEF IsFiniteSet, PoolProofs!IsFiniteSet
<1>4. QED
  BY <1>1, <1>2, <1>3, LeaseAssumption, SMT DEF SSA, PoolProofs!AddressAssumption

(* What the clients need of their leases: addresses of the client range,    *)
(* no two alike.                                                            *)
AddressesUsable ==
  \A c, d \in Conn :
    m_AddressLease[c] # NoLease =>
      /\ m_AddressLease[c] \in FirstClientSSA..(FirstGroupSSA - 1)
      /\ m_AddressLease[c] = m_AddressLease[d] => c = d

(* The behaviour of the server, as the theorems about the pool see it.      *)
LEMMA ServerRunsThePool ==
  /\ Pool!EnoughAddresses => PoolProofs!EnoughAddresses
  /\ Spec => PoolProofs!Spec
<1>1. Pool!EnoughAddresses => PoolProofs!EnoughAddresses
  BY SMT DEF Pool!EnoughAddresses, PoolProofs!EnoughAddresses,
     Pool!Cardinality, PoolProofs!Cardinality
<1>2. Pool!Init => PoolProofs!Init
  BY DEF Pool!Init, PoolProofs!Init
<1>3. [Pool!Next]_(Pool!vars) => [PoolProofs!Next]_(PoolProofs!vars)
  BY DEF Pool!Next, PoolProofs!Next, Pool!vars, PoolProofs!vars,
     Pool!ObtainAddressLease, PoolProofs!ObtainAddressLease,
     Pool!LeaseFresh, PoolProofs!LeaseFresh, Pool!LeaseReclaimed, PoolProofs!LeaseReclaimed,
     Pool!ReleaseAddressLease, PoolProofs!ReleaseAddressLease
<1>4. Spec => PoolProofs!Spec
  BY <1>2, <1>3, ServerRunsItsPool, PTL DEF Pool!Spec, PoolProofs!Spec
<1>5. QED
  BY <1>1, <1>4

(* What is proved of the pool alone thus holds of the server's pool.        *)
THEOREM ClientsHaveOwnAddresses ==
  ASSUME Pool!EnoughAddresses
  PROVE  Spec => []AddressesUsable
<1>1. PoolProofs!EnoughAddresses
  BY ServerRunsThePool
<1>2. PoolProofs!Spec => []PoolProofs!LeasesDistinct
  BY <1>1, PoolProofs!LeasesAreDistinct, PoolAssumption
<1>3. PoolProofs!Spec => []PoolProofs!CounterBounded
  BY <1>1, PoolProofs!CounterIsBounded, PoolAssumption
<1>4. PoolProofs!LeasesDistinct /\ PoolProofs!CounterBounded => AddressesUsable
  BY DEF AddressesUsable, PoolProofs!LeasesDistinct, PoolProofs!CounterBounded,
     PoolProofs!LeasedAddresses, PoolProofs!Leased, PoolProofs!ClientAddress
<1>5. QED
  BY <1>2, <1>3, <1>4, ServerRunsThePool, PTL

(* The process ends only when the collection is empty, and nobody connects  *)
(* to a process that is ending.                                             *)
PhaseInv ==
  /\ phase \in {"running", "stopping", "stopped"}
  /\ phase = "stopped" => m_GatewayAccessServerHandlerList = {}

LEMMA NextPhaseInv ==
  ASSUME PhaseInv, [Next]_vars
  PROVE  PhaseInv'
<1>1. ASSUME phase = "running", phase' = phase PROVE PhaseInv'
  BY <1>1 DEF PhaseInv
<1>2. ASSUME NEW c \in Conn, Accept(c) PROVE PhaseInv'
  BY <1>1, <1>2 DEF Accept
<1>3. ASSUME NEW c \in Conn, OnClosed(c) \/ ClientReceives(c) PROVE PhaseInv'
  BY <1>1, <1>3 DEF OnClosed, ClientReceives
<1>4. ASSUME NEW c \in Conn, NEW frame \in ClientFrames, OnFrame(c, frame) PROVE PhaseInv'
  BY <1>1, <1>4 DEF OnFrame, OnFrameWithoutMessage, OnPayloadForAddressService,
     OnPayloadForPublishSubscribe, OnPayloadForRouting, OnProtocolViolation, MessageArrives,
     FrameArrives
<1>5. CASE NodeReplies \/ NodeSends
  BY <1>1, <1>5 DEF NodeReplies, NodeSends, OnSnetPacket
<1>6. CASE Stop
  BY <1>6 DEF Stop, PhaseInv
<1>7. CASE ShutdownClosesOne
  BY <1>7 DEF ShutdownClosesOne, PhaseInv
<1>8. CASE ShutdownEnds
  BY <1>8 DEF ShutdownEnds, PhaseInv, collectionVars
<1>9. CASE UNCHANGED vars
  BY <1>9 DEF vars, PhaseInv, collectionVars
<1>10. QED
  BY <1>2, <1>3, <1>4, <1>5, <1>6, <1>7, <1>8, <1>9 DEF Next, Stopped

(* When the process has ended every address that was ever leased is back in *)
(* the pool.                                                                *)
THEOREM ServerStopsClean ==
  ASSUME Pool!EnoughAddresses
  PROVE  Spec => []StoppedClean
<1>1. Spec => []PoolProofs!AddressesConserved
  <2>1. PoolProofs!EnoughAddresses
    BY ServerRunsThePool
  <2>2. PoolProofs!Spec => []PoolProofs!AddressesConserved
    BY <2>1, PoolProofs!AddressesAreConserved, PoolAssumption
  <2>3. QED
    BY <2>2, ServerRunsThePool, PTL
<1>2. ASSUME LeaseInv, PhaseInv, PoolProofs!AddressesConserved PROVE StoppedClean
  <2> SUFFICES ASSUME phase = "stopped"
               PROVE  Pool!Released = FirstClientSSA..(m_NextFreeAddress - 1)
    BY DEF StoppedClean
  <2>1. m_GatewayAccessServerHandlerList = {}
    BY <1>2 DEF PhaseInv
  <2>2. PoolProofs!Leased = {}
    BY <1>2, <2>1 DEF LeaseInv, HandlersHoldLeases, PoolProofs!Leased
  <2>3. PoolProofs!LeasedAddresses = {}
    BY <2>2 DEF PoolProofs!LeasedAddresses
  <2>4. PoolProofs!Released = Pool!Released
    BY DEF PoolProofs!Released, Pool!Released, PoolProofs!Range, Pool!Range
  <2>5. QED
    BY <1>2, <2>3, <2>4 DEF PoolProofs!AddressesConserved
<1>3. Init => PhaseInv
  BY DEF Init, PhaseInv
<1>4. LeaseInv /\ PhaseInv /\ [Next]_vars => (LeaseInv /\ PhaseInv)'
  BY NextLeaseInv, NextPhaseInv
<1>5. QED
  BY InitLeaseInv, <1>1, <1>2, <1>3, <1>4, PTL DEF Spec

-------------------------------------------------------------------------------
(* The inductive invariant behind the return path: a packet in the network  *)
(* whose sender is still connected carries the address of that sender, who  *)
(* has chosen a format.                                                     *)
ReturnInv ==
  /\ m_eFramingMode \in [Conn -> FramingMode]
  /\ \A r \in requests :
       /\ r = [origin |-> r.origin, message |-> r.message]
       /\ r.origin \in Conn \cup {Gone, Network}
       /\ r.origin \in Conn /\ r.message.srcSSA # WiredAddr =>
            /\ m_Registered[r.origin]
            /\ r.message.srcSSA = m_AddressLease[r.origin]
            /\ m_eFramingMode[r.origin] # "UNKNOWN"

LEMMA AcceptKeepsReturnInv ==
  ASSUME LeaseInv, ReturnInv, NEW c \in Conn, Accept(c)
  PROVE  ReturnInv'
<1>1. \A d \in Conn \ {c} : /\ m_AddressLease'[d] = m_AddressLease[d]
                            /\ m_Registered'[d] = m_Registered[d]
  BY DEF LeaseInv, Accept, Pool!ObtainAddressLease, Pool!LeaseFresh, Pool!LeaseReclaimed
<1>2. ~m_Registered[c] /\ requests' = requests /\ m_eFramingMode' = m_eFramingMode
  BY DEF Accept, handlerVars
<1>3. QED
  BY <1>1, <1>2 DEF ReturnInv

LEMMA CloseKeepsReturnInv ==
  ASSUME LeaseInv, ReturnInv, NEW c \in Conn, Close(c)
  PROVE  ReturnInv'
<1>1. \A d \in Conn \ {c} : /\ m_AddressLease'[d] = m_AddressLease[d]
                            /\ m_Registered'[d] = m_Registered[d]
                            /\ m_eFramingMode'[d] = m_eFramingMode[d]
  BY DEF LeaseInv, ReturnInv, Close, Destroy, Pool!ReleaseAddressLease
<1>2. m_eFramingMode' \in [Conn -> FramingMode]
  BY DEF ReturnInv, Close, Destroy, FramingMode
<1>3. ASSUME NEW q \in requests'
      PROVE  /\ q = [origin |-> q.origin, message |-> q.message]
             /\ q.origin \in Conn \cup {Gone, Network}
             /\ q.origin \in Conn => q.origin # c /\ q \in requests
  <2>1. PICK r \in requests : q = IF r.origin = c THEN [r EXCEPT !.origin = Gone] ELSE r
    BY <1>3 DEF Close
  <2>2. /\ r = [origin |-> r.origin, message |-> r.message]
        /\ r.origin \in Conn \cup {Gone, Network}
    BY DEF ReturnInv
  <2>3. CASE r.origin = c
    <3>1. q = [origin |-> Gone, message |-> r.message]
      BY <2>1, <2>2, <2>3
    <3>2. QED
      BY <3>1, OriginAssumption
  <2>4. CASE r.origin # c
    BY <2>1, <2>2, <2>4
  <2>5. QED
    BY <2>3, <2>4
<1>4. QED
  BY <1>1, <1>2, <1>3 DEF ReturnInv

LEMMA FrameKeepsReturnInv ==
  ASSUME LeaseInv, ReturnInv, NEW c \in Conn, NEW frame \in ClientFrames, FrameArrives(c, frame),
         \A q \in requests' \ requests :
           \E message \in Message : q = [origin |-> c, message |-> Masqueraded(c, message)]
  PROVE  ReturnInv'
<1>1. /\ m_AddressLease' = m_AddressLease /\ m_Registered' = m_Registered /\ m_Registered[c]
      /\ m_eFramingMode' = [m_eFramingMode EXCEPT ![c] = frame.framing]
  BY DEF FrameArrives, poolVars, collectionVars
<1>2. frame.framing \in {"ESCAPING", "LENGTH"}
  BY FrameAssumption
<1>3. /\ m_eFramingMode' \in [Conn -> FramingMode]
      /\ m_eFramingMode'[c] # "UNKNOWN"
      /\ \A d \in Conn : m_eFramingMode[d] # "UNKNOWN" => m_eFramingMode'[d] # "UNKNOWN"
  BY <1>1, <1>2 DEF ReturnInv, FramingMode
<1>4. ASSUME NEW q \in requests', q \notin requests
      PROVE  /\ q = [origin |-> c, message |-> q.message]
             /\ q.message.srcSSA \in {WiredAddr, m_AddressLease[c]}
  <2>1. PICK message \in Message : q = [origin |-> c, message |-> Masqueraded(c, message)]
    BY <1>4
  <2>2. Masqueraded(c, message).srcSSA \in {WiredAddr, m_AddressLease[c]}
    BY DEF Masqueraded, Message
  <2>3. QED
    BY <2>1, <2>2
<1>5. QED
  BY <1>1, <1>3, <1>4 DEF ReturnInv

LEMMA NextReturnInv ==
  ASSUME LeaseInv, ReturnInv, [Next]_vars
  PROVE  ReturnInv'
<1>1. ASSUME NEW c \in Conn, NEW frame \in ClientFrames, OnFrame(c, frame)
      PROVE  ReturnInv'
  <2>1. ASSUME FrameArrives(c, frame), requests' = requests PROVE ReturnInv'
    BY <1>1, <2>1, FrameKeepsReturnInv
  <2>2. CASE OnFrameWithoutMessage(c, frame)
    BY <2>1, <2>2 DEF OnFrameWithoutMessage
  <2>3. CASE OnPayloadForAddressService(c, frame)
    BY <2>1, <2>3 DEF OnPayloadForAddressService, MessageArrives
  <2>4. CASE OnPayloadForPublishSubscribe(c, frame)
    BY <2>1, <2>4 DEF OnPayloadForPublishSubscribe, MessageArrives
  <2>5. CASE OnPayloadForRouting(c, frame)
    <3>1. FrameArrives(c, frame) /\ frame.payload # NoPayload
      BY <2>5 DEF OnPayloadForRouting, MessageArrives
    <3>2. frame.payload \in Message
      BY <3>1, FrameAssumption
    <3>3. \A q \in requests' \ requests :
            q = [origin |-> c, message |-> Masqueraded(c, frame.payload)]
      BY <2>5 DEF OnPayloadForRouting, RouteSnetPacket
    <3>4. QED
      BY <3>1, <3>2, <3>3, FrameKeepsReturnInv
  <2>6. CASE OnProtocolViolation(c, frame)
    BY <2>6, CloseKeepsReturnInv DEF OnProtocolViolation
  <2>7. QED
    BY <1>1, <2>2, <2>3, <2>4, <2>5, <2>6 DEF OnFrame
<1>2. ASSUME UNCHANGED <<leaseVars, m_eFramingMode>>,
             \A q \in requests' \ requests : \E m : q = [origin |-> Network, message |-> m]
      PROVE  ReturnInv'
  BY <1>2, OriginAssumption DEF ReturnInv, leaseVars, poolVars, collectionVars
<1>3. ASSUME UNCHANGED <<leaseVars, m_eFramingMode, requests>> PROVE ReturnInv'
  BY <1>2, <1>3
<1>4. ASSUME NEW message, OnSnetPacket(message) PROVE ReturnInv'
  <2>1. \A q \in requests' \ requests : q = [origin |-> Network, message |-> message]
    BY <1>4 DEF OnSnetPacket, RouteSnetPacket
  <2>2. UNCHANGED <<leaseVars, m_eFramingMode>>
    BY <1>4 DEF OnSnetPacket, leaseVars, handlerVars
  <2>3. QED
    BY <1>2, <2>1, <2>2
<1>5. CASE NodeReplies \/ NodeSends
  BY <1>4, <1>5 DEF NodeReplies, NodeSends
<1>6. ASSUME NEW c \in Conn, Accept(c) \/ OnClosed(c) PROVE ReturnInv'
  BY <1>6, AcceptKeepsReturnInv, CloseKeepsReturnInv DEF OnClosed
<1>7. ASSUME NEW c \in Conn, ClientReceives(c) PROVE ReturnInv'
  BY <1>3, <1>7 DEF ClientReceives, leaseVars, handlerVars
<1>8. CASE ShutdownClosesOne
  BY <1>8, CloseKeepsReturnInv DEF ShutdownClosesOne, LeaseInv
<1>9. CASE Stop \/ ShutdownEnds \/ UNCHANGED vars
  BY <1>3, <1>9 DEF Stop, ShutdownEnds, vars, leaseVars, handlerVars
<1>10. QED
  BY <1>1, <1>5, <1>6, <1>7, <1>8, <1>9 DEF Next, Stopped

LEMMA InitReturnInv == Init => ReturnInv
BY DEF Init, ReturnInv, FramingMode

(* A packet to the address of a connected client leaves the routing entity  *)
(* towards the clients and passes the filter of that client alone.          *)
LEMMA OneClientTakesIt ==
  ASSUME LeaseInv, AddressesUsable, NEW c \in Conn, m_Registered[c],
         NEW message, message.dstSSA = m_AddressLease[c]
  PROVE  /\ PerformRouting("HDLCD", message) = "GWCLIENTS"
         /\ {d \in m_GatewayAccessServerHandlerList : ForThisClient(d, message)} = {c}
<1>1. /\ m_AddressLease[c] \in FirstClientSSA..(FirstGroupSSA - 1)
      /\ \A d \in Conn : m_AddressLease[c] = m_AddressLease[d] => c = d
      /\ c \in m_GatewayAccessServerHandlerList
  BY DEF LeaseInv, HandlersHoldLeases, AddressesUsable
<1>2. /\ FirstClientSSA \in Nat /\ FirstGroupSSA \in Nat /\ MulticastGateway \in Nat
      /\ MulticastAddressDatabase < MulticastGateway /\ MulticastGateway < FirstClientSSA
      /\ MulticastAddressDatabase \in Nat
  BY SMT DEF FirstClientSSA, FirstGroupSSA, MulticastGateway, MulticastAddressDatabase
<1>3. /\ message.dstSSA \in Nat
      /\ MulticastGateway < message.dstSSA /\ message.dstSSA < FirstGroupSSA
  BY <1>1, <1>2
<1>4. ~NotCaught(message) /\ ~ForSensorNetwork("HDLCD", message)
  BY <1>2, <1>3 DEF NotCaught, ForSensorNetwork
<1>5. ClientSSA(message.dstSSA) /\ ~GroupSSA(message.dstSSA)
  BY <1>2, <1>3 DEF ClientSSA, GroupSSA
<1>6. QED
  BY <1>1, <1>4, <1>5 DEF PerformRouting, ForThisClient, LeaseInv

(* While a client stays connected, replies to what it has sent reach this   *)
(* client and nobody else, whatever source address it used and whoever      *)
(* came and went in the meantime.                                           *)
THEOREM RepliesReturnToTheirClient ==
  ASSUME Pool!EnoughAddresses
  PROVE  Spec => []ReturnPathIntact
<1>1. ASSUME LeaseInv, AddressesUsable, ReturnInv PROVE ReturnPathIntact
  <2> SUFFICES ASSUME NEW r \in requests, r.origin \in Conn, r.message.srcSSA # WiredAddr
               PROVE  /\ PerformRouting("HDLCD", ReplyTo(r.message)) = "GWCLIENTS"
                      /\ {c \in m_GatewayAccessServerHandlerList :
                            ForThisClient(c, ReplyTo(r.message))} = {r.origin}
                      /\ m_eFramingMode[r.origin] # "UNKNOWN"
    BY DEF ReturnPathIntact
  <2>1. /\ m_Registered[r.origin] /\ r.message.srcSSA = m_AddressLease[r.origin]
        /\ m_eFramingMode[r.origin] # "UNKNOWN"
    BY <1>1 DEF ReturnInv
  <2>2. ReplyTo(r.message).dstSSA = r.message.srcSSA
    BY DEF ReplyTo, SnetServiceMessage
  <2>3. QED
    BY <1>1, <2>1, <2>2, OneClientTakesIt
<1>2. LeaseInv /\ ReturnInv /\ [Next]_vars => (LeaseInv /\ ReturnInv)'
  BY NextLeaseInv, NextReturnInv
<1>3. Spec => []AddressesUsable
  BY ClientsHaveOwnAddresses
<1>4. QED
  BY InitLeaseInv, InitReturnInv, <1>1, <1>2, <1>3, PTL DEF Spec
-------------------------------------------------------------------------------
(* The send queues.                                                         *)

(* The frames in a send queue, and those of a client that has chosen mode.  *)
GatewayFrame == [framing : {"ESCAPING", "LENGTH"}, id : FrameId, payload : Payload]
FramesOf(mode) == [framing : {mode} \ {"UNKNOWN"}, id : FrameId, payload : Payload]

Full(queue) == Len(queue) >= SendQueueLimit
WithinLimit(queue) == Len(queue) <= SendQueueLimit

LEMMA SameInterval ==
  ASSUME NEW m \in Nat, NEW n \in Nat, 1..m = 1..n
  PROVE  m = n
<1>1. \A i \in Nat : i \in 1..m <=> i \in 1..n
  OBVIOUS
<1>2. (m # 0 => m \in 1..n) /\ (n # 0 => n \in 1..m)
  BY <1>1
<1>3. QED
  BY <1>2

(* Forgetting the framing keeps the length and the order.                   *)
LEMMA PayloadsOfQueue ==
  ASSUME NEW queue \in Seq(GatewayFrame)
  PROVE  /\ Payloads(queue) \in Seq(Payload)
         /\ Len(Payloads(queue)) = Len(queue)
         /\ \A i \in 1..Len(queue) : Payloads(queue)[i] = queue[i].payload
<1>1. Len(queue) \in Nat /\ DOMAIN queue = 1..Len(queue)
  BY LenProperties
<1>2. \A i \in 1..Len(queue) : queue[i].payload \in Payload
  <2>1. \A i \in 1..Len(queue) : queue[i] \in GatewayFrame
    BY ElementOfSeq
  <2>2. QED
    BY <2>1 DEF GatewayFrame
<1>3. Payloads(queue) \in [1..Len(queue) -> Payload]
  BY <1>1, <1>2 DEF Payloads
<1>4. Payloads(queue) \in Seq(Payload)
  BY <1>1, <1>3, SeqDef
<1>5. Len(Payloads(queue)) \in Nat /\ 1..Len(Payloads(queue)) = 1..Len(queue)
  BY <1>1, <1>4, LenProperties DEF Payloads
<1>6. Len(Payloads(queue)) = Len(queue)
  BY <1>1, <1>5, SameInterval
<1>7. QED
  BY <1>1, <1>4, <1>6 DEF Payloads

(* It commutes with the operations on queues.                               *)
LEMMA PayloadsOfAppend ==
  ASSUME NEW queue \in Seq(GatewayFrame), NEW frame \in GatewayFrame
  PROVE  Payloads(Append(queue, frame)) = Append(Payloads(queue), frame.payload)
<1>1. frame.payload \in Payload
  BY DEF GatewayFrame
<1>2. Append(queue, frame) \in Seq(GatewayFrame)
  BY AppendProperties
<1>3. Payloads(queue) \in Seq(Payload) /\ Len(Payloads(queue)) = Len(queue)
  BY PayloadsOfQueue
<1>4. /\ Append(Payloads(queue), frame.payload) \in Seq(Payload)
      /\ Len(Append(Payloads(queue), frame.payload)) = Len(queue) + 1
  BY <1>1, <1>3, AppendProperties
<1>5. /\ Payloads(Append(queue, frame)) \in Seq(Payload)
      /\ Len(Payloads(Append(queue, frame))) = Len(queue) + 1
  BY <1>2, PayloadsOfQueue, AppendProperties
<1>6. ASSUME NEW i \in 1..(Len(queue) + 1)
      PROVE  Payloads(Append(queue, frame))[i] = Append(Payloads(queue), frame.payload)[i]
  <2>1. Payloads(Append(queue, frame))[i] = Append(queue, frame)[i].payload
    <3>1. Len(Append(queue, frame)) = Len(queue) + 1
      BY AppendProperties
    <3>2. QED
      BY <1>2, <3>1, PayloadsOfQueue
  <2>2. CASE i = Len(queue) + 1
    <3>1. Append(queue, frame)[i] = frame
      BY <2>2, AppendProperties
    <3>2. Append(Payloads(queue), frame.payload)[i] = frame.payload
      BY <1>1, <1>3, <2>2, AppendProperties
    <3>3. QED
      BY <2>1, <3>1, <3>2
  <2>3. CASE i \in 1..Len(queue)
    <3>1. Append(queue, frame)[i] = queue[i]
      BY <2>3, AppendProperties
    <3>2. Append(Payloads(queue), frame.payload)[i] = Payloads(queue)[i]
      BY <1>1, <1>3, <2>3, AppendProperties
    <3>3. QED
      BY <2>1, <2>3, <3>1, <3>2, PayloadsOfQueue
  <2>4. QED
    <3>1. Len(queue) \in Nat
      BY LenProperties
    <3>2. i = Len(queue) + 1 \/ i \in 1..Len(queue)
      BY <3>1
    <3>3. QED
      BY <2>2, <2>3, <3>2
<1>7. QED
  BY <1>4, <1>5, <1>6, SeqEqual

LEMMA PayloadsOfTail ==
  ASSUME NEW queue \in Seq(GatewayFrame), queue # <<>>
  PROVE  /\ Payloads(queue) # <<>>
         /\ Payloads(Tail(queue)) = Tail(Payloads(queue))
<1>1. /\ Tail(queue) \in Seq(GatewayFrame)
      /\ Len(Tail(queue)) = Len(queue) - 1
      /\ Len(queue) \in Nat \ {0}
  BY HeadTailProperties, EmptySeq
<1>2. Payloads(queue) # <<>>
  BY <1>1, PayloadsOfQueue, EmptySeq
<1>3. Payloads(queue) \in Seq(Payload) /\ Len(Payloads(queue)) = Len(queue)
  BY PayloadsOfQueue
<1>4. /\ Tail(Payloads(queue)) \in Seq(Payload)
      /\ Len(Tail(Payloads(queue))) = Len(queue) - 1
      /\ \A i \in 1..(Len(queue) - 1) : Tail(Payloads(queue))[i] = Payloads(queue)[i + 1]
  BY <1>2, <1>3, HeadTailProperties
<1>5. /\ Payloads(Tail(queue)) \in Seq(Payload)
      /\ Len(Payloads(Tail(queue))) = Len(queue) - 1
  BY <1>1, PayloadsOfQueue
<1>6. ASSUME NEW i \in 1..(Len(queue) - 1)
      PROVE  Payloads(Tail(queue))[i] = Tail(Payloads(queue))[i]
  <2>1. Payloads(Tail(queue))[i] = Tail(queue)[i].payload
    BY <1>1, PayloadsOfQueue
  <2>2. Tail(queue)[i] = queue[i + 1]
    BY <1>1, HeadTailProperties
  <2>3. i + 1 \in 1..Len(queue)
    BY <1>1
  <2>4. Payloads(queue)[i + 1] = queue[i + 1].payload
    BY <2>3, PayloadsOfQueue
  <2>5. QED
    BY <1>4, <2>1, <2>2, <2>4
<1>7. QED
  BY <1>2, <1>4, <1>5, <1>6, SeqEqual

(* An item has been put at the end of a queue, or the queue was full.       *)
Queued(before, after, item) ==
  \/ Payloads(after) = Append(Payloads(before), item)
  \/ after = before /\ Full(after)

(* SendFrame appends, or the queue is full and stays as it is.              *)
LEMMA Sending ==
  ASSUME NEW mode \in {"ESCAPING", "LENGTH"}, NEW queue \in Seq(FramesOf(mode)),
         NEW frame \in FramesOf(mode)
  PROVE  /\ SendFrame(queue, frame) \in Seq(FramesOf(mode))
         /\ WithinLimit(queue) => WithinLimit(SendFrame(queue, frame))
         /\ Full(queue) => Full(SendFrame(queue, frame))
         /\ Queued(queue, SendFrame(queue, frame), frame.payload)
<1>1. /\ Append(queue, frame) \in Seq(FramesOf(mode))
      /\ Len(queue) \in Nat /\ Len(Append(queue, frame)) = Len(queue) + 1
  BY AppendProperties, LenProperties
<1>2. queue \in Seq(GatewayFrame) /\ frame \in GatewayFrame
  <2>1. FramesOf(mode) \subseteq GatewayFrame
    BY DEF FramesOf, GatewayFrame
  <2>2. QED
    BY <2>1, SeqMonotonic
<1>3. CASE Len(queue) < SendQueueLimit
  BY <1>1, <1>2, <1>3, PayloadsOfAppend, SendQueueAssumption
     DEF SendFrame, Full, WithinLimit, Queued
<1>4. CASE Len(queue) >= SendQueueLimit
  BY <1>1, <1>4, SendQueueAssumption DEF SendFrame, Full, WithinLimit, Queued
<1>5. QED
  BY <1>1, <1>3, <1>4, SendQueueAssumption

(* The queue of a client that has not chosen a format yet is empty.         *)
LEMMA NothingBeforeTheFormat ==
  ASSUME NEW queue \in Seq(FramesOf("UNKNOWN"))
  PROVE  queue = <<>>
<1>1. FramesOf("UNKNOWN") = {}
  BY DEF FramesOf
<1>2. ASSUME queue # <<>> PROVE FALSE
  <2>1. 1 \in 1..Len(queue)
    BY <1>2, EmptySeq
  <2>2. queue[1] \in FramesOf("UNKNOWN")
    BY <2>1, ElementOfSeq
  <2>3. QED
    BY <1>1, <2>2
<1>3. QED
  BY <1>2

LEMMA Framing ==
  ASSUME NEW mode \in {"ESCAPING", "LENGTH"}, NEW id \in FrameId, NEW payload \in Payload
  PROVE  /\ Frame(mode, id, payload) \in FramesOf(mode)
         /\ Frame(mode, id, payload).payload = payload
BY DEF Frame, FramesOf

(* Send puts the payload into a frame of the format the client has chosen.  *)
LEMMA SendingAPayload ==
  ASSUME NEW mode \in FramingMode, NEW queue \in Seq(FramesOf(mode)), NEW payload \in Payload
  PROVE  /\ Sent(mode, queue, payload) \in Seq(FramesOf(mode))
         /\ WithinLimit(queue) => WithinLimit(Sent(mode, queue, payload))
         /\ Full(queue) => Full(Sent(mode, queue, payload))
         /\ mode = "UNKNOWN" => Sent(mode, queue, payload) = queue
         /\ mode # "UNKNOWN" => Queued(queue, Sent(mode, queue, payload), payload)
<1>1. CASE mode = "UNKNOWN"
  BY <1>1 DEF Sent
<1>2. CASE mode # "UNKNOWN"
  <2>1. mode \in {"ESCAPING", "LENGTH"}
    BY <1>2 DEF FramingMode
  <2>2. /\ Encapsulated(mode, payload) \in FramesOf(mode)
        /\ Encapsulated(mode, payload).payload = payload
    <3>1. Encapsulated(mode, payload) \in {Frame(mode, "0302", payload), Frame(mode, "data", payload)}
      BY <2>1 DEF Encapsulated
    <3>2. "0302" \in FrameId /\ "data" \in FrameId
      BY DEF FrameId
    <3>3. QED
      BY <2>1, <3>1, <3>2, Framing
  <2>3. Sent(mode, queue, payload) = SendFrame(queue, Encapsulated(mode, payload))
    BY <1>2 DEF Sent
  <2>4. QED
    BY <1>2, <2>1, <2>2, <2>3, Sending
<1>3. QED
  BY <1>1, <1>2

(* The response to a command has its format; the first frame selects it.    *)
LEMMA Responding ==
  ASSUME NEW mode \in FramingMode, NEW queue \in Seq(FramesOf(mode)),
         NEW frame \in ClientFrames, Accepts(mode, frame)
  PROVE  /\ frame.framing \in {"ESCAPING", "LENGTH"}
         /\ mode \in {"UNKNOWN", frame.framing}
         /\ queue \in Seq(FramesOf(frame.framing))
         /\ Acknowledged(queue, frame) \in Seq(FramesOf(frame.framing))
         /\ WithinLimit(queue) => WithinLimit(Acknowledged(queue, frame))
         /\ Full(queue) => Full(Acknowledged(queue, frame))
         /\ frame.framing = "LENGTH" => Acknowledged(queue, frame) = queue
         /\ frame.framing = "ESCAPING" => Queued(queue, Acknowledged(queue, frame), NoPayload)
<1>1. /\ frame.framing \in {"ESCAPING", "LENGTH"}
      /\ mode \in {"UNKNOWN", frame.framing}
      /\ frame.framing = "ESCAPING" => frame.id \in RequestId
  BY FrameAssumption DEF Accepts, ModeFits, IdFits
<1>2. queue \in Seq(FramesOf(frame.framing))
  BY <1>1, NothingBeforeTheFormat, EmptySeq
<1>3. CASE frame.framing = "LENGTH"
  BY <1>1, <1>2, <1>3 DEF Acknowledged
<1>4. CASE frame.framing = "ESCAPING"
  <2>1. ResponseId[frame.id] \in FrameId
    <3>1. frame.id \in {"0100", "0110", "0300"}
      BY <1>1, <1>4 DEF RequestId
    <3>2. QED
      BY <3>1 DEF ResponseId, RequestId, FrameId
  <2>2. /\ Frame("ESCAPING", ResponseId[frame.id], NoPayload) \in FramesOf("ESCAPING")
        /\ Frame("ESCAPING", ResponseId[frame.id], NoPayload).payload = NoPayload
    BY <2>1, Framing DEF Payload
  <2>3. Acknowledged(queue, frame)
          = SendFrame(queue, Frame("ESCAPING", ResponseId[frame.id], NoPayload))
    BY <1>4 DEF Acknowledged
  <2>4. queue \in Seq(FramesOf("ESCAPING"))
    BY <1>2, <1>4
  <2>5. QED
    BY <1>1, <1>2, <1>4, <2>2, <2>3, <2>4, Sending
<1>5. QED
  BY <1>1, <1>2, <1>3, <1>4

-------------------------------------------------------------------------------
(* The messages the services make are messages.                             *)
LEMMA AddressBytes ==
  ASSUME NEW a \in SSA
  PROVE  a \div \h100 \in Byte /\ a % \h100 \in Byte
<1>1. NonWsnAddr = 65535 /\ Byte = 0..255
  BY DEF NonWsnAddr, Byte
<1>2. a \in Nat /\ a <= 65535
  BY <1>1 DEF SSA
<1>3. a \div 256 \in 0..255 /\ a % 256 \in 0..255
  BY <1>2, SMT
<1>4. QED
  BY <1>1, <1>3

LEMMA FieldValues ==
  /\ \hAE \in ServiceId /\ \hAF \in ServiceId /\ \hB0 \in ServiceId /\ 0 \in ServiceId
  /\ \h20 \in Token /\ \h11 \in Token /\ \h21 \in Token /\ 0 \in Token
  /\ MulticastGateway \in SSA /\ MulticastDirectChildren \in SSA
  /\ NodeSSA \in SSA /\ 0 \in SSA /\ 0 \in Byte
BY SMT DEF ServiceId, Token, Byte, SSA, MulticastGateway, MulticastDirectChildren, NonWsnAddr,
   NodeSSA

LEMMA IsAMessage ==
  ASSUME NEW srcServiceId \in ServiceId, NEW dstServiceId \in ServiceId, NEW token \in Token,
         NEW srcSSA \in SSA, NEW dstSSA \in SSA, NEW payload \in Seq(Byte)
  PROVE  SnetServiceMessage(srcServiceId, dstServiceId, token, srcSSA, dstSSA, payload) \in Message
BY DEF SnetServiceMessage, Message

LEMMA FieldsOfAMessage ==
  ASSUME NEW srcServiceId, NEW dstServiceId, NEW token, NEW srcSSA, NEW dstSSA, NEW payload
  PROVE  LET message == SnetServiceMessage(srcServiceId, dstServiceId, token, srcSSA, dstSSA, payload)
         IN  /\ message.srcServiceId = srcServiceId
             /\ message.token = token
             /\ message.srcSSA = srcSSA
             /\ message.payload = payload
BY DEF SnetServiceMessage

LEMMA MessagesAreSomething ==
  ASSUME NEW message \in Message
  PROVE  message # NoPayload
<1>1. DOMAIN message = {"srcServiceId", "dstServiceId", "token", "srcSSA", "dstSSA", "payload"}
  BY DEF Message
<1>2. DOMAIN NoPayload = {}
  BY DEF NoPayload
<1>3. QED
  BY <1>1, <1>2

LEMMA FirstByte ==
  ASSUME NEW message \in Message, Len(message.payload) = 1
  PROVE  message.payload[1] \in Byte
<1>1. message.payload \in Seq(Byte)
  BY DEF Message
<1>2. QED
  BY <1>1, ElementOfSeq, 1 \in 1..1

(* The two kinds of replies, put together.                                  *)
LEMMA AddressReply ==
  ASSUME NEW a \in SSA
  PROVE  /\ Addresses!AddressAssignmentReply(a) =
              SnetServiceMessage(\hAE, \hAF, \h20, MulticastGateway, MulticastDirectChildren,
                                 <<0, a \div \h100, a % \h100>>)
         /\ Addresses!AddressAssignmentReply(a) \in Message
<1>1. <<0, a \div \h100, a % \h100>> \in Seq(Byte)
  BY AddressBytes, FieldValues
<1>2. Addresses!AddressAssignmentReply(a) =
        SnetServiceMessage(\hAE, \hAF, \h20, MulticastGateway, MulticastDirectChildren,
                           <<0, a \div \h100, a % \h100>>)
  BY SMT DEF Addresses!AddressAssignmentReply, Addresses!SnetServiceMessage, SnetServiceMessage,
     Addresses!MulticastGateway, MulticastGateway,
     Addresses!MulticastDirectChildren, MulticastDirectChildren
<1>3. \A bytes \in Seq(Byte) :
        SnetServiceMessage(\hAE, \hAF, \h20, MulticastGateway, MulticastDirectChildren, bytes)
          \in Message
  BY FieldValues, IsAMessage
<1>4. QED
  BY <1>1, <1>2, <1>3

LEMMA ConfirmationReply ==
  ASSUME NEW message \in Message, Len(message.payload) = 1, NEW a \in SSA, NEW token \in Token
  PROVE  /\ PubSub!Confirmation(token, message, a) =
              SnetServiceMessage(\hB0, \hB0, token, MulticastGateway, a, <<message.payload[1], 0>>)
         /\ PubSub!Confirmation(token, message, a) \in Message
<1>1. <<message.payload[1], 0>> \in Seq(Byte)
  BY FirstByte, FieldValues
<1>2. PubSub!Confirmation(token, message, a) =
        SnetServiceMessage(\hB0, \hB0, token, MulticastGateway, a, <<message.payload[1], 0>>)
  BY SMT DEF PubSub!Confirmation, PubSub!SnetServiceMessage, SnetServiceMessage,
     PubSub!MulticastGateway, MulticastGateway
<1>3. \A bytes \in Seq(Byte) :
        SnetServiceMessage(\hB0, \hB0, token, MulticastGateway, a, bytes) \in Message
  BY FieldValues, IsAMessage
<1>4. QED
  BY <1>1, <1>2, <1>3

LEMMA SubscriptionsAreServices ==
  ASSUME NEW message \in Message, NEW S \in SUBSET ServiceId
  PROVE  PubSub!Resubscribed(S, message) \in SUBSET ServiceId
<1>1. ASSUME Len(message.payload) = 1
      PROVE  PubSub!Denoted(message.payload[1]) \subseteq ServiceId
  <2>1. PubSub!ServiceId = ServiceId /\ ServiceId = Byte
    BY DEF PubSub!ServiceId, PubSub!Byte, ServiceId, Byte
  <2>2. QED
    BY <1>1, <2>1, FirstByte DEF PubSub!Denoted
<1>2. QED
  BY <1>1 DEF PubSub!Resubscribed, PubSub!IsRequest

(* The two services reply with one of these messages, or not at all; then   *)
(* the identifier of what they return is 0.                                 *)
LEMMA AddressServiceReplies ==
  ASSUME NEW message, NEW a \in SSA,
         Addresses!ProcessRequest(message, a).srcServiceId = \hAE
  PROVE  Addresses!ProcessRequest(message, a) = Addresses!AddressAssignmentReply(a)
<1>1. Addresses!EmptyMessage.srcServiceId # \hAE
  BY SMT DEF Addresses!EmptyMessage, Addresses!SnetServiceMessage
<1>2. QED
  BY <1>1 DEF Addresses!ProcessRequest

LEMMA PubSubReplies ==
  ASSUME NEW message \in Message, NEW a \in SSA
  PROVE  /\ PubSub!Reply(message, a).srcServiceId = \hB0 =>
              \/ /\ PubSub!IsRequest(message, PubSub!SubscribeRequest)
                 /\ PubSub!Reply(message, a) = PubSub!Confirmation(\h11, message, a)
              \/ /\ PubSub!IsRequest(message, PubSub!UnsubscribeRequest)
                 /\ ~PubSub!IsRequest(message, PubSub!SubscribeRequest)
                 /\ PubSub!Reply(message, a) = PubSub!Confirmation(\h21, message, a)
         /\ PubSub!Reply(message, a).srcServiceId # \hB0 =>
              /\ ~PubSub!IsRequest(message, PubSub!SubscribeRequest)
              /\ ~PubSub!IsRequest(message, PubSub!UnsubscribeRequest)
<1>1. PubSub!EmptyMessage.srcServiceId # \hB0
  BY SMT DEF PubSub!EmptyMessage, PubSub!SnetServiceMessage
<1>2. ASSUME NEW token PROVE PubSub!Confirmation(token, message, a).srcServiceId = \hB0
  BY DEF PubSub!Confirmation, PubSub!SnetServiceMessage
<1>3. CASE PubSub!IsRequest(message, PubSub!SubscribeRequest)
  <2>1. PubSub!Reply(message, a) = PubSub!Confirmation(\h11, message, a)
    BY <1>3 DEF PubSub!Reply, PubSub!SubscribeReply
  <2>2. QED
    BY <1>2, <1>3, <2>1
<1>4. CASE /\ ~PubSub!IsRequest(message, PubSub!SubscribeRequest)
           /\ PubSub!IsRequest(message, PubSub!UnsubscribeRequest)
  <2>1. PubSub!Reply(message, a) = PubSub!Confirmation(\h21, message, a)
    BY <1>4 DEF PubSub!Reply, PubSub!UnsubscribeReply
  <2>2. QED
    BY <1>2, <1>4, <2>1
<1>5. CASE /\ ~PubSub!IsRequest(message, PubSub!SubscribeRequest)
           /\ ~PubSub!IsRequest(message, PubSub!UnsubscribeRequest)
  <2>1. PubSub!Reply(message, a) = PubSub!EmptyMessage
    BY <1>5 DEF PubSub!Reply
  <2>2. QED
    BY <1>1, <1>5, <2>1
<1>6. QED
  BY <1>3, <1>4, <1>5

-------------------------------------------------------------------------------
(* The inductive invariant: every queue holds frames of the chosen format,  *)
(* a full one has been noticed, a handler that is not listed has chosen     *)
(* nothing, and what is under way in the network are messages.              *)
QueueInv ==
  /\ m_eFramingMode \in [Conn -> FramingMode]
  /\ m_SubscribedServiceIds \in [Conn -> SUBSET ServiceId]
  /\ congested \in [Conn -> BOOLEAN]
  /\ sendQueue = [c \in Conn |-> sendQueue[c]]
  /\ \A c \in Conn :
       /\ sendQueue[c] \in Seq(FramesOf(m_eFramingMode[c]))
       /\ WithinLimit(sendQueue[c])
       /\ Full(sendQueue[c]) => congested[c]
       /\ c \notin m_GatewayAccessServerHandlerList => m_eFramingMode[c] = "UNKNOWN"
  /\ \A r \in requests : r.message \in Message

(* A table of queues that fits the modes.                                   *)
FitsModes(queue, mode) ==
  /\ queue = [c \in Conn |-> queue[c]]
  /\ \A c \in Conn : queue[c] \in Seq(FramesOf(mode[c])) /\ WithinLimit(queue[c])

LEMMA DeliveredFits ==
  ASSUME NEW mode \in [Conn -> FramingMode], NEW queue, FitsModes(queue, mode), NEW message \in Message
  PROVE  /\ FitsModes(Delivered(queue, mode, message), mode)
         /\ \A c \in Conn : Full(queue[c]) => Full(Delivered(queue, mode, message)[c])
<1>1. ASSUME NEW c \in Conn
      PROVE  /\ Sent(mode[c], queue[c], message) \in Seq(FramesOf(mode[c]))
             /\ WithinLimit(queue[c]) => WithinLimit(Sent(mode[c], queue[c], message))
             /\ Full(queue[c]) => Full(Sent(mode[c], queue[c], message))
  BY SendingAPayload DEF FitsModes, Payload
<1>2. QED
  BY <1>1 DEF Delivered, FitsModes

(* Transmit keeps the books.                                                *)
LEMMA TransmitKeepsQueueInv ==
  ASSUME QueueInv, NEW queue, FitsModes(queue, m_eFramingMode'), Transmit(queue),
         m_eFramingMode' \in [Conn -> FramingMode],
         m_SubscribedServiceIds' \in [Conn -> SUBSET ServiceId],
         \A c \in Conn : c \notin m_GatewayAccessServerHandlerList'
                           => m_eFramingMode'[c] = "UNKNOWN",
         \A r \in requests' : r.message \in Message
  PROVE  QueueInv'
<1>1. /\ congested' = [c \in Conn |-> congested[c] \/ Full(queue[c])]
      /\ sendQueue' = queue
  BY DEF Transmit, Full
<1>2. congested' \in [Conn -> BOOLEAN]
  BY <1>1 DEF QueueInv
<1>3. QED
  BY <1>1, <1>2 DEF QueueInv, FitsModes

(* What a frame from a client does before its payload is looked at.         *)
LEMMA AFrameArrives ==
  ASSUME QueueInv, LeaseInv, NEW c \in Conn, NEW frame \in ClientFrames, FrameArrives(c, frame)
  PROVE  /\ m_eFramingMode' \in [Conn -> FramingMode]
         /\ m_eFramingMode' = [m_eFramingMode EXCEPT ![c] = frame.framing]
         /\ m_eFramingMode[c] \in {"UNKNOWN", frame.framing}
         /\ frame.framing \in {"ESCAPING", "LENGTH"}
         /\ FitsModes(sendQueue, m_eFramingMode')
         /\ FitsModes(Acknowledge(c, frame), m_eFramingMode')
         /\ \A d \in Conn : d \notin m_GatewayAccessServerHandlerList'
                             => m_eFramingMode'[d] = "UNKNOWN"
<1>1. /\ m_eFramingMode' = [m_eFramingMode EXCEPT ![c] = frame.framing]
      /\ m_GatewayAccessServerHandlerList' = m_GatewayAccessServerHandlerList
      /\ c \in m_GatewayAccessServerHandlerList
      /\ Accepts(m_eFramingMode[c], frame)
  BY DEF FrameArrives, collectionVars, LeaseInv, HandlersHoldLeases
<1>2. /\ sendQueue[c] \in Seq(FramesOf(m_eFramingMode[c])) /\ WithinLimit(sendQueue[c])
      /\ m_eFramingMode[c] \in FramingMode
  BY DEF QueueInv
<1>3. /\ frame.framing \in {"ESCAPING", "LENGTH"}
      /\ m_eFramingMode[c] \in {"UNKNOWN", frame.framing}
      /\ sendQueue[c] \in Seq(FramesOf(frame.framing))
      /\ Acknowledged(sendQueue[c], frame) \in Seq(FramesOf(frame.framing))
      /\ WithinLimit(Acknowledged(sendQueue[c], frame))
  BY <1>1, <1>2, Responding
<1>4. m_eFramingMode' \in [Conn -> FramingMode]
  BY <1>1, <1>3 DEF QueueInv, FramingMode
<1>5. /\ m_eFramingMode'[c] = frame.framing
      /\ \A d \in Conn \ {c} : m_eFramingMode'[d] = m_eFramingMode[d]
  BY <1>1 DEF QueueInv
<1>6. FitsModes(sendQueue, m_eFramingMode')
  BY <1>3, <1>5 DEF QueueInv, FitsModes
<1>7. /\ Acknowledge(c, frame) = [d \in Conn |-> Acknowledge(c, frame)[d]]
      /\ Acknowledge(c, frame)[c] = Acknowledged(sendQueue[c], frame)
      /\ \A d \in Conn \ {c} : Acknowledge(c, frame)[d] = sendQueue[d]
  BY DEF Acknowledge, QueueInv
<1>8. FitsModes(Acknowledge(c, frame), m_eFramingMode')
  BY <1>3, <1>5, <1>6, <1>7 DEF FitsModes
<1>9. QED
  BY <1>1, <1>3, <1>4, <1>5, <1>6, <1>8 DEF QueueInv

LEMMA AnswerFits ==
  ASSUME NEW c \in Conn, NEW frame, NEW mode \in [Conn -> FramingMode], mode[c] = frame.framing,
         FitsModes(Acknowledge(c, frame), mode), NEW reply \in Message
  PROVE  /\ FitsModes(Answer(c, frame, reply), mode)
         /\ Answer(c, frame, reply) =
              [Acknowledge(c, frame) EXCEPT ![c] =
                 Sent(frame.framing, Acknowledge(c, frame)[c], reply)]
<1>1. /\ Sent(mode[c], Acknowledge(c, frame)[c], reply) \in Seq(FramesOf(mode[c]))
      /\ WithinLimit(Sent(mode[c], Acknowledge(c, frame)[c], reply))
  BY SendingAPayload DEF FitsModes, Payload
<1>2. Answer(c, frame, reply) =
        [Acknowledge(c, frame) EXCEPT ![c] = Sent(frame.framing, Acknowledge(c, frame)[c], reply)]
  BY DEF Answer
<1>3. QED
  BY <1>1, <1>2 DEF FitsModes

LEMMA ConnectedHaveAddresses ==
  ASSUME LeaseInv, NEW c \in Conn, m_Registered[c]
  PROVE  m_AddressLease[c] \in SSA /\ m_AddressLease[c] # NoLease
BY DEF LeaseInv, HandlersHoldLeases

LEMMA MasqueradedIsAMessage ==
  ASSUME LeaseInv, NEW c \in Conn, m_Registered[c], NEW message \in Message
  PROVE  /\ Masqueraded(c, message) \in Message
         /\ Masqueraded(c, message).srcSSA \in {WiredAddr, m_AddressLease[c]}
<1>1. m_AddressLease[c] \in SSA
  BY ConnectedHaveAddresses
<1>2. QED
  BY <1>1 DEF Masqueraded, Message

(* A packet that goes through the routing entity.                           *)
LEMMA RoutingFits ==
  ASSUME QueueInv, NEW component, NEW origin, NEW message \in Message, NEW queue,
         m_eFramingMode' \in [Conn -> FramingMode], FitsModes(queue, m_eFramingMode'),
         RouteSnetPacket(component, origin, message, queue, m_eFramingMode')
  PROVE  /\ \E sent : FitsModes(sent, m_eFramingMode') /\ Transmit(sent)
         /\ \A r \in requests' : r.message \in Message
<1>1. FitsModes(Delivered(queue, m_eFramingMode', message), m_eFramingMode')
  BY DeliveredFits
<1>2. \A r \in requests' : r \in requests \/ r = [origin |-> origin, message |-> message]
  BY DEF RouteSnetPacket
<1>3. QED
  BY <1>1, <1>2 DEF RouteSnetPacket, QueueInv

LEMMA ReplyIsAMessage ==
  ASSUME NEW message \in Message
  PROVE  ReplyTo(message) \in Message
<1>1. /\ message.srcServiceId \in ServiceId /\ message.dstServiceId \in ServiceId
      /\ message.token \in Token /\ message.srcSSA \in SSA
  BY DEF Message
<1>2. QED
  BY <1>1, FieldValues, IsAMessage, EmptySeq DEF ReplyTo

LEMMA FrameKeepsQueueInv ==
  ASSUME QueueInv, LeaseInv, NEW c \in Conn, NEW frame \in ClientFrames, FrameArrives(c, frame),
         OnFrame(c, frame)
  PROVE  QueueInv'
<1>1. /\ m_Registered[c] /\ m_AddressLease[c] \in SSA
      /\ m_eFramingMode'[c] = frame.framing
  BY AFrameArrives, ConnectedHaveAddresses DEF FrameArrives, QueueInv
<1>2. ASSUME NEW sent, FitsModes(sent, m_eFramingMode'), Transmit(sent),
             m_SubscribedServiceIds' \in [Conn -> SUBSET ServiceId],
             \A r \in requests' : r.message \in Message
      PROVE  QueueInv'
  BY <1>2, AFrameArrives, TransmitKeepsQueueInv
<1>3. /\ m_SubscribedServiceIds \in [Conn -> SUBSET ServiceId]
      /\ \A r \in requests : r.message \in Message
  BY DEF QueueInv
<1>4. CASE OnFrameWithoutMessage(c, frame)
  BY <1>2, <1>3, <1>4, AFrameArrives DEF OnFrameWithoutMessage
<1>5. ASSUME NEW reply \in Message PROVE FitsModes(Answer(c, frame, reply), m_eFramingMode')
  BY <1>1, AFrameArrives, AnswerFits
<1>6. CASE OnPayloadForAddressService(c, frame)
  <2>1. PICK reply : /\ reply = Addresses!ProcessRequest(frame.payload, m_AddressLease[c])
                     /\ Transmit(IF reply.srcServiceId = \hAE THEN Answer(c, frame, reply)
                                 ELSE Acknowledge(c, frame))
    BY <1>6 DEF OnPayloadForAddressService
  <2>2. reply.srcServiceId = \hAE => reply \in Message
    <3>1. ASSUME reply.srcServiceId = \hAE
          PROVE  reply = Addresses!AddressAssignmentReply(m_AddressLease[c])
      BY <1>1, <2>1, <3>1, AddressServiceReplies
    <3>2. QED
      BY <1>1, <3>1, AddressReply
  <2>3. \E sent : FitsModes(sent, m_eFramingMode') /\ Transmit(sent)
    BY <1>5, <2>1, <2>2, AFrameArrives
  <2>4. QED
    BY <1>2, <1>3, <1>6, <2>3 DEF OnPayloadForAddressService
<1>7. ASSUME frame.payload # NoPayload PROVE frame.payload \in Message
  BY <1>7, FrameAssumption
<1>8. CASE OnPayloadForPublishSubscribe(c, frame)
  <2>1. PICK reply : /\ reply = PubSub!Reply(frame.payload, m_AddressLease[c])
                     /\ Transmit(IF reply.srcServiceId = \hB0 THEN Answer(c, frame, reply)
                                 ELSE Acknowledge(c, frame))
    BY <1>8 DEF OnPayloadForPublishSubscribe
  <2>2. frame.payload \in Message
    BY <1>7, <1>8 DEF OnPayloadForPublishSubscribe, MessageArrives
  <2>3. reply.srcServiceId = \hB0 => reply \in Message
    <3>1. ASSUME NEW token, PubSub!IsRequest(frame.payload, token) PROVE Len(frame.payload.payload) = 1
      BY <3>1 DEF PubSub!IsRequest
    <3>2. ASSUME reply.srcServiceId = \hB0
          PROVE  /\ Len(frame.payload.payload) = 1
                 /\ \E token \in {\h11, \h21} :
                      reply = PubSub!Confirmation(token, frame.payload, m_AddressLease[c])
      BY <1>1, <2>1, <2>2, <3>1, <3>2, PubSubReplies
    <3>3. ASSUME NEW token \in Token, Len(frame.payload.payload) = 1
          PROVE  PubSub!Confirmation(token, frame.payload, m_AddressLease[c]) \in Message
      BY <1>1, <2>2, <3>3, ConfirmationReply
    <3>4. \h11 \in Token /\ \h21 \in Token
      BY FieldValues
    <3>5. QED
      BY <3>2, <3>3, <3>4
  <2>4. \E sent : FitsModes(sent, m_eFramingMode') /\ Transmit(sent)
    BY <1>5, <2>1, <2>3, AFrameArrives
  <2>5. m_SubscribedServiceIds' \in [Conn -> SUBSET ServiceId]
    <3>1. PubSub!Resubscribed(m_SubscribedServiceIds[c], frame.payload) \in SUBSET ServiceId
      BY <1>3, <2>2, SubscriptionsAreServices
    <3>2. QED
      BY <1>3, <1>8, <3>1 DEF OnPayloadForPublishSubscribe
  <2>6. QED
    BY <1>2, <1>3, <1>8, <2>4, <2>5 DEF OnPayloadForPublishSubscribe
<1>9. CASE OnPayloadForRouting(c, frame)
  <2>1. Masqueraded(c, frame.payload) \in Message
    BY <1>1, <1>7, <1>9, MasqueradedIsAMessage DEF OnPayloadForRouting, MessageArrives
  <2>2. /\ \E sent : FitsModes(sent, m_eFramingMode') /\ Transmit(sent)
        /\ \A r \in requests' : r.message \in Message
    BY <1>9, <2>1, AFrameArrives, RoutingFits DEF OnPayloadForRouting
  <2>3. QED
    BY <1>2, <1>3, <1>9, <2>2 DEF OnPayloadForRouting
<1>10. ~OnProtocolViolation(c, frame)
  BY DEF OnProtocolViolation, FrameArrives
<1>11. QED
  BY <1>4, <1>6, <1>8, <1>9, <1>10 DEF OnFrame

LEMMA CloseKeepsQueueInv ==
  ASSUME QueueInv, ReturnInv, NEW c \in Conn, Close(c)
  PROVE  QueueInv'
<1>1. /\ m_eFramingMode' = [m_eFramingMode EXCEPT ![c] = "UNKNOWN"]
      /\ sendQueue' = [sendQueue EXCEPT ![c] = <<>>]
      /\ congested' = [congested EXCEPT ![c] = FALSE]
      /\ m_SubscribedServiceIds' = [m_SubscribedServiceIds EXCEPT ![c] = {}]
      /\ m_GatewayAccessServerHandlerList' = m_GatewayAccessServerHandlerList \ {c}
  BY DEF Close, Destroy
<1>2. <<>> \in Seq(FramesOf("UNKNOWN")) /\ ~Full(<<>>) /\ WithinLimit(<<>>)
  BY EmptySeq, SendQueueAssumption DEF Full, WithinLimit
<1>3. \A r \in requests' : r.message \in Message
  <2> DEFINE now(r) == IF r.origin = c THEN [r EXCEPT !.origin = Gone] ELSE r
  <2>1. ASSUME NEW r \in requests PROVE now(r).message \in Message
    <3>1. r = [origin |-> r.origin, message |-> r.message] /\ r.message \in Message
      BY DEF ReturnInv, QueueInv
    <3>2. [r EXCEPT !.origin = Gone].message = r.message
      BY <3>1
    <3>3. QED
      BY <3>1, <3>2
  <2>2. requests' = {now(r) : r \in requests}
    BY DEF Close
  <2>3. QED
    BY <2>1, <2>2
<1>4. /\ m_eFramingMode' \in [Conn -> FramingMode]
      /\ m_SubscribedServiceIds' \in [Conn -> SUBSET ServiceId]
      /\ congested' \in [Conn -> BOOLEAN]
  BY <1>1 DEF QueueInv, FramingMode
<1>5. QED
  BY <1>1, <1>2, <1>3, <1>4 DEF QueueInv

LEMMA NextQueueInv ==
  ASSUME LeaseInv, ReturnInv, QueueInv, [Next]_vars
  PROVE  QueueInv'
<1>1. ASSUME NEW c \in Conn, Accept(c) PROVE QueueInv'
  BY <1>1 DEF Accept, QueueInv, handlerVars, deliveryVars
<1>2. ASSUME NEW c \in Conn, OnClosed(c) PROVE QueueInv'
  BY <1>2, CloseKeepsQueueInv DEF OnClosed
<1>3. ASSUME NEW c \in Conn, ClientReceives(c) PROVE QueueInv'
  <2>1. /\ Tail(sendQueue[c]) \in Seq(FramesOf(m_eFramingMode[c]))
        /\ WithinLimit(Tail(sendQueue[c]))
        /\ Full(Tail(sendQueue[c])) => Full(sendQueue[c])
    <3>1. /\ sendQueue[c] \in Seq(FramesOf(m_eFramingMode[c])) /\ sendQueue[c] # <<>>
          /\ WithinLimit(sendQueue[c])
      BY <1>3 DEF ClientReceives, QueueInv
    <3>2. /\ Tail(sendQueue[c]) \in Seq(FramesOf(m_eFramingMode[c]))
          /\ Len(Tail(sendQueue[c])) = Len(sendQueue[c]) - 1
      BY <3>1, HeadTailProperties
    <3>3. Len(sendQueue[c]) \in Nat
      BY <3>1, LenProperties
    <3>4. QED
      BY <3>1, <3>2, <3>3, SendQueueAssumption DEF Full, WithinLimit
  <2>2. sendQueue' = [sendQueue EXCEPT ![c] = Tail(sendQueue[c])]
    BY <1>3 DEF ClientReceives
  <2>3. QED
    BY <1>3, <2>1, <2>2 DEF ClientReceives, QueueInv, collectionVars, handlerVars
<1>4. ASSUME NEW c \in Conn, NEW frame \in ClientFrames, OnFrame(c, frame) PROVE QueueInv'
  <2>1. CASE OnProtocolViolation(c, frame)
    BY <2>1, CloseKeepsQueueInv DEF OnProtocolViolation
  <2>2. CASE FrameArrives(c, frame)
    BY <1>4, <2>2, FrameKeepsQueueInv
  <2>3. QED
    BY <1>4, <2>1, <2>2 DEF OnFrame, OnFrameWithoutMessage, OnPayloadForAddressService,
       OnPayloadForPublishSubscribe, OnPayloadForRouting, MessageArrives
<1>5. ASSUME NEW message \in Message, OnSnetPacket(message) PROVE QueueInv'
  <2>1. /\ m_eFramingMode' = m_eFramingMode
        /\ m_SubscribedServiceIds' = m_SubscribedServiceIds
        /\ m_GatewayAccessServerHandlerList' = m_GatewayAccessServerHandlerList
        /\ RouteSnetPacket("HDLCD", Network, message, sendQueue, m_eFramingMode')
    BY <1>5 DEF OnSnetPacket, collectionVars, handlerVars
  <2>2. FitsModes(sendQueue, m_eFramingMode') /\ m_eFramingMode' \in [Conn -> FramingMode]
    BY <2>1 DEF FitsModes, QueueInv
  <2>3. /\ \E sent : FitsModes(sent, m_eFramingMode') /\ Transmit(sent)
        /\ \A r \in requests' : r.message \in Message
    BY <2>1, <2>2, RoutingFits
  <2>4. QED
    BY <2>1, <2>2, <2>3, TransmitKeepsQueueInv DEF QueueInv
<1>6. CASE NodeReplies
  <2>1. PICK r \in requests : OnSnetPacket(ReplyTo(r.message))
    BY <1>6 DEF NodeReplies
  <2>2. ReplyTo(r.message) \in Message
    BY ReplyIsAMessage DEF QueueInv
  <2>3. QED
    BY <1>5, <2>1, <2>2
<1>7. CASE NodeSends
  BY <1>5, <1>7, NodeAssumption DEF NodeSends
<1>8. CASE ShutdownClosesOne
  BY <1>8, CloseKeepsQueueInv DEF ShutdownClosesOne, LeaseInv
<1>9. CASE Stop \/ ShutdownEnds \/ UNCHANGED vars
  BY <1>9 DEF Stop, ShutdownEnds, QueueInv, vars, collectionVars, handlerVars, deliveryVars
<1>10. QED
  BY <1>1, <1>2, <1>3, <1>4, <1>6, <1>7, <1>8, <1>9 DEF Next, Stopped

LEMMA InitQueueInv == Init => QueueInv
<1>1. <<>> \in Seq(FramesOf("UNKNOWN")) /\ ~Full(<<>>) /\ WithinLimit(<<>>)
  BY EmptySeq, SendQueueAssumption DEF Full, WithinLimit
<1>2. QED
  BY <1>1 DEF Init, QueueInv, FramingMode

(* No frame of the wrong format is ever queued, whoever causes it to be     *)
(* sent: the client's own frames, other clients, or the sensor network.     *)
THEOREM QueuedFramesMatchMode == Spec => []FramesMatchMode
<1>1. ASSUME QueueInv PROVE FramesMatchMode
  <2> SUFFICES ASSUME NEW c \in Conn, NEW i \in DOMAIN sendQueue[c]
               PROVE  sendQueue[c][i].framing = m_eFramingMode[c]
    BY DEF FramesMatchMode
  <2>1. sendQueue[c] \in Seq(FramesOf(m_eFramingMode[c]))
    BY <1>1 DEF QueueInv
  <2>2. sendQueue[c][i] \in FramesOf(m_eFramingMode[c])
    BY <2>1, ElementOfSeq, LenProperties
  <2>3. QED
    BY <2>2 DEF FramesOf
<1>2. LeaseInv /\ ReturnInv /\ QueueInv /\ [Next]_vars => (LeaseInv /\ ReturnInv /\ QueueInv)'
  BY NextLeaseInv, NextReturnInv, NextQueueInv
<1>3. QED
  BY InitLeaseInv, InitReturnInv, InitQueueInv, <1>1, <1>2, PTL DEF Spec
===============================================================================

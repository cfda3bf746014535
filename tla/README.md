# A verification model of the s-net(r) gateway

The gateway connects programs on a TCP/IP network ("gateway clients") with a
wireless sensor network that is reached through HDLC daemons. This directory
holds TLA+ models of its components, TLC configurations that check them on small
instances, and proofs, checked with TLAPS, of what matters most for any number
of clients. All of it is translated from the C++ sources below `src/`.

## 1. The system

One thread runs a boost::asio event loop; every callback runs to its end before
the next one starts. There are no locks and there is no persistent state. What
makes the gateway hard is the order of callbacks, callbacks made from within
callbacks, and state that outlives the callback that looked at it.

| Component | State | Operations | Talks to | Correct if |
|---|---|---|---|---|
| Address pool and leases (`AddressPool`, `AddressLease`) | next free 16-bit address, queue of reclaimed addresses, one lease per client | obtain (on accept), release (destructor of the lease) | handlers | addresses in use are distinct, none is lost or queued twice, the counter stays in the client range |
| Address service (`AddressService`) | none | answer an address query | handler | a client always learns its own address |
| Publish/subscribe service | 256 subscription bits per client | subscribe, unsubscribe, test | handler | the client knows its subscriptions from the confirmations |
| Protocol entity (`GatewayAccessProtocol`) | framing mode | OnFrame, Send, Close | frame endpoint (below), handler (above, by callback) | one format per connection, one response per command, in order |
| Frame formats (`GatewayAccessFrame*`) | deserializer state and buffer | serialize, deserialize | frame endpoint | both formats share a byte stream without loss or confusion, sizes fit |
| Client handler (`GatewayAccessServerHandler`) | registered flag, lease | Start, Close, Send (filter), OnPayload (dispatch, masquerade) | services, protocol entity, routing, collection | replies return to their client only; no use of a lease that is gone |
| Handler collection | list of handlers | accept, register, deregister, Send to all, SystemShutdown | handlers, pool, routing | list, flag and lease agree; the closing loop ends |
| Routing | none | RouteSnetPacket | both collections | the address ranges fit the filters of the handlers |
| HDLCd client handlers | resolver, retry timer, client object | resolve, connect, retry, Send, SystemShutdown | HDLCd client, routing | exactly one attempt under way, connections come back |
| Main program | event loop | signal, shutdown sequence | all | a signal ends the process in order |

FrameEndpoint, Frame, HdlcdClient, HdlcdPacketData and SnetServiceMessage come
from two libraries that are not part of the repository. The models contain what
the code uses of them and mark it as external.

Hard behaviours: packets for a client are queued by its own frames, by other
clients and by the sensor network in any order; a full send queue refuses frames
and nobody looks at the result; a reply from the sensor network arrives at any
later time, when its client may be gone and its address reused; an expired timer
cannot be cancelled any more; a signal stops the loop at any point. The complete
list, each entry at its line, is under "hazards" in `PROJECT.json`.

## 2. The modules

    AddressAllocator <--refines-- AddressPool <------ AddressPoolProofs
                                      ^                     ^
                                      | (INSTANCE)          | (INSTANCE)
    SnetServiceMessage <- Routing <-- GatewayAccessServer <- GatewayAccessServerProofs
            ^                          |  |       |               ^
            +- AddressService <--------+  |       |       GatewayAccessServiceProofs
            +- PublishSubscribeService <--+       |refines
    GatewayAccessProtocol <-- GatewayAccessConnection <-- GatewayAccessConnectionProofs
            ^---------------- GatewayAccessServer v
                                            MessageService
    GatewayAccessServerHandlerLifetime <-- GatewayAccessServerHandlerLifetimeProofs
    GatewayAccessFraming <-- GatewayAccessFramingProofs
    HdlcdClientHandler <-- SnetGateway <-- SnetGatewayProofs

`SequenceLemmas` (numbers, sequences, flattening) is used by
`GatewayAccessServiceProofs`, `GatewayAccessConnectionProofs` and
`GatewayAccessFramingProofs`.

* `AddressAllocator`: what the address database promises, whatever its books
  look like: a client holds one address of the client range that nobody else
  holds, until it hands it back.
* `AddressPool`: `AddressPool.cpp` with its leases. `LeaseFresh` and
  `LeaseReclaimed` are the two branches of ObtainAddressLease. The counter wraps
  at `Modulus`, as `uint16_t` does.
* `SnetServiceMessage` (external), `Routing`, `AddressService`,
  `PublishSubscribeService`, `GatewayAccessProtocol`: the stateless code and the
  code that works on one object, as operators on that object.
* `GatewayAccessConnection`: one TCP connection: frames on their way to the
  gateway, OnFrame as one action, the send queue, a higher layer that answers
  from within the data callback or sends unasked.
* `GatewayAccessServer`: everything between the frame endpoints and the HDLC
  daemons for a set of clients. Each callback is one action: `Accept` (DoAccept
  and Start), `OnFrame` (one disjunct per way a frame can take: session
  commands, address service, publish/subscribe service, routing, violation),
  `OnSnetPacket`, `OnClosed`, and the shutdown sequence. The pool is an instance
  of `AddressPool`. A value of `Conn` is a slot for a handler object and is used
  again by later connections. The history variables `view` (what the client
  learns from the frames it reads), `congested` (its queue has been full) and
  the `origin` of a request exist for the properties only.
* `MessageService`: what the server promises its clients, whatever its code
  looks like: an address of one's own for as long as one is connected, packets
  to this address and packets of subscribed services in one's mailbox, in one
  order for all, losses for slow readers only.
* `GatewayAccessServerHandlerLifetime`: the same handlers, call by call. The
  state is the call stack of the one thread (an activation is a point in a method
  of a handler), which handlers exist, and who owns them: the list, the local
  variable of DoAccept, `self` in Close. Each action is what happens up to the
  next call or return. It justifies that `GatewayAccessServer` takes a callback
  for one action (`Quiescent`), and makes explicit what the code expects of the
  external frame endpoint: SendFrame and Close must not call back before they
  return (`ReportsAssumption`); Start may.
* `GatewayAccessFraming`: the two formats on a byte stream, byte by byte.
* `HdlcdClientHandler`: resolving, connecting and the retry timer. A timer that
  has expired but whose handler has not run is `expired`: setting the timer again
  cancels a wait but not that.
* `SnetGateway`: main, from the command line to the return, as a graph of objects
  that hold shared pointers to each other, with the HDLCd handlers at work in the
  event loop. Reference counting is one operator (`Survivors`): what main or a
  survivor holds survives. The cycles (routing entity and collections, handlers
  and collection) must be broken by the three SystemShutdowns. A single
  forgotten reset may go unnoticed, since both ends of the cycle with the routing
  entity are reset; what the property catches is a cycle that remains.

Operators marked "Mutant" in their comment are plausible bugs of the definition
that follows. Each property of a passing run has one that it catches
("mutants" in `PROJECT.json`).

Abstractions: payloads are byte sequences only where a service reads them;
UUIDs, OnAirARQ, tracing, output, constant response bytes and send-done callbacks (which
nobody supplies) are left out. Escaped frames of less than two bytes, whose
identifier the code reads past the end of the payload, count as frames with an
unknown identifier: what is left of the delimiters in the buffer makes it one.

## 3. The runs

| Run (cfg) | Question | Bounds and why they are enough |
|---|---|---|
| pool (`MCAddressPool`) | distinct, conserved, bounded addresses; refinement of the allocator | 4 clients, 4 client addresses: the counter reaches its limit and every order of reuse occurs |
| pool_exhausted (`MCAddressPoolExhausted`) | **violated**: assigned addresses are above the gateway's | 6 clients: the counter wraps |
| connection (`MCGatewayAccessConnection`) | format, order of responses, end on mixed formats, every owed frame arrives | 3 frames of 7 kinds, 2 unsolicited packets; queue limit 8 is the most that can be sent, so nothing is refused |
| connection_congested (`MCGatewayAccessCongestion`) | **violated**: every command is answered | queue limit 2 |
| subscriptions (`MCSubscriptions`) | deliveries follow confirmed subscriptions; list, flag and lease agree; format | 2 clients, 4 subscription frames in both formats (one mixed in makes a violation), a packet from a node; queue limit 3, so queues fill up as well |
| service (`MCService`) | replies return to their client alone; clients learn their own address; the server implements the abstract message service; the closing loop ends and every address is back in the pool | 2 clients that subscribe, query, send and leave, a signal in any state; queue limit 2, which a reply in escaping mode fills and a packet in length mode does not, so that there are slow and fast clients. Every property but `ShutdownCompletes` is proved for any number of clients |
| lifetime (`MCHandlerLifetime`) | no method goes on with a destroyed handler or without a lease; nothing dangles between callbacks; every callback returns | 3 handlers: one is closed, one is behind the iterator, one is neither |
| late_response (`MCLateResponse`) | **violated**: only responses to own requests | 2 clients |
| confirmation_lost (`MCConfirmationLost`) | **violated**: a client is subscribed to what it was told only | 1 client, whose commands carry nothing or a subscription; queue limit 2: the responses to two commands it has not read leave no room for the reply |
| framing (`MCFraming`) | round trip of both formats, back to back; an accepted frame fits the size limit | payloads of up to 3 bytes over the four special bytes; a length field of two bits makes 3 the largest length; then 6 arbitrary bytes: delimiters around one byte too many |
| framing_forward (`MCFramingForward`) | **violated**: what is passed on fits the size limit | one frame of the largest length |
| hdlcd (`MCSnetGateway`) | one attempt per device, connections are kept and come back, no device is forgotten; callbacks find what they call, all objects are destroyed before the io_service, and complete if an exception skips the shutdown; main returns | 2 devices, the client of the second one may report a failed attempt and its end; the bound of 2 on expired waits and lookups is reached for this one only, where it limits how many attempts race; 2 clients; every exit of main, an exception out of the event loop in any of its states included |

The server runs use the real addresses and identifiers. Symmetry over the
clients is used in runs without temporal properties only.
`CHECK_DEADLOCK FALSE` occurs once, in `MCFraming`: after arbitrary bytes a
receiver may wait forever for the rest of a frame.

What the violations show (details under "findings" in `PROJECT.json`):

1. The address counter has no bound: with more simultaneous clients than
   addresses it runs through the group addresses and wraps.
2. Responses to commands are dropped when the send queue is full.
3. A response to a client that has disconnected reaches the client that was
   given its address next.
4. The subscription of a client is changed before the reply to it is refused by a
   full send queue, contrary to the statement that a reply is sent back for each
   valid request. `ClientKnowsItsState` says that client and gateway agree as long
   as the queue has not been full.
5. The largest payload of a length-based frame violates the size assertion when
   it is passed on in an escaped frame.

### Fairness

* `GatewayAccessConnection`: weak fairness of OnFrame (the event loop serves
  readable sockets) and of the client's reading.
* `GatewayAccessServer`: weak fairness of the shutdown sequence only, which is
  straight-line code of the main thread. Nothing is assumed of clients, the
  network or the event loop.
* `GatewayAccessServerHandlerLifetime`: weak fairness of the thread going on with
  the call it is in; nothing is assumed of the callbacks to come.
* `SnetGateway`: weak fairness of what main does by itself before and after the
  event loop, and the fairness of `HdlcdClientHandler`.
* `HdlcdClientHandler`: weak fairness of expiring timers and of their handlers
  (boost::asio runs them), of lookups and connection attempts (they come to an
  end); strong fairness of their success. The last one is an assumption on the
  environment: a daemon that is tried again and again is there at some time.
  Without it `Reconnects` cannot hold for any program.

## 4. What is proved

Every invariant and every refinement that a passing run checks is also proved, for
every number of clients, frames or devices. The assumptions, apart from the types
of the constants, are these:

* `EnoughAddresses` (`AddressPool`): no more simultaneous clients than client
  addresses, 49135 of them in the program. The run pool_exhausted shows that it
  is needed.
* `NodesDoNotImpersonate` (`GatewayAccessServiceProofs`): nothing in the sensor
  network sends with the gateway's own address as its source. The gateway does
  not check it, and a client could not tell such a packet from a reply of the
  gateway; what a client learns is only true of the server if this holds.
* `QueueHasRoom` (`GatewayAccessConnection`): the send queue has room for all that
  can be sent. The run connection_congested shows what happens without it.
* `FieldAssumption` and `PayloadAssumption` (`GatewayAccessFraming`): the lower
  part of the length field has at least two values and at most 256, a payload
  passes the size assertion of Create (`GatewayAccessFrameEscaped.h:34`).
* `ReportsAssumption` (`GatewayAccessServerHandlerLifetime`) and
  `Handler \ ReportsBoth` (`HdlcdClientHandler`): what the external libraries
  must not do, see section 5.

The arguments, module by module:

* `AddressPoolProofs`. `PoolTypeCorrect` needs no assumption, the others
  `EnoughAddresses`. `LeasesDistinct` is not inductive: handing out a queued
  address is only safe if it is queued once and nobody holds it, and a fresh one
  only if everything handed out so far is below the counter.
  `AddressesConserved` says exactly that. The bound on the counter needs one more
  step: a fresh address is only made while the queue is empty, so all addresses
  made so far are leased, one per client, and the client that asks holds none
  (`RoomForAFreshAddress`). `PoolInv`, defined beside the proof, is the
  conjunction, and `LeasesAreDistinct`, `AddressesAreConserved`, `CounterIsBounded`
  and `PoolImplementsAllocator` follow from it.
* `GatewayAccessConnectionProofs`. `GatewayFollowsTheClient` (`FramesMatchFirst`)
  compares what the gateway sends with the first frame of the client, which it may
  not have seen yet. The missing piece is `FirstFrameComesFirst`: while the mode is
  unknown and the connection open, that frame is the next to be handled, or there
  is none. `QueueStaysWithinLimit` (`TypeOK`) bounds the queue by its limit.
  `ResponsesKeepTheirOrder` (`ResponsesInOrder`): the property is inductive but for
  the room in the queue (`RoomInv`: two frames for each frame of the client that is
  not waiting to be handled, one for each of the news). `HandlingAnswers` computes
  what OnFrame appends, which is what the client expects for the frame; the rest
  is associativity of concatenation and two laws of flattening.
* `GatewayAccessServerProofs`. `LeaseSteps`: only Accept and Close touch leases,
  flags and the list. From this follow `LeasesAreHeld` (with the types of the
  book-keeping as strengthening) and the lemma `ServerRunsItsPool`, by which the
  theorems about the pool hold for the pool of the server
  (`ClientsHaveOwnAddresses`). The lemma says nothing of when a lease is returned;
  that none is kept is `LeasesAreHeld`, and `ServerStopsClean` at the end.
  `RepliesReturnToTheirClient` is the result the gateway exists for: `ReturnInv`
  relates each packet in the network to the present lease of its sender, and
  `OneClientTakesIt` shows that the ranges of the routing and of the filter fit
  together. `QueuedFramesMatchMode` needs the invariant that a client without a
  format has an empty queue.
* `GatewayAccessServiceProofs`. `ServerKeepsItsPromises` is the refinement of
  `MessageService`: initial states and each kind of step are mapped (`Mailbox`
  drops the frames around the payloads, `SlowClients` are those whose queue has
  been full). `ClientsLearnTheirState` and `DeliveriesAreJustified` are about what
  a client will know after each of the frames queued for it, a recursive function
  of the queue (`Learnt`). The invariant `ClientInv` says that there is a trace of
  such knowledge (`Informed`) which begins with what the client knows now, ends with
  the subscriptions the server holds, and never surprises it. What is
  sent makes the trace one longer (`InformedByOneMore`), reading takes its first
  element away; that a trace is what `Learnt` computes is shown once
  (`LearntFromTrace`). `Tells` is what each kind of frame has to satisfy: a
  confirmation changes the knowledge as the service changed the bits, a packet
  does not change it, and a group packet is only sent if the bit is set.
  `ServerKeepsItsTypes` holds without any assumption; `ServerTypeCorrect`
  (`TypeOK`) adds the types of what the clients know.
* `GatewayAccessServerHandlerLifetimeProofs`. `UsedWhileAlive` is not inductive: it
  does not say what a method may return to. `LifetimeInv` lists the shapes of the
  stack (a method of one handler, and below it nothing, DoAccept of the same
  handler, or the closing loop), and for each point what is true of its handler;
  all others are at rest, complete or gone. Two lemmas, for a call and for a
  return, carry most actions. From it follow the four invariants of the run for
  any number of handlers. The proof fails without `self` in Close.
* `GatewayAccessFramingProofs`. `FramingTypeCorrect` and `AcceptedFramesFit` hold for
  any bytes: `FrameShape` says for each state of the deserializers how much of the
  buffer is filled and how much remains. `FramesRoundTrip` (`RoundTrip`) is about
  well-formed streams. Its invariant `StreamInv` says that the bytes not yet read
  are what remains of the oldest frame (`Remains`: the escaped rest of its payload
  and the delimiter, or the rest of the header and of the payload), followed by the
  serialized frames behind it (`Carries`). That escaping can be undone is
  shown for the recursive definition of the serializer, byte by byte from the
  front; a delimiter never occurs in between.
* `SnetGatewayProofs`. First the HDLCd handlers: `OneHandlerSteps` computes what a
  step does to the number of attempts; `HandlersNeverGiveUp` holds for all handlers,
  `HandlersMakeSingleAttempts` and `ConnectionsAreKept` for those whose client
  reports its end once. Then the program: `GraphInvariant` gives the complete set of
  pointers at every point of main. `ResetKeepsComponents` computes what survives a
  reset: a handler is held by its collection alone. `CallbacksAreSafe` and
  `EverythingIsDestroyed` follow. `ExceptionsDestroyNothing` is about the exits past
  the three SystemShutdowns, a wrong destination specifier and an exception out of
  the event loop: leaving the scope takes away what main holds, and then every
  object is still held by another one (`LeftWhole`, `CyclesHoldAll`), so that no
  part of a cycle is destroyed while the rest points to it. `ProgramRunsHandlers` shows that every behaviour
  of the program is one of `HdlcdClientHandler`, so that the theorems about it hold
  in the program.
* `SequenceLemmas`. What a recursive function or a fold computes is proved by the
  least exception: if a claim about the first n elements fails at all, it fails for
  a least n (`LeastException`), which is one step after one it holds for. So the
  flattening of a sequence of sequences is characterised by its partial results
  (`FlattenPartial`, `PartialUnique`), and from these follow the laws for both
  ends of a queue (`FlattenAppend`, `FlattenHeadTail`, `FlattenMapped`).

Only model-checked: the liveness properties (`MixedFramingCloses`,
`OwedFramesArrive`, `ShutdownCompletes`, `Reconnects`, `MainReturns`,
`CallbacksReturn`). The prover handles neither ENABLED nor fairness.

## 5. What is not modelled

* Build files, the texts the program prints.
* The inside of the external libraries. What the code needs of them is assumed:
  that a frame endpoint does not report the end of the connection from within
  SendFrame or Close, and that a client of an HDLC daemon reports each event once
  (the second device of the run hdlcd does without that).
* Whether packets of clients to `0xFFFF` (and its neighbours from `0xFFF0` on, except
  `0xFFFE`) should reach other clients. `Routing.cpp:82` routes them to all that
  have subscribed, the model does the same (the run service has such packets, and
  `MessageService` allows their delivery), while `doc/protocol.md:32` says that
  data is not mirrored to other clients. Which of the two is meant is open.
* Failing accepts (repeated without a change of state), tracing, OnAirARQ.
* Malformed requests to the services whose payload is read past its end, and what
  HDLC daemons do with packets that are reflected to them.
* What becomes of the cycles of pointers that an exception leaves behind. After a
  wrong destination specifier, or an exception out of the event loop, main
  returns without the shutdown: `NothingOutlivesIoService` exempts these exits
  (`SkipsShutdown`), and `ExceptionDestroysNothing` says that all objects are
  complete. The process ends there, so nothing uses them any more. Which
  callback throws, and what it had done so far, is not modelled: the exception
  takes the place of any event of the loop.
* The size of a message when it is serialized again: `ForwardedLength` takes it to
  be the size it was deserialized from.

## 6. Plan

All components of the repository are modelled, and the invariants and refinements
of the runs are proved. What may still be added:

1. The safety half of the liveness properties as action properties: what a step of
   the closing loop, of a retry or of a callback brings nearer to its end
   (measures that decrease). The theorems would leave only the fairness to TLC.
2. The refinement of the connection model by the server: every client of
   `GatewayAccessServer` behaves as a connection of `GatewayAccessConnection`.
3. Requests with malformed payloads, once it is decided what the services should
   do with them.

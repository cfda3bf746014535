---------------------------- MODULE MessageService ----------------------------
(***************************************************************************)
(* What the gateway promises its clients, independent of how it does it    *)
(* (doc/protocol.md): each client has an address of its own, chooses one   *)
(* format with its first frame, and has a mailbox.  A packet is put into   *)
(* the mailboxes of all clients entitled to it in one step, so that all of *)
(* them see the packets they share in the same order ("the same stream of  *)
(* frames").  Subscriptions change only by a request, with a confirmation  *)
(* that says how.  A client can miss something only after it has left      *)
(* Capacity items unread.                                                  *)
(*                                                                         *)
(* Where a packet comes from is not observable here: one of a client whose *)
(* format is chosen may be taken for one that is published, so that        *)
(* nothing is promised about the source addresses of packets, nor that a   *)
(* confirmation is caused by a request if it leaves all as it is.          *)
(*                                                                         *)
(* An item of a mailbox is a message, or NoMessage: the response to a      *)
(* command.  GatewayAccessServer is shown to implement this module.        *)
(***************************************************************************)
EXTENDS SnetServiceMessage

CONSTANTS Client, ClientAddress, NoLease, Capacity

VARIABLES
  address,      \* the address of each connected client, or NoLease
  format,       \* what it has chosen
  subscribed,   \* the services it has subscribed to
  mailbox,      \* what it has not read yet
  slow          \* the clients that have ever left Capacity items unread

NoMessage == <<>>

Init ==
  /\ address = [c \in Client |-> NoLease]
  /\ format = [c \in Client |-> "UNKNOWN"]
  /\ subscribed = [c \in Client |-> {}]
  /\ mailbox = [c \in Client |-> <<>>]
  /\ slow = {}

Join(c) ==
  /\ address[c] = NoLease
  /\ \E a \in ClientAddress \ {address[d] : d \in Client} :
       address' = [address EXCEPT ![c] = a]
  /\ UNCHANGED <<format, subscribed, mailbox, slow>>

Leave(c) ==
  /\ address[c] # NoLease
  /\ address' = [address EXCEPT ![c] = NoLease]
  /\ format' = [format EXCEPT ![c] = "UNKNOWN"]
  /\ subscribed' = [subscribed EXCEPT ![c] = {}]
  /\ mailbox' = [mailbox EXCEPT ![c] = <<>>]
  /\ slow' = slow \ {c}

-------------------------------------------------------------------------------
(* The mailbox after something is put into it: a slow client may miss it.   *)
Arrives(c, box, item) ==
  {Append(box, item)} \cup (IF c \in slow' THEN {box} ELSE {})

OnlyFullBoxesAreSlow ==
  /\ slow \subseteq slow'
  /\ \A c \in slow' \ slow : Len(mailbox'[c]) >= Capacity

(* The packet at the end of somebody's mailbox has been put there, and into *)
(* the mailboxes of all others who are entitled to it.                      *)
Entitled(c, message) ==
  /\ format'[c] # "UNKNOWN"
  /\ \/ message.dstSSA \in ClientAddress /\ message.dstSSA = address[c]
     \/ message.dstSSA \notin ClientAddress /\ message.srcServiceId \in subscribed[c]

Multicast(boxes, message) ==
  /\ DOMAIN mailbox' = Client
  /\ \A c \in Client :
       mailbox'[c] \in IF Entitled(c, message) THEN Arrives(c, boxes[c], message)
                       ELSE {boxes[c]}

LastItems == {mailbox'[c][Len(mailbox'[c])] : c \in {d \in Client : mailbox'[d] # <<>>}}

Publish ==
  /\ \E message \in LastItems \ {NoMessage} : Multicast(mailbox, message)
  /\ OnlyFullBoxesAreSlow
  /\ UNCHANGED <<address, format, subscribed>>

-------------------------------------------------------------------------------
(* A frame from a client: commands are responded to at once.                *)
FrameFrom(c) ==
  /\ address[c] # NoLease
  /\ \E f \in {"ESCAPING", "LENGTH"} : /\ format[c] \in {"UNKNOWN", f}
                                       /\ format' = [format EXCEPT ![c] = f]
  /\ OnlyFullBoxesAreSlow
  /\ UNCHANGED address

Responded(c) ==
  IF format'[c] = "ESCAPING" THEN Arrives(c, mailbox[c], NoMessage) ELSE {mailbox[c]}

(* A session command, or a packet nobody outside the network is entitled to.*)
Command(c) ==
  /\ FrameFrom(c)
  /\ \E box \in Responded(c) : mailbox' = [mailbox EXCEPT ![c] = box]
  /\ UNCHANGED subscribed

(* A packet to other clients, under the client's own name or under none.    *)
Send(c) ==
  /\ FrameFrom(c)
  /\ \E box \in Responded(c) : \E message \in LastItems \ {NoMessage} :
       /\ message.srcSSA \in {address[c], WiredAddr}
       /\ Multicast([mailbox EXCEPT ![c] = box], message)
  /\ UNCHANGED subscribed

(* The answer to a query is the client's address; a confirmation says how   *)
(* the subscriptions have changed.                                          *)
Services(serviceId) == IF serviceId = \hFF THEN ServiceId ELSE {serviceId}

TellsAddress(c, message) ==
  /\ message.srcServiceId = \hAE
  /\ message.payload[2] = address[c] \div \h100
  /\ message.payload[3] = address[c] % \h100
  /\ UNCHANGED subscribed

Changed(c, token, serviceId) ==
  \/ token = \h11 /\ subscribed' = [subscribed EXCEPT ![c] = @ \cup Services(serviceId)]
  \/ token = \h21 /\ subscribed' = [subscribed EXCEPT ![c] = @ \ Services(serviceId)]

TellsChange(c, message) ==
  message.srcServiceId = \hB0 /\ Changed(c, message.token, message.payload[1])

Answered(c) ==
  /\ FrameFrom(c)
  /\ \E message \in LastItems \ {NoMessage} :
       /\ message.srcSSA = MulticastGateway
       /\ TellsAddress(c, message) \/ TellsChange(c, message)
       /\ \E box \in Responded(c) : mailbox' = [mailbox EXCEPT ![c] = Append(box, message)]

(* A slow client misses the confirmation, the change is made all the same.  *)
Unanswered(c) ==
  /\ FrameFrom(c)
  /\ c \in slow'
  /\ \E box \in Responded(c) : mailbox' = [mailbox EXCEPT ![c] = box]
  /\ \E serviceId \in ServiceId : \E token \in {\h11, \h21} : Changed(c, token, serviceId)

Read(c) ==
  /\ mailbox[c] # <<>>
  /\ mailbox' = [mailbox EXCEPT ![c] = Tail(@)]
  /\ UNCHANGED <<address, format, subscribed, slow>>

Next ==
  \/ Publish
  \/ \E c \in Client : \/ Join(c) \/ Leave(c) \/ Read(c)
                       \/ Command(c) \/ Send(c) \/ Answered(c) \/ Unanswered(c)

vars == <<address, format, subscribed, mailbox, slow>>

Spec == Init /\ [][Next]_vars
===============================================================================

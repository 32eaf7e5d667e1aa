------------------------- MODULE MqttSystem_proofs -------------------------
(***************************************************************************)
(* The client with its broker takes only steps MqttClient's Spec allows,   *)
(* so that what MqttClient_proofs proves against every peer holds of the   *)
(* system the model checker explores.                                      *)
(***************************************************************************)
EXTENDS MqttSystem, MqttClient_proofs, FiniteSetTheorems

(* A reply of the broker is a packet Peer may send.                         *)
LEMMA ReplyIsPeer ==
  ASSUME NEW k \in {"accepted", "resumed", "refused", "banned", "pingresp"}
                   \cup {"puback", "suback", "rejected", "unsuback"},
         NEW id \in 0..MaxPacketId,
         k \in {"accepted", "resumed", "refused", "banned", "pingresp"} => id = 0
  PROVE  Packet(k, id, None) \in WellFormedPackets
  BY DEF Packet, WellFormedPackets, AckPackets

LEMMA HeadType ==
  ASSUME TypeOK, to_broker # <<>>
  PROVE  Head(to_broker).id \in 0..MaxPacketId
<1>1. Head(to_broker) \in OutPackets
  BY HeadTailProperties DEF TypeOK
<1>2. QED
  BY <1>1 DEF OutPackets

(* Every step of the broker is a step of the unconstrained peer.            *)
LEMMA BrokerIsPeer ==
  ASSUME TypeOK, Broker \/ LinkBreaks
  PROVE  Peer
<1> USE DEF clientVars, Take
<1>1. to_broker # <<>> => Head(to_broker).id \in 0..MaxPacketId
  BY HeadType
<1>2. 0 \in 0..MaxPacketId
  BY IdsType
<1>3. ASSUME NEW k \in {"puback", "suback", "rejected", "unsuback"},
             NEW id \in 0..MaxPacketId, Reply(k, id)
      PROVE  /\ \/ to_client' = to_client
                \/ \E p \in WellFormedPackets : to_client' = Append(to_client, p)
             /\ link' = link
  BY <1>3, ReplyIsPeer DEF Reply
<1>4. ASSUME NEW k \in {"accepted", "resumed", "pingresp"}, Reply(k, 0)
      PROVE  /\ \/ to_client' = to_client
                \/ \E p \in WellFormedPackets : to_client' = Append(to_client, p)
             /\ link' = link
  BY <1>2, <1>4, ReplyIsPeer DEF Reply
<1>5. CASE BrokerAccepts
  BY <1>4, <1>5 DEF BrokerAccepts, Packets, Peer
<1>6. CASE BrokerRefuses
  BY <1>2, <1>6, ReplyIsPeer DEF BrokerRefuses, Packets, Peer
<1>7. CASE BrokerStores
  BY <1>1, <1>3, <1>7 DEF BrokerStores, Packets, Peer
<1>8. CASE BrokerGrants
  BY <1>1, <1>3, <1>8 DEF BrokerGrants, Packets, Peer
<1>9. CASE BrokerUnsubscribes
  BY <1>1, <1>3, <1>9 DEF BrokerUnsubscribes, Packets, Peer
<1>10. CASE BrokerPongs
  BY <1>4, <1>10 DEF BrokerPongs, Packets, Peer
<1>11. CASE BrokerAcked
  BY <1>11 DEF BrokerAcked, Packets, Peer
<1>12. CASE BrokerCloses
  BY <1>12 DEF BrokerCloses, Peer
<1>13. ASSUME NEW b \in Inbound, BrokerPublishes(b) PROVE Peer
  <2>1. Packet("publish", 0, b) \in WellFormedPackets
    BY DEF Packet, WellFormedPackets
  <2>2. QED
    BY <1>13, <2>1 DEF BrokerPublishes, Peer
<1>14. CASE LinkBreaks
  BY <1>14 DEF LinkBreaks, Peer
<1>15. QED
  BY <1>5, <1>6, <1>7, <1>8, <1>9, <1>10, <1>11, <1>12, <1>13, <1>14 DEF Broker

LEMMA SysStep == TypeOK /\ [SysNext]_sysvars => [Next]_vars
<1> SUFFICES ASSUME TypeOK, [SysNext]_sysvars
             PROVE  [Next]_vars
  OBVIOUS
<1>1. CASE Client
  <2>1. Handle \/ Api
    BY <1>1 DEF Client, FreeCalls, OtherCalls, Api
  <2>2. QED
    BY <2>1 DEF Next
<1>2. CASE Broker \/ LinkBreaks
  BY <1>2, BrokerIsPeer DEF Next
<1>3. CASE UNCHANGED sysvars
  BY <1>3 DEF sysvars
<1>4. QED
  BY <1>1, <1>2, <1>3 DEF SysNext

(* Against a conforming broker the client is a client against any peer, and *)
(* has all its invariants.                                                  *)
THEOREM SystemIsClient == SysSpec => Spec
<1>1. SysInit => Init
  BY DEF SysInit
<1>2. QED
  BY <1>1, SysStep, TypeInit, TypeNext, PTL DEF SysSpec, Spec

(* The five invariants of the client, of the system that the runs check.    *)
THEOREM SystemCorrect ==
  SysSpec => [](TypeOK /\ OneTransport /\ ToldTheTruth /\ OneBatchInFront /\ WithinHardCap)
<1>1. QED
  BY SystemIsClient, TypeCorrect, TransportCorrect, ToldCorrect, BatchCorrect,
     CapCorrect, PTL

(* A transport is dialled only in connect(), which clears every reason not  *)
(* to, and in the self-heal, which checks them; and connect() on a client   *)
(* that is not disconnected dials nothing.                                  *)
LEMMA DialStep ==
  ASSUME [SysNext]_sysvars, connector', ~connector
  PROVE  user_wants_connected' /\ ~permanent_failure' /\ ~reconnect_held'
<1> USE DEF transport, intent
<1>1. CASE SelfHeal
  BY <1>1 DEF SelfHeal, SelfHealActive
<1>2. CASE Connect
  BY <1>2 DEF Connect
<1>3. ASSUME Handle \/ Api, ~SelfHeal, ~Connect
      PROVE  FALSE
  BY <1>3
     DEF Handle, Api, Transport, Deadlines, Receive, Send,
         TransportLost, TransportPending, TransportReady, Begin, Retransmit,
         RetriesExhausted, AckTimeout, SendTimeout, DeadlinesDone, SendPing,
         NoPing, ReadSuppressed, ReadFails, ReceivePublish, ReceiveTooLarge,
         ReceiveRefusal, ReceiveAccept, ReplaySubscription, DrainPreConnect,
         OnConnect, ReceivePubAck, ReceiveSubAck, ReceiveRejection,
         ReceiveUnsubAck, ReceiveUnexpectedAck, ReceivePingResp, EndRead,
         DrainPartial, Drain, DrainFails, Disconnect, Hold, IoError,
         GiveUpConnector, Publish, Subscribe, Unsubscribe, Declare
<1>4. ASSUME Broker \/ LinkBreaks
      PROVE  FALSE
  BY <1>4
     DEF Broker, LinkBreaks, clientVars, Take, BrokerAccepts, BrokerRefuses,
         BrokerStores, BrokerGrants, BrokerUnsubscribes, BrokerPongs,
         BrokerAcked, BrokerCloses, BrokerPublishes
<1>5. CASE UNCHANGED sysvars
  BY <1>5 DEF sysvars, vars
<1>6. QED
  BY <1>1, <1>2, <1>3, <1>4, <1>5
     DEF SysNext, Client, FreeCalls, OtherCalls, Api

(* No transport is dialled against the application's will.                  *)
THEOREM DialCorrect == SysSpec => DialOnlyWhenWanted
<1>1. [SysNext]_sysvars =>
        [connector' /\ ~connector =>
           user_wants_connected' /\ ~permanent_failure' /\ ~reconnect_held']_sysvars
  BY DialStep
<1>2. QED
  BY <1>1, PTL DEF SysSpec, DialOnlyWhenWanted

-----------------------------------------------------------------------------
(* What became of every publication.                                        *)

(* No QoS 1 publication vanishes from a client that does not queue while    *)
(* disconnected: it is in flight until it is confirmed or given up.         *)
THEOREM PublicationsKept ==
  ASSUME PreConnectCap = 0
  PROVE  SysSpec => []NoSilentLoss
<1>1. TypeOK /\ Books /\ (pre_connect_queue = <<>> /\ \A m \in Messages : Kept(m))
        => NoSilentLoss
  <2> SUFFICES ASSUME TypeOK, Books, pre_connect_queue = <<>>, \A m \in Messages : Kept(m)
               PROVE  NoSilentLoss
    OBVIOUS
  <2>1. Waiting = {} /\ DOMAIN pre_connect_queue = {}
    BY DEF Waiting, Items
  <2>2. \A m \in InFlightMsgs : status[m] = "accepted"
    BY DEF Books, InFlightKept, InFlightMsgs
  <2>3. QED
    BY <2>1, <2>2 DEF NoSilentLoss, Kept, Books, InFlightOnce
<1>2. QED
  BY <1>1, SystemIsClient, TypeCorrect, BooksCorrect, NothingLost, PTL

(* With a pre-connect queue there is one way to lose an accepted            *)
(* publication: the replay inside a CONNACK has popped it when              *)
(* _do_publish finds no room for it.                                        *)
LossInReplay ==
  \A m \in Messages : Kept(m) /\ ~Kept(m)' =>
    DrainPreConnect /\ m = Head(pre_connect_queue) /\ ~PublishRoom(m)

THEOREM LossOnlyInReplay == SysSpec => [][LossInReplay]_sysvars
<1>1. TypeOK /\ Books /\ [SysNext]_sysvars => [LossInReplay]_sysvars
  BY SysStep, KeptNext DEF LossInReplay
<1>2. QED
  BY <1>1, SystemIsClient, TypeCorrect, BooksCorrect, PTL DEF SysSpec

(* The on_publish callback of a QoS 0 publication runs after its last byte  *)
(* went to the socket, whichever way the queue was drained.                 *)
THEOREM CallbackCorrect == SysSpec => []Qos0CallbackAfterSend
<1>1. TypeOK /\ Books => Qos0CallbackAfterSend
  <2> SUFFICES ASSUME TypeOK, Books, NEW e \in Events, status[e] = "acked"
               PROVE  /\ partial_send # Packet("publish", 0, e)
                      /\ \A i \in DOMAIN tx_queue : tx_queue[i] # Packet("publish", 0, e)
    BY DEF Qos0CallbackAfterSend
  <2>1. Packet("publish", 0, e) \notin Own
    BY DEF Books, AckedSent
  <2>2. DOMAIN tx_queue = 1..Len(tx_queue)
    BY LenProperties DEF TypeOK
  <2>3. Packet("publish", 0, e) # None
    BY PacketType, IdsType, ArgTypes, NoneAssumption DEF OutKinds, Publications
  <2>4. QED
    BY <2>1, <2>2, <2>3 DEF Own, Items
<1>2. QED
  BY <1>1, SystemIsClient, TypeCorrect, BooksCorrect, PTL

-----------------------------------------------------------------------------
(* The bytes between the client's queue and the broker, part by part: what  *)
(* the broker has not read, the packet partly sent, and the queue.          *)

No(q, k) == \A i \in 1..Len(q) : q[i].kind # k
One(q, k) == \E i \in 1..Len(q) : /\ q[i].kind = k
                                  /\ \A j \in 1..Len(q) : q[j].kind = k => j = i
First(q, k) == q # <<>> /\ q[1].kind = k /\ One(q, k)

PartlyNo(k) == partial_send # None => partial_send.kind # k
PartlyOne(k) == partial_send # None /\ partial_send.kind = k

StreamNo(k) == No(to_broker, k) /\ PartlyNo(k) /\ No(tx_queue, k)
StreamOne(k) == \/ One(to_broker, k) /\ PartlyNo(k) /\ No(tx_queue, k)
                \/ No(to_broker, k) /\ PartlyOne(k) /\ No(tx_queue, k)
                \/ No(to_broker, k) /\ PartlyNo(k) /\ One(tx_queue, k)
StreamFirst(k) == \/ First(to_broker, k) /\ PartlyNo(k) /\ No(tx_queue, k)
                  \/ to_broker = <<>> /\ PartlyOne(k) /\ No(tx_queue, k)
                  \/ to_broker = <<>> /\ partial_send = None /\ First(tx_queue, k)

LEMMA NoEmpty == \A k : No(<<>>, k)
  BY DEF No

LEMMA AppendKinds ==
  ASSUME NEW S, NEW q \in Seq(S), NEW x \in S, NEW k
  PROVE  /\ No(q, k) /\ x.kind # k => No(Append(q, x), k)
         /\ No(q, k) /\ x.kind = k => One(Append(q, x), k)
         /\ One(q, k) /\ x.kind # k => One(Append(q, x), k)
         /\ First(q, k) /\ x.kind # k => First(Append(q, x), k)
         /\ q = <<>> /\ x.kind = k => First(Append(q, x), k)
<1>1. PICK l \in Nat : l = Len(q)
  BY LenProperties
<1>2. PICK a : a = Append(q, x)
  OBVIOUS
<1>3. /\ Len(a) = l + 1 /\ a[l + 1] = x /\ a # <<>> /\ a \in Seq(S)
      /\ \A i \in 1..l : a[i] = q[i]
  BY <1>1, <1>2, AppendProperties
<1>4. 1..(l + 1) = 1..l \cup {l + 1} /\ l + 1 \notin 1..l
  OBVIOUS
<1>5. No(q, k) /\ x.kind # k => No(a, k)
  BY <1>1, <1>3, <1>4 DEF No
<1>6. No(q, k) /\ x.kind = k => One(a, k)
  <2>1. l + 1 \in 1..(l + 1)
    OBVIOUS
  <2>2. No(q, k) => \A j \in 1..(l + 1) : a[j].kind = k => j = l + 1
    BY <1>1, <1>3, <1>4 DEF No
  <2>3. QED
    BY <1>3, <2>1, <2>2 DEF One
<1>7. One(q, k) /\ x.kind # k => One(a, k)
  <2> SUFFICES ASSUME One(q, k), x.kind # k PROVE One(a, k)
    OBVIOUS
  <2>1. PICK i \in 1..l : q[i].kind = k /\ \A j \in 1..l : q[j].kind = k => j = i
    BY <1>1 DEF One
  <2>2. i \in 1..(l + 1) /\ a[i].kind = k
    BY <1>3, <1>4, <2>1
  <2>3. \A j \in 1..(l + 1) : a[j].kind = k => j = i
    BY <1>3, <1>4, <2>1
  <2>4. QED
    BY <1>3, <2>2, <2>3 DEF One
<1>8. First(q, k) /\ x.kind # k => First(a, k)
  <2>1. First(q, k) => 1 \in 1..l
    BY <1>1, EmptySeq, LenProperties DEF First
  <2>2. QED
    BY <1>3, <1>7, <2>1 DEF First
<1>9. q = <<>> /\ x.kind = k => First(a, k)
  <2> SUFFICES ASSUME q = <<>>, x.kind = k PROVE First(a, k)
    OBVIOUS
  <2>1. l = 0 /\ No(q, k)
    BY <1>1, EmptySeq, NoEmpty
  <2>2. a[1] = x
    BY <1>3, <2>1
  <2>3. QED
    BY <1>3, <1>6, <2>1, <2>2 DEF First
<1>10. QED
  BY <1>2, <1>5, <1>6, <1>7, <1>8, <1>9

LEMMA ConsKinds ==
  ASSUME NEW S, NEW q \in Seq(S), NEW x \in S, NEW k, x.kind # k
  PROVE  /\ No(q, k) => No(<<x>> \o q, k)
         /\ One(q, k) => One(<<x>> \o q, k)
<1>1. PICK l \in Nat : l = Len(q)
  BY LenProperties
<1>2. PICK a : a = <<x>> \o q
  OBVIOUS
<1>3. Len(a) = l + 1 /\ a[1] = x /\ \A i \in 1..l : a[i + 1] = q[i]
  BY <1>1, <1>2, ItemsCons
<1>4. \A i \in 1..(l + 1) : i = 1 \/ (i - 1 \in 1..l /\ a[i] = q[i - 1])
  <2> TAKE i \in 1..(l + 1)
  <2>1. CASE i # 1
    <3>1. i - 1 \in 1..l /\ (i - 1) + 1 = i
      BY <2>1
    <3>2. QED
      BY <1>3, <3>1
  <2>2. QED
    BY <2>1
<1>5. No(q, k) => No(a, k)
  BY <1>1, <1>3, <1>4 DEF No
<1>6. ASSUME One(q, k) PROVE One(a, k)
  <2>1. PICK i \in 1..l : q[i].kind = k /\ \A j \in 1..l : q[j].kind = k => j = i
    BY <1>1, <1>6 DEF One
  <2>2. i + 1 \in 1..(l + 1) /\ a[i + 1].kind = k
    BY <1>3, <2>1
  <2>3. ASSUME NEW j \in 1..(l + 1), a[j].kind = k PROVE j = i + 1
    <3>1. j - 1 \in 1..l /\ a[j] = q[j - 1]
      BY <1>3, <1>4, <2>3
    <3>2. j - 1 = i
      BY <2>1, <2>3, <3>1
    <3>3. QED
      BY <3>2
  <2>4. QED
    BY <1>3, <2>2, <2>3 DEF One
<1>7. QED
  BY <1>2, <1>5, <1>6

LEMMA TailKinds ==
  ASSUME NEW S, NEW q \in Seq(S), q # <<>>, NEW k
  PROVE  /\ No(q, k) => Head(q).kind # k /\ No(Tail(q), k)
         /\ One(q, k) /\ Head(q).kind = k => No(Tail(q), k)
         /\ One(q, k) /\ Head(q).kind # k => One(Tail(q), k)
         /\ First(q, k) => Head(q).kind = k /\ No(Tail(q), k)
<1>1. PICK l \in Nat : l = Len(q)
  BY LenProperties
<1>2. PICK t : t = Tail(q)
  OBVIOUS
<1>3. /\ Head(q) = q[1] /\ Len(t) = l - 1 /\ l > 0
      /\ \A i \in 1..(l - 1) : t[i] = q[i + 1]
  BY <1>1, <1>2, HeadTailProperties, EmptySeq, LenProperties
<1>4. \A i \in 1..(l - 1) : i + 1 \in 1..l /\ i + 1 # 1
  OBVIOUS
<1>5. 1 \in 1..l
  BY <1>3
<1>6. No(q, k) => Head(q).kind # k /\ No(t, k)
  BY <1>1, <1>3, <1>4, <1>5 DEF No
<1>7. One(q, k) /\ Head(q).kind = k => No(t, k)
  BY <1>1, <1>3, <1>4, <1>5 DEF No, One
<1>8. ASSUME One(q, k), Head(q).kind # k PROVE One(t, k)
  <2>1. PICK i \in 1..l : q[i].kind = k /\ \A j \in 1..l : q[j].kind = k => j = i
    BY <1>1, <1>8 DEF One
  <2>2. i # 1
    BY <1>3, <1>8, <2>1
  <2>3. i - 1 \in 1..(l - 1) /\ (i - 1) + 1 = i
    BY <2>2
  <2>4. t[i - 1].kind = k
    BY <1>3, <2>1, <2>3
  <2>5. ASSUME NEW j \in 1..(l - 1), t[j].kind = k PROVE j = i - 1
    <3>1. j + 1 = i
      BY <1>3, <1>4, <2>1, <2>5
    <3>2. QED
      BY <3>1
  <2>6. QED
    BY <1>3, <2>3, <2>4, <2>5 DEF One
<1>9. First(q, k) => Head(q).kind = k
  BY <1>3 DEF First
<1>10. QED
  BY <1>2, <1>6, <1>7, <1>8, <1>9 DEF First

LEMMA RestKinds ==
  ASSUME NEW S, NEW q \in Seq(S), NEW n \in 0..Len(q), MarkerPrefix(q, n),
         NEW k, k # "callback"
  PROVE  /\ No(q, k) => No(Rest(q, n), k)
         /\ One(q, k) => One(Rest(q, n), k)
         /\ First(q, k) => Rest(q, n) = q
<1>1. PICK l \in Nat : l = Len(q)
  BY LenProperties
<1>2. PICK r : r = Rest(q, n)
  OBVIOUS
<1>3. /\ r \in Seq(S) /\ Len(r) = l - n /\ \A i \in 1..(l - n) : r[i] = q[i + n]
  BY <1>1, <1>2, RestProperties
<1>4. \A i \in 1..(l - n) : i + n \in 1..l
  BY <1>1
<1>5. \A i \in 1..n : q[i].kind # k
  BY DEF MarkerPrefix, IsMarker
<1>6. No(q, k) => No(r, k)
  BY <1>1, <1>3, <1>4 DEF No
<1>7. ASSUME One(q, k) PROVE One(r, k)
  <2>1. PICK i \in 1..l : q[i].kind = k /\ \A j \in 1..l : q[j].kind = k => j = i
    BY <1>1, <1>7 DEF One
  <2>2. i \notin 1..n
    BY <1>5, <2>1
  <2>3. i - n \in 1..(l - n) /\ (i - n) + n = i
    BY <1>1, <2>2
  <2>4. r[i - n].kind = k
    BY <1>3, <2>1, <2>3
  <2>5. ASSUME NEW j \in 1..(l - n), r[j].kind = k PROVE j = i - n
    <3>1. j + n = i
      BY <1>3, <1>4, <2>1, <2>5
    <3>2. QED
      BY <1>1, <3>1
  <2>6. QED
    BY <1>3, <2>3, <2>4, <2>5 DEF One
<1>8. ASSUME First(q, k) PROVE r = q
  <2>1. 1 \notin 1..n
    BY <1>5, <1>8 DEF First
  <2>2. n = 0
    BY <1>1, <2>1
  <2>3. Len(r) = Len(q) /\ \A i \in 1..Len(q) : r[i] = q[i]
    BY <1>1, <1>3, <2>2
  <2>4. QED
    BY <1>3, <2>3, SeqEqual
<1>9. QED
  BY <1>2, <1>6, <1>7, <1>8

LEMMA ConcatKinds ==
  ASSUME NEW S, NEW a \in Seq(S), NEW b \in Seq(S), NEW k
  PROVE  /\ a \o b \in Seq(S)
         /\ No(a, k) /\ No(b, k) => No(a \o b, k)
         /\ One(a, k) /\ No(b, k) => One(a \o b, k)
         /\ No(a, k) /\ One(b, k) => One(a \o b, k)
         /\ First(a, k) /\ No(b, k) => First(a \o b, k)
         /\ a = <<>> => a \o b = b
<1>1. PICK m \in Nat : m = Len(a)
  BY LenProperties
<1>2. PICK n \in Nat : n = Len(b)
  BY LenProperties
<1>3. PICK c : c = a \o b
  OBVIOUS
<1>4. /\ c \in Seq(S) /\ Len(c) = m + n
      /\ \A i \in 1..(m + n) : c[i] = IF i <= m THEN a[i] ELSE b[i - m]
  BY <1>1, <1>2, <1>3, ConcatProperties
<1>5. \A i \in 1..(m + n) : \/ i \in 1..m /\ c[i] = a[i]
                            \/ i - m \in 1..n /\ c[i] = b[i - m] /\ i \notin 1..m
  BY <1>4
<1>6. /\ \A i \in 1..m : i \in 1..(m + n) /\ c[i] = a[i]
      /\ \A i \in 1..n : i + m \in 1..(m + n) /\ c[i + m] = b[i]
  <2>1. \A i \in 1..m : i \in 1..(m + n) /\ i <= m
    OBVIOUS
  <2>2. \A i \in 1..n : i + m \in 1..(m + n) /\ ~(i + m <= m) /\ (i + m) - m = i
    OBVIOUS
  <2>3. QED
    BY <1>4, <2>1, <2>2
<1>7. No(a, k) /\ No(b, k) => No(c, k)
  BY <1>1, <1>2, <1>4, <1>5 DEF No
<1>8. ASSUME One(a, k), No(b, k) PROVE One(c, k)
  <2>1. PICK i \in 1..m : a[i].kind = k /\ \A j \in 1..m : a[j].kind = k => j = i
    BY <1>1, <1>8 DEF One
  <2>2. \A j \in 1..(m + n) : c[j].kind = k => j = i
    BY <1>2, <1>5, <1>8, <2>1 DEF No
  <2>3. QED
    BY <1>4, <1>6, <2>1, <2>2 DEF One
<1>9. ASSUME No(a, k), One(b, k) PROVE One(c, k)
  <2>1. PICK i \in 1..n : b[i].kind = k /\ \A j \in 1..n : b[j].kind = k => j = i
    BY <1>2, <1>9 DEF One
  <2>2. ASSUME NEW j \in 1..(m + n), c[j].kind = k PROVE j = i + m
    <3>1. j - m \in 1..n /\ c[j] = b[j - m]
      BY <1>1, <1>5, <1>9, <2>2 DEF No
    <3>2. j - m = i
      BY <2>1, <2>2, <3>1
    <3>3. QED
      BY <3>2
  <2>3. QED
    BY <1>4, <1>6, <2>1, <2>2 DEF One
<1>10. First(a, k) /\ No(b, k) => First(c, k)
  <2> SUFFICES ASSUME First(a, k), No(b, k) PROVE First(c, k)
    OBVIOUS
  <2>1. m > 0
    BY <1>1, EmptySeq, LenProperties DEF First
  <2>2. c[1] = a[1]
    BY <1>6, <2>1
  <2>3. c # <<>>
    BY <1>4, <2>1, EmptySeq
  <2>4. QED
    BY <1>8, <2>2, <2>3 DEF First
<1>11. a = <<>> => c = b
  <2> SUFFICES ASSUME a = <<>> PROVE c = b
    OBVIOUS
  <2>1. m = 0
    BY <1>1, EmptySeq
  <2>2. Len(c) = Len(b) /\ \A i \in 1..Len(b) : c[i] = b[i]
    <3>1. \A i \in 1..n : i + 0 = i
      OBVIOUS
    <3>2. QED
      BY <1>2, <1>4, <1>6, <2>1, <3>1
  <2>3. QED
    BY <1>4, <2>2, SeqEqual
<1>12. QED
  BY <1>3, <1>4, <1>7, <1>8, <1>9, <1>10, <1>11

LEMMA KindEntries ==
  ASSUME NEW S, NEW q \in Seq(S), NEW k
  PROVE  /\ No(q, k) => Entries(q, k) = {}
         /\ One(q, k) => \E i : Entries(q, k) = {i}
         /\ First(q, k) => Entries(q, k) = {1}
<1>1. PICK l \in Nat : l = Len(q) /\ DOMAIN q = 1..l
  BY LenProperties
<1>2. Entries(q, k) = {i \in 1..l : q[i].kind = k}
  BY <1>1 DEF Entries
<1>3. No(q, k) => Entries(q, k) = {}
  BY <1>1, <1>2 DEF No
<1>4. One(q, k) => \E i : Entries(q, k) = {i}
  BY <1>1, <1>2 DEF One
<1>5. First(q, k) => 1 \in Entries(q, k)
  BY <1>1, <1>2, EmptySeq, LenProperties DEF First
<1>6. QED
  BY <1>3, <1>4, <1>5 DEF First

(* What sending does to the stream: nothing, but that markers leave it.     *)
LEMMA StreamSent ==
  ASSUME TypeOK, link, DrainPartial \/ \E n \in 0..Len(tx_queue) : Drain(n),
         NEW k, k # "callback"
  PROVE  /\ StreamNo(k) => StreamNo(k)'
         /\ StreamOne(k) => StreamOne(k)'
         /\ StreamFirst(k) => StreamFirst(k)'
<1> USE DEF StreamNo, StreamOne, StreamFirst, PartlyNo, PartlyOne
<1>1. to_broker \in Seq(OutPackets) /\ tx_queue \in Seq(OutPackets)
      /\ partial_send \in OutPackets \cup {None}
  BY DEF TypeOK
<1>2. ASSUME NEW x \in OutPackets
      PROVE  /\ No(to_broker, k) /\ x.kind # k => No(Append(to_broker, x), k)
             /\ No(to_broker, k) /\ x.kind = k => One(Append(to_broker, x), k)
             /\ One(to_broker, k) /\ x.kind # k => One(Append(to_broker, x), k)
             /\ First(to_broker, k) /\ x.kind # k => First(Append(to_broker, x), k)
             /\ to_broker = <<>> /\ x.kind = k => First(Append(to_broker, x), k)
  BY <1>1, AppendKinds
<1>3. CASE DrainPartial
  <2>1. partial_send # None /\ UNCHANGED tx_queue
    BY <1>3 DEF DrainPartial
  <2>2. CASE UNCHANGED <<partial_send, to_broker>>
    BY <2>1, <2>2
  <2>3. CASE partial_send' = None /\ to_broker' = Append(to_broker, partial_send)
    <3>1. PICK x \in OutPackets : x = partial_send
      BY <1>1, <2>1
    <3>2. QED
      BY <1>2, <2>1, <2>3, <3>1
  <2>4. QED
    BY <1>3, <2>2, <2>3 DEF DrainPartial, Sent
<1>4. ASSUME NEW n \in 0..Len(tx_queue), Drain(n)
      PROVE  /\ StreamNo(k) => StreamNo(k)'
             /\ StreamOne(k) => StreamOne(k)'
             /\ StreamFirst(k) => StreamFirst(k)'
  <2>1. PICK q : q = Rest(tx_queue, n)
    OBVIOUS
  <2>2. partial_send = None /\ MarkerPrefix(tx_queue, n) /\ q \in Seq(OutPackets)
    BY <1>1, <1>4, <2>1, RestProperties DEF Drain
  <2>3. /\ No(tx_queue, k) => No(q, k)
        /\ One(tx_queue, k) => One(q, k)
        /\ First(tx_queue, k) => First(q, k)
    BY <1>1, <2>1, <2>2, RestKinds
  <2>4. CASE tx_queue' = q /\ UNCHANGED <<partial_send, to_broker>>
    BY <2>3, <2>4
  <2>5. ASSUME q # <<>>
        PROVE  \E x \in OutPackets, t \in Seq(OutPackets) :
                 /\ x = Head(q) /\ t = Tail(q)
                 /\ No(q, k) => x.kind # k /\ No(t, k)
                 /\ One(q, k) /\ x.kind = k => No(t, k)
                 /\ One(q, k) /\ x.kind # k => One(t, k)
                 /\ First(q, k) => x.kind = k /\ No(t, k)
    BY <2>2, <2>5, HeadTailProperties, TailKinds
  <2>6. ASSUME q # <<>>, tx_queue' = Tail(q), partial_send' = Head(q), UNCHANGED to_broker
        PROVE  /\ StreamNo(k) => StreamNo(k)'
               /\ StreamOne(k) => StreamOne(k)'
               /\ StreamFirst(k) => StreamFirst(k)'
    <3>1. PICK x \in OutPackets, t \in Seq(OutPackets) :
                 /\ x = Head(q) /\ t = Tail(q)
                 /\ No(q, k) => x.kind # k /\ No(t, k)
                 /\ One(q, k) /\ x.kind = k => No(t, k)
                 /\ One(q, k) /\ x.kind # k => One(t, k)
                 /\ First(q, k) => x.kind = k /\ No(t, k)
      BY <2>5, <2>6
    <3>2. x # None
      BY NoneAssumption
    <3>3. QED
      BY <2>2, <2>3, <2>6, <3>1, <3>2
  <2>7. ASSUME q # <<>>, to_broker' = Append(to_broker, Head(q)), partial_send' = None,
               No(Tail(q), k) => No(tx_queue', k), One(Tail(q), k) => One(tx_queue', k)
        PROVE  /\ StreamNo(k) => StreamNo(k)'
               /\ StreamOne(k) => StreamOne(k)'
               /\ StreamFirst(k) => StreamFirst(k)'
    <3>1. PICK x \in OutPackets, t \in Seq(OutPackets) :
                 /\ x = Head(q) /\ t = Tail(q)
                 /\ No(q, k) => x.kind # k /\ No(t, k)
                 /\ One(q, k) /\ x.kind = k => No(t, k)
                 /\ One(q, k) /\ x.kind # k => One(t, k)
                 /\ First(q, k) => x.kind = k /\ No(t, k)
      BY <2>5, <2>7
    <3>2. StreamNo(k) => StreamNo(k)'
      BY <1>2, <2>3, <2>7, <3>1
    <3>3. StreamOne(k) => StreamOne(k)'
      BY <1>2, <2>2, <2>3, <2>7, <3>1
    <3>4. StreamFirst(k) => StreamFirst(k)'
      BY <1>2, <2>2, <2>3, <2>7, <3>1
    <3>5. QED
      BY <3>2, <3>3, <3>4
  <2>8. ASSUME q # <<>>, NEW j \in 0..Len(Tail(q)), MarkerPrefix(Tail(q), j),
               tx_queue' = Rest(Tail(q), j)
        PROVE  /\ No(Tail(q), k) => No(tx_queue', k)
               /\ One(Tail(q), k) => One(tx_queue', k)
    <3>1. PICK t \in Seq(OutPackets) : t = Tail(q)
      BY <2>5, <2>8
    <3>2. QED
      BY <2>8, <3>1, RestKinds
  <2>9. \/ tx_queue' = q /\ UNCHANGED <<partial_send, to_broker>>
        \/ /\ q # <<>> /\ tx_queue' = Tail(q) /\ partial_send' = Head(q)
           /\ UNCHANGED to_broker
        \/ /\ q # <<>> /\ to_broker' = Append(to_broker, Head(q)) /\ partial_send' = None
           /\ \/ tx_queue' = Tail(q)
              \/ \E j \in 0..Len(Tail(q)) :
                   MarkerPrefix(Tail(q), j) /\ tx_queue' = Rest(Tail(q), j)
    BY <1>4, <2>1, <2>2 DEF Drain, Sent
  <2>10. QED
    BY <2>4, <2>6, <2>7, <2>8, <2>9
<1>5. QED
  BY <1>3, <1>4

LEMMA StreamEnqueued ==
  ASSUME TypeOK, NEW p \in OutPackets, NEW k, UNCHANGED <<to_broker, partial_send>>,
         tx_queue' = Append(tx_queue, p)
  PROVE  /\ p.kind # k => /\ StreamNo(k) => StreamNo(k)'
                          /\ StreamOne(k) => StreamOne(k)'
                          /\ StreamFirst(k) => StreamFirst(k)'
         /\ p.kind = k => (StreamNo(k) => StreamOne(k)')
<1>1. /\ No(tx_queue, k) /\ p.kind # k => No(tx_queue', k)
      /\ No(tx_queue, k) /\ p.kind = k => One(tx_queue', k)
      /\ One(tx_queue, k) /\ p.kind # k => One(tx_queue', k)
      /\ First(tx_queue, k) /\ p.kind # k => First(tx_queue', k)
  BY AppendKinds DEF TypeOK
<1>2. QED
  BY <1>1 DEF StreamNo, StreamOne, StreamFirst, PartlyNo, PartlyOne

LEMMA StreamInFront ==
  ASSUME TypeOK, NEW p \in OutPackets, NEW k, p.kind # k,
         UNCHANGED <<to_broker, partial_send>>, tx_queue' = <<p>> \o tx_queue
  PROVE  /\ StreamNo(k) => StreamNo(k)'
         /\ StreamOne(k) => StreamOne(k)'
<1>1. /\ No(tx_queue, k) => No(tx_queue', k)
      /\ One(tx_queue, k) => One(tx_queue', k)
  BY ConsKinds DEF TypeOK
<1>2. QED
  BY <1>1 DEF StreamNo, StreamOne, PartlyNo, PartlyOne

LEMMA StreamTaken ==
  ASSUME TypeOK, NEW k, UNCHANGED <<tx_queue, partial_send>>,
         to_broker # <<>>, to_broker' = Tail(to_broker)
  PROVE  /\ StreamNo(k) => Head(to_broker).kind # k /\ StreamNo(k)'
         /\ StreamOne(k) => IF Head(to_broker).kind = k THEN StreamNo(k)'
                                                        ELSE StreamOne(k)'
         /\ StreamFirst(k) => Head(to_broker).kind = k /\ StreamNo(k)'
<1>1. PICK q : q = to_broker
  OBVIOUS
<1>2. /\ No(q, k) => Head(q).kind # k /\ No(Tail(q), k)
      /\ One(q, k) /\ Head(q).kind = k => No(Tail(q), k)
      /\ One(q, k) /\ Head(q).kind # k => One(Tail(q), k)
      /\ First(q, k) => Head(q).kind = k /\ No(Tail(q), k)
  BY <1>1, TailKinds DEF TypeOK
<1>3. QED
  BY <1>1, <1>2 DEF StreamNo, StreamOne, StreamFirst, PartlyNo, PartlyOne

LEMMA StreamKept ==
  ASSUME UNCHANGED <<to_broker, partial_send, tx_queue>>, NEW k
  PROVE  /\ StreamNo(k)' <=> StreamNo(k)
         /\ StreamOne(k)' <=> StreamOne(k)
         /\ StreamFirst(k)' <=> StreamFirst(k)
  BY DEF StreamNo, StreamOne, StreamFirst, PartlyNo, PartlyOne

-----------------------------------------------------------------------------
(* ConnectFirst.  A session exists on a live transport once the broker read *)
(* CONNECT from it; until then CONNECT is the first of the stream, and the  *)
(* broker says nothing.  The rest is what keeps other packets out of the    *)
(* queue at the time: an idle client has nothing queued, and nothing that   *)
(* answers a packet of the broker runs before the session.                  *)

Greeted == IF session THEN StreamNo("connect") ELSE StreamFirst("connect")

Bare == tx_queue = <<>> /\ partial_send = None /\ pending_responses = {}

GreetInv ==
  /\ link => socket
  /\ state \in {"disconnected", "awaiting"} => Bare
  /\ state = "disconnected" => pc \in {"idle", "drain"}
  /\ state = "disconnected" /\ socket => to_broker = <<>> /\ ~session
  /\ link /\ ~session => to_client = <<>>
  /\ link /\ pc \in {"dispatch", "replay"} => session
  /\ pc = "recv" => pending_pubacks = {}
  /\ link /\ state # "disconnected" => Greeted

LEMMA GreetClient ==
  ASSUME TypeOK, OneTransport, GreetInv, Handle \/ Api, NewTransport
  PROVE  GreetInv'
<1> USE DEF control, transport, intent, outbox, ids, registry, app, wire
<1>0. ~(link' /\ ~link) => session' = session
  BY DEF NewTransport
<1>1. ASSUME UNCHANGED <<to_broker, partial_send, tx_queue>>, session' = session
      PROVE  Greeted' <=> Greeted
  BY <1>1, StreamKept DEF Greeted
<1>2. ASSUME NEW p \in OutPackets, p.kind # "connect", tx_queue' = Append(tx_queue, p),
             UNCHANGED <<to_broker, partial_send>>, session' = session
      PROVE  Greeted => Greeted'
  BY <1>2, StreamEnqueued DEF Greeted
<1>3. CASE SelfHeal
  BY <1>3 DEF SelfHeal, ResetTransientState, GreetInv, Bare
<1>4. CASE TransportLost
  BY <1>0, <1>1, <1>4 DEF TransportLost, EnterFailed, GreetInv, Bare, OneTransport
<1>5. CASE TransportPending
  BY <1>0, <1>1, <1>5 DEF TransportPending, GreetInv, Bare
<1>6. CASE TransportReady
  <2>1. Bare /\ ~link
    BY <1>6 DEF TransportReady, GreetInv, OneTransport
  <2>2. PICK p \in OutPackets : p = Packet("connect", 0, None) /\ p.kind = "connect"
    BY PacketType, IdsType, ArgTypes DEF OutKinds, Packet
  <2>3. First(tx_queue', "connect")
    <3>1. tx_queue' = Append(<<>>, p) /\ <<>> \in Seq(OutPackets)
      BY <1>6, <2>1, <2>2, EmptySeq DEF TransportReady, Bare
    <3>2. QED
      BY <2>2, <3>1, AppendKinds
  <2>4. to_broker' = <<>> /\ partial_send' = None /\ session' = FALSE
    BY <1>6, <2>1 DEF TransportReady, NewTransport, Bare
  <2>5. Greeted'
    BY <2>3, <2>4 DEF Greeted, StreamFirst
  <2>6. QED
    BY <1>6, <2>5 DEF TransportReady, EnterDeadlines, GreetInv
<1>7. CASE Begin
  BY <1>0, <1>1, <1>7 DEF Begin, EnterDeadlines, GreetInv, Bare
<1>8. ASSUME NEW i \in Ids, Retransmit(i) PROVE GreetInv'
  <2>1. PICK p \in OutPackets : p = Packet("publish", i, in_flight[i].msg) /\ p.kind # "connect"
    BY <1>8, InFlightType, PacketType, IdsType, ArgTypes
       DEF Retransmit, OutKinds, Packet, Publications
  <2>2. state \notin {"disconnected", "awaiting"}
    BY <1>8 DEF Retransmit, GreetInv, OneTransport
  <2>3. QED
    BY <1>0, <1>2, <1>8, <2>1, <2>2 DEF Retransmit, GreetInv
<1>9. ASSUME NEW i \in Ids, RetriesExhausted(i) PROVE GreetInv'
  BY <1>0, <1>1, <1>9 DEF RetriesExhausted, EnterFailed, GreetInv
<1>10. ASSUME NEW p \in pending_responses, AckTimeout(p) PROVE GreetInv'
  BY <1>0, <1>1, <1>10 DEF AckTimeout, EnterFailed, GreetInv
<1>11. CASE SendTimeout
  BY <1>0, <1>1, <1>11 DEF SendTimeout, EnterFailed, GreetInv
<1>12. CASE DeadlinesDone
  BY <1>0, <1>1, <1>12 DEF DeadlinesDone, GreetInv, Bare
<1>13. CASE SendPing
  <2>1. PICK p \in OutPackets : p = Packet("pingreq", 0, None) /\ p.kind # "connect"
    BY PacketType, IdsType, ArgTypes DEF OutKinds, Packet
  <2>2. QED
    BY <1>0, <1>2, <1>13, <2>1 DEF SendPing, PingDue, GreetInv
<1>14. CASE NoPing
  BY <1>0, <1>1, <1>14 DEF NoPing, GreetInv, Bare
<1>15. CASE ReadSuppressed
  BY <1>0, <1>1, <1>15 DEF ReadSuppressed, GreetInv, Bare
<1>16. CASE ReadFails
  BY <1>0, <1>1, <1>16 DEF ReadFails, Abort, EnterFailed, GreetInv
<1>17. ASSUME NEW kinds, Incoming(kinds)
       PROVE  /\ UNCHANGED to_broker /\ session' = session /\ link' = link
              /\ link => session
              /\ state # "disconnected" /\ pc \in {"recv", "dispatch"}
              /\ (state = "awaiting" => FALSE)
  BY <1>0, <1>17 DEF Incoming, GreetInv, OneTransport
<1>18. CASE ReceivePublish
  BY <1>1, <1>17, <1>18 DEF ReceivePublish, ContinueReading, GreetInv, Bare
<1>19. CASE ReceiveTooLarge
  BY <1>1, <1>17, <1>19 DEF ReceiveTooLarge, Abort, EnterFailed, GreetInv
<1>20. CASE ReceiveRefusal
  BY <1>1, <1>17, <1>20 DEF ReceiveRefusal, EnterFailed, GreetInv
<1>21. CASE ReceiveAccept
  BY <1>1, <1>17, <1>21 DEF ReceiveAccept, GreetInv
<1>22. ASSUME NEW t \in Topics, ReplaySubscription(t) PROVE GreetInv'
  <2>1. PICK i \in Ids :
          tx_queue' = IF InternalRoom THEN Append(tx_queue, Packet("subscribe", i, t))
                                      ELSE tx_queue
    BY <1>22 DEF ReplaySubscription
  <2>2. PICK p \in OutPackets : p = Packet("subscribe", i, t) /\ p.kind # "connect"
    BY PacketType, IdsType, ArgTypes DEF OutKinds, Packet
  <2>3. /\ UNCHANGED <<pc, state, socket, link, to_broker, to_client, partial_send,
                       pending_pubacks>>
        /\ session' = session /\ pc = "replay"
    BY <1>0, <1>22 DEF ReplaySubscription
  <2>4. Greeted => Greeted'
    BY <1>1, <1>2, <2>1, <2>2, <2>3
  <2>5. state \notin {"disconnected", "awaiting"}
    BY <2>3 DEF GreetInv, OneTransport
  <2>6. QED
    BY <2>3, <2>4, <2>5 DEF GreetInv
<1>23. ASSUME NEW m \in Publications, DoPublish(m) \/ DoPublishRaises(m),
              UNCHANGED <<to_broker, partial_send>>, session' = session
       PROVE  Greeted => Greeted'
  <2>1. CASE DoPublishRaises(m)
    BY <1>1, <1>23, <2>1 DEF DoPublishRaises
  <2>2. CASE m \in Messages /\ DoPublish(m)
    <3>1. PICK i \in Ids : tx_queue' = Append(tx_queue, Packet("publish", i, m))
      BY <2>2, ClientAssumption DEF DoPublish, ClientAssumption
    <3>2. Packet("publish", i, m) \in OutPackets /\ Packet("publish", i, m).kind # "connect"
      BY PacketType, IdsType, ArgTypes DEF OutKinds, Packet
    <3>3. QED
      BY <1>2, <1>23, <3>1, <3>2
  <2>3. CASE m \in Events /\ DoPublish(m)
    <3> DEFINE p == Packet("publish", 0, m)
               c == Packet("callback", 0, m)
               t == Append(tx_queue, p)
    <3>1. p \in OutPackets /\ c \in OutPackets /\ p.kind # "connect" /\ c.kind # "connect"
      BY PacketType, IdsType, ArgTypes DEF OutKinds, Packet
    <3>2. tx_queue' = tx_queue \o <<p, c>>
      BY <2>3, ClientAssumption DEF DoPublish, WithMarker, ClientAssumption
    <3> HIDE DEF p, c
    <3>3. tx_queue' = Append(t, c) /\ t \in Seq(OutPackets)
      BY <3>1, <3>2 DEF TypeOK
    <3>4. /\ No(tx_queue, "connect") => No(t, "connect")
          /\ First(tx_queue, "connect") => First(t, "connect")
      BY <3>1, AppendKinds DEF TypeOK
    <3> HIDE DEF t
    <3>5. /\ No(t, "connect") => No(tx_queue', "connect")
          /\ First(t, "connect") => First(tx_queue', "connect")
      BY <3>1, <3>3, AppendKinds
    <3>6. QED
      BY <1>23, <3>4, <3>5
         DEF Greeted, StreamNo, StreamFirst, PartlyNo, PartlyOne
  <2>4. QED
    BY <1>23, <2>1, <2>2, <2>3 DEF Publications
<1>24. CASE DrainPreConnect
  <2>1. Head(pre_connect_queue) \in Publications
    BY <1>24, HeadTailProperties DEF DrainPreConnect, TypeOK
  <2>2. /\ UNCHANGED <<socket, link, to_broker, to_client, partial_send, pending_pubacks>>
        /\ session' = session /\ pc = "replay" /\ state' \in {state, "failed"}
        /\ pc' \in {"replay", "idle"}
    BY <1>0, <1>24 DEF DrainPreConnect, Abort, EnterFailed
  <2>3. Greeted => Greeted'
    BY <1>23, <1>24, <2>1, <2>2 DEF DrainPreConnect
  <2>4. state \notin {"disconnected", "awaiting"}
    BY <2>2 DEF GreetInv, OneTransport
  <2>5. QED
    BY <2>2, <2>3, <2>4 DEF GreetInv
<1>25. CASE OnConnect
  BY <1>0, <1>1, <1>25 DEF OnConnect, GreetInv, Bare
<1>26. CASE ReceivePubAck
  BY <1>1, <1>17, <1>26 DEF ReceivePubAck, ContinueReading, GreetInv, Bare
<1>27. CASE ReceiveSubAck
  BY <1>1, <1>17, <1>27 DEF ReceiveSubAck, ContinueReading, GreetInv
<1>28. CASE ReceiveRejection
  BY <1>1, <1>17, <1>28 DEF ReceiveRejection, Abort, EnterFailed, GreetInv
<1>29. CASE ReceiveUnsubAck
  BY <1>1, <1>17, <1>29 DEF ReceiveUnsubAck, ContinueReading, GreetInv
<1>30. CASE ReceiveUnexpectedAck
  BY <1>1, <1>17, <1>30 DEF ReceiveUnexpectedAck, Abort, EnterFailed, GreetInv
<1>31. CASE ReceivePingResp
  BY <1>1, <1>17, <1>31 DEF ReceivePingResp, GreetInv
<1>32. CASE EndRead
  <2>1. /\ UNCHANGED <<socket, link, to_broker, to_client, partial_send>>
        /\ session' = session /\ pc \in {"recv", "dispatch"}
        /\ state' \in {state, "failed"} /\ pc' \in {"drain", "idle"}
    BY <1>0, <1>32 DEF EndRead, Abort, EnterFailed
  <2>2. state \notin {"disconnected", "awaiting"}
    BY <2>1 DEF GreetInv, OneTransport
  <2>3. link => (Greeted => Greeted')
    <3>1. CASE UNCHANGED tx_queue
      BY <1>1, <2>1, <3>1
    <3>2. CASE /\ pending_pubacks # {}
               /\ tx_queue' = <<Packet("puback", 0, pending_pubacks)>> \o tx_queue
      <4>1. link => session
        BY <2>1, <3>2 DEF GreetInv
      <4>2. /\ Packet("puback", 0, pending_pubacks) \in OutPackets
            /\ Packet("puback", 0, pending_pubacks).kind # "connect"
        BY PacketType, IdsType, ArgTypes DEF OutKinds, Packet, TypeOK
      <4>3. StreamNo("connect") => StreamNo("connect")'
        BY <2>1, <3>2, <4>2, StreamInFront
      <4>4. QED
        BY <2>1, <4>1, <4>3 DEF Greeted
    <3>3. QED
      BY <1>32, <3>1, <3>2 DEF EndRead
  <2>4. QED
    BY <2>1, <2>2, <2>3 DEF GreetInv
<1>33. CASE DrainPartial \/ \E n \in 0..Len(tx_queue) : Drain(n)
  <2>1. /\ UNCHANGED <<socket, link, to_client, state, pending_responses>>
        /\ session' = session /\ pc = "drain" /\ pc' \in {"drain", "idle"}
    BY <1>0, <1>33 DEF DrainPartial, Drain
  <2>2. link => (Greeted => Greeted')
    BY <1>33, <2>1, StreamSent DEF Greeted
  <2>3. Bare => Bare' /\ UNCHANGED to_broker
    <3>1. ASSUME Bare PROVE Bare' /\ UNCHANGED to_broker
      <4>1. PICK n \in 0..Len(tx_queue) : Drain(n)
        BY <1>33, <3>1 DEF DrainPartial, Bare
      <4>2. Rest(tx_queue, n) = <<>>
        <5>1. Len(tx_queue) = 0 /\ n = 0
          BY <3>1, EmptySeq DEF Bare
        <5>2. /\ Rest(tx_queue, n) \in Seq(OutPackets)
              /\ Len(Rest(tx_queue, n)) = 0
          <6>1. /\ Rest(tx_queue, n) \in Seq(OutPackets)
                /\ Len(Rest(tx_queue, n)) = Len(tx_queue) - n
            BY RestProperties DEF TypeOK
          <6>2. QED
            BY <5>1, <6>1
        <5>3. QED
          BY <5>2, EmptySeq
      <4>3. QED
        BY <2>1, <3>1, <4>1, <4>2 DEF Drain, Bare
    <3>2. QED
      BY <3>1
  <2>4. QED
    BY <2>1, <2>2, <2>3 DEF GreetInv
<1>34. ASSUME NEW n \in 0..Len(tx_queue), DrainFails(n) PROVE GreetInv'
  <2>1. /\ ~link /\ ~link' /\ state' = "failed" /\ pc' = "idle" /\ UNCHANGED <<socket, to_client>>
    BY <1>34 DEF DrainFails, Abort, EnterFailed
  <2>2. QED
    BY <2>1 DEF GreetInv
<1>35. CASE Connect
  <2>1. UNCHANGED <<pc, partial_send, pending_pubacks, link, to_broker, to_client>>
        /\ session' = session /\ AppTurn
    BY <1>0, <1>35 DEF Connect
  <2>2. CASE UNCHANGED <<state, transport, tx_queue, pending_responses>>
    BY <1>1, <2>1, <2>2 DEF GreetInv, Bare
  <2>3. CASE /\ state = "disconnected" /\ socket /\ UNCHANGED transport
             /\ tx_queue' = Append(tx_queue, Packet("connect", 0, None))
             /\ state' = "connecting"
    <3>1. PICK p \in OutPackets : p = Packet("connect", 0, None) /\ p.kind = "connect"
      BY PacketType, IdsType, ArgTypes DEF OutKinds, Packet
    <3>2. Bare /\ to_broker = <<>> /\ ~session /\ pc = "idle"
      BY <2>1, <2>3 DEF GreetInv, AppTurn
    <3>3. First(tx_queue', "connect")
      BY <2>3, <3>1, <3>2, AppendKinds, EmptySeq DEF Bare
    <3>4. Greeted'
      BY <2>1, <3>2, <3>3 DEF Greeted, StreamFirst, Bare
    <3>5. QED
      BY <2>1, <2>3, <3>2, <3>4 DEF GreetInv
  <2>4. CASE /\ state = "disconnected" /\ ~socket /\ state' \in {"awaiting", "failed"}
             /\ UNCHANGED <<socket, tx_queue, pending_responses>>
    BY <2>1, <2>4 DEF GreetInv, Bare
  <2>5. QED
    BY <1>35, <2>2, <2>3, <2>4 DEF Connect
<1>36. CASE Disconnect
  BY <1>36 DEF Disconnect, AppTurn, ResetTransientState, GreetInv, Bare
<1>37. CASE Hold
  BY <1>0, <1>1, <1>37 DEF Hold, GreetInv, Bare
<1>38. CASE IoError
  BY <1>0, <1>1, <1>38 DEF IoError, EnterFailed, GreetInv, OneTransport
<1>39. ASSUME NEW m \in Publications, Publish(m) PROVE GreetInv'
  <2>1. /\ UNCHANGED <<pc, state, socket, partial_send, pending_pubacks, link, to_broker,
                       to_client, pending_responses>>
        /\ session' = session
    BY <1>0, <1>39 DEF Publish
  <2>2. CASE UNCHANGED tx_queue
    BY <1>1, <2>1, <2>2 DEF GreetInv, Bare
  <2>3. CASE state = "connected" /\ (DoPublish(m) \/ DoPublishRaises(m))
    BY <1>23, <2>1, <2>3 DEF GreetInv
  <2>4. QED
    BY <1>39, <2>2, <2>3 DEF Publish
<1>40. ASSUME NEW t \in Topics, Subscribe(t) \/ Unsubscribe(t) PROVE GreetInv'
  <2>1. PICK kind \in {"subscribe", "unsubscribe"}, ack \in {"suback", "unsuback"},
             entry \in {"armed", "absent"} : Declare(kind, ack, t, entry)
    BY <1>40 DEF Subscribe, Unsubscribe
  <2>2. /\ UNCHANGED <<pc, state, socket, partial_send, pending_pubacks, link, to_broker,
                       to_client>>
        /\ session' = session
    BY <1>0, <2>1 DEF Declare
  <2>3. CASE UNCHANGED <<tx_queue, pending_responses>>
    BY <1>1, <2>2, <2>3 DEF GreetInv, Bare
  <2>4. CASE state = "connected" /\ \E i \in Ids : tx_queue' = Append(tx_queue, Packet(kind, i, t))
    <3>1. PICK i \in Ids : tx_queue' = Append(tx_queue, Packet(kind, i, t))
      BY <2>4
    <3>2. Packet(kind, i, t) \in OutPackets /\ Packet(kind, i, t).kind # "connect"
      BY PacketType, IdsType, ArgTypes DEF OutKinds, Packet
    <3>3. Greeted => Greeted'
      BY <1>2, <2>2, <3>1, <3>2
    <3>4. QED
      BY <2>2, <2>4, <3>3 DEF GreetInv
  <2>5. QED
    BY <2>1, <2>3, <2>4 DEF Declare
<1>41. QED
  BY <1>3, <1>4, <1>5, <1>6, <1>7, <1>8, <1>9, <1>10, <1>11, <1>12,
     <1>13, <1>14, <1>15, <1>16, <1>18, <1>19, <1>20, <1>21, <1>22, <1>24,
     <1>25, <1>26, <1>27, <1>28, <1>29, <1>30, <1>31, <1>32, <1>33, <1>34, <1>35, <1>36,
     <1>37, <1>38, <1>39, <1>40
     DEF Handle, Transport, Deadlines, Receive, Send, Api

LEMMA GreetBroker ==
  ASSUME TypeOK, GreetInv, Broker \/ LinkBreaks
  PROVE  GreetInv'
<1> USE DEF control, transport, intent, outbox, ids, registry, app, wire, clientVars, Take
<1>1. UNCHANGED <<pc, state, socket, tx_queue, partial_send, pending_responses, pending_pubacks>>
  BY DEF Broker, BrokerAccepts, BrokerRefuses, BrokerStores, BrokerGrants,
         BrokerUnsubscribes, BrokerPongs, BrokerAcked, BrokerCloses, BrokerPublishes, LinkBreaks
<1>2. Bare => Bare'
  BY <1>1 DEF Bare
<1>3. ASSUME to_broker # <<>>, to_broker' = Tail(to_broker)
      PROVE  /\ StreamNo("connect") => StreamNo("connect")'
             /\ StreamFirst("connect") => StreamNo("connect")'
  BY <1>1, <1>3, StreamTaken
<1>4. ASSUME ~link', state = "disconnected" /\ socket => to_broker' = <<>> /\ ~session'
      PROVE  GreetInv'
  BY <1>1, <1>2, <1>4 DEF GreetInv
<1>5. CASE BrokerAccepts
  BY <1>1, <1>2, <1>3, <1>5 DEF BrokerAccepts, Packets, Reply, GreetInv, Greeted
<1>6. CASE BrokerRefuses
  BY <1>4, <1>6 DEF BrokerRefuses, Packets, GreetInv, broker
<1>7. CASE BrokerCloses
  BY <1>4, <1>7 DEF BrokerCloses, GreetInv
<1>8. CASE LinkBreaks
  BY <1>4, <1>8 DEF LinkBreaks, GreetInv, broker
<1>9. CASE \/ BrokerStores \/ BrokerGrants \/ BrokerUnsubscribes \/ BrokerPongs \/ BrokerAcked
  <2>1. /\ to_broker # <<>> /\ to_broker' = Tail(to_broker)
        /\ session /\ session' = session /\ link' = link
    BY <1>9 DEF BrokerStores, BrokerGrants, BrokerUnsubscribes, BrokerPongs, BrokerAcked,
                Packets, Reply, broker
  <2>2. QED
    BY <1>1, <1>2, <1>3, <2>1 DEF GreetInv, Greeted
<1>10. ASSUME NEW b \in Inbound, BrokerPublishes(b) PROVE GreetInv'
  <2>1. /\ UNCHANGED <<to_broker, partial_send, tx_queue>>
        /\ session /\ session' = session /\ link' = link
    BY <1>1, <1>10 DEF BrokerPublishes
  <2>2. Greeted' <=> Greeted
    BY <2>1, StreamKept DEF Greeted
  <2>3. QED
    BY <1>1, <1>2, <2>1, <2>2 DEF GreetInv
<1>11. QED
  BY <1>5, <1>6, <1>7, <1>8, <1>9, <1>10 DEF Broker

LEMMA GreetNext ==
  ASSUME TypeOK, OneTransport, GreetInv, [SysNext]_sysvars
  PROVE  GreetInv'
<1>1. CASE Client
  BY <1>1, GreetClient DEF Client, FreeCalls, OtherCalls, Api
<1>2. CASE Broker \/ LinkBreaks
  BY <1>2, GreetBroker
<1>3. CASE UNCHANGED sysvars
  BY <1>3, StreamKept
     DEF sysvars, vars, broker, GreetInv, Greeted, Bare, control, transport, outbox, registry,
         wire
<1>4. QED
  BY <1>1, <1>2, <1>3 DEF SysNext

LEMMA GreetCorrect == SysSpec => [](TypeOK /\ OneTransport /\ GreetInv)
<1>1. SysInit => GreetInv
  BY DEF SysInit, Init, GreetInv, Bare
<1>2. QED
  BY <1>1, GreetNext, SystemIsClient, TypeCorrect, TransportCorrect, PTL DEF SysSpec

(* The parts of the stream, joined.                                         *)
LEMMA StreamJoined ==
  ASSUME TypeOK, NEW k
  PROVE  /\ StreamNo(k) => Entries(Stream, k) = {}
         /\ StreamOne(k) => \E i : Entries(Stream, k) = {i}
         /\ StreamFirst(k) => Entries(Stream, k) = {1}
<1>1. PICK a \in Seq(OutPackets) : a = to_broker
  BY DEF TypeOK
<1>2. PICK b \in Seq(OutPackets) : b = IF partial_send = None THEN <<>> ELSE <<partial_send>>
  <2>1. \A x \in OutPackets : <<x>> \in Seq(OutPackets)
    OBVIOUS
  <2>2. QED
    BY <2>1, EmptySeq DEF TypeOK
<1>3. PICK c \in Seq(OutPackets) : c = tx_queue
  BY DEF TypeOK
<1>4. /\ PartlyNo(k) => No(b, k)
      /\ PartlyOne(k) => First(b, k)
      /\ partial_send = None => b = <<>>
  BY <1>2 DEF PartlyNo, PartlyOne, No, First, One
<1>5. PICK d : d = a \o b
  OBVIOUS
<1>6. /\ d \in Seq(OutPackets)
      /\ No(a, k) /\ No(b, k) => No(d, k)
      /\ One(a, k) /\ No(b, k) => One(d, k)
      /\ No(a, k) /\ One(b, k) => One(d, k)
      /\ First(a, k) /\ No(b, k) => First(d, k)
      /\ a = <<>> => d = b
  BY <1>5, ConcatKinds
<1>7. PICK s : s = d \o c
  OBVIOUS
<1>8. /\ s \in Seq(OutPackets)
      /\ No(d, k) /\ No(c, k) => No(s, k)
      /\ One(d, k) /\ No(c, k) => One(s, k)
      /\ No(d, k) /\ One(c, k) => One(s, k)
      /\ First(d, k) /\ No(c, k) => First(s, k)
      /\ d = <<>> => s = c
  BY <1>6, <1>7, ConcatKinds
<1>9. Stream = s
  BY <1>1, <1>2, <1>3, <1>5, <1>7 DEF Stream
<1>10. StreamNo(k) => No(s, k)
  BY <1>1, <1>3, <1>4, <1>6, <1>8 DEF StreamNo
<1>11. StreamOne(k) => One(s, k)
  BY <1>1, <1>3, <1>4, <1>6, <1>8 DEF StreamOne, First
<1>12. StreamFirst(k) => First(s, k)
  <2>1. CASE First(a, k) /\ PartlyNo(k) /\ No(c, k)
    BY <1>4, <1>6, <1>8, <2>1
  <2>2. CASE a = <<>> /\ PartlyOne(k) /\ No(c, k)
    BY <1>4, <1>6, <1>8, <2>2
  <2>3. CASE a = <<>> /\ partial_send = None /\ First(c, k)
    BY <1>4, <1>6, <1>8, <2>3
  <2>4. QED
    BY <1>1, <1>3, <2>1, <2>2, <2>3 DEF StreamFirst
<1>13. QED
  BY <1>8, <1>9, <1>10, <1>11, <1>12, KindEntries

(* On every transport the broker reads CONNECT first, and only once.        *)
THEOREM ConnectComesFirst == SysSpec => []ConnectFirst
<1>1. TypeOK /\ GreetInv => ConnectFirst
  BY StreamJoined DEF GreetInv, Greeted, ConnectFirst
<1>2. QED
  BY <1>1, GreetCorrect, PTL

-----------------------------------------------------------------------------
(* PingMatchesPending.  Until the client has read the CONNACK there is no   *)
(* ping anywhere on a live transport; from then on the ping a connected     *)
(* client awaits is in exactly one place, and without one there is none.    *)

Connack == {"accepted", "resumed"}
NoConnack(q) == \A i \in 1..Len(q) : q[i].kind \notin Connack
ConnackInFront(q) == \A i \in 1..Len(q) : q[i].kind \in Connack => i = 1
Unanswered == ~session \/ (to_client # <<>> /\ to_client[1].kind \in Connack)

Silent == StreamNo("pingreq") /\ No(to_client, "pingresp")
Underway == \/ StreamOne("pingreq") /\ No(to_client, "pingresp")
            \/ StreamNo("pingreq") /\ One(to_client, "pingresp")
AwaitsPing == Awaiting("pingresp") # {}

PingInv ==
  /\ Awaiting("pingresp") \subseteq {Await("pingresp", 0, None)}
  /\ link => ConnackInFront(to_client)
  /\ link /\ Unanswered => Silent /\ ~AwaitsPing /\ state # "connected"
  /\ link /\ state = "connected" => IF AwaitsPing THEN Underway ELSE Silent

LEMMA ConnackTail ==
  ASSUME NEW S, NEW q \in Seq(S), q # <<>>, ConnackInFront(q)
  PROVE  /\ NoConnack(Tail(q)) /\ ConnackInFront(Tail(q))
         /\ ~(Tail(q) # <<>> /\ Tail(q)[1].kind \in Connack)
<1>1. PICK l \in Nat : l = Len(q)
  BY LenProperties
<1>2. PICK t : t = Tail(q)
  OBVIOUS
<1>3. /\ t \in Seq(S) /\ Len(t) = l - 1 /\ l > 0
      /\ \A i \in 1..(l - 1) : t[i] = q[i + 1]
  BY <1>1, <1>2, HeadTailProperties, EmptySeq, LenProperties
<1>4. \A i \in 1..(l - 1) : i + 1 \in 1..l /\ i + 1 # 1
  OBVIOUS
<1>5. NoConnack(t)
  BY <1>1, <1>3, <1>4 DEF ConnackInFront, NoConnack
<1>6. t # <<>> => 1 \in 1..Len(t)
  BY <1>3, EmptySeq, LenProperties
<1>7. QED
  BY <1>2, <1>5, <1>6 DEF NoConnack, ConnackInFront

LEMMA ConnackAppend ==
  ASSUME NEW S, NEW q \in Seq(S), NEW x \in S
  PROVE  /\ ConnackInFront(q) /\ x.kind \notin Connack => ConnackInFront(Append(q, x))
         /\ q = <<>> => ConnackInFront(Append(q, x)) /\ Append(q, x)[1] = x
         /\ q # <<>> => Append(q, x)[1] = q[1]
         /\ Append(q, x) # <<>>
<1>1. PICK l \in Nat : l = Len(q)
  BY LenProperties
<1>2. PICK a : a = Append(q, x)
  OBVIOUS
<1>3. /\ Len(a) = l + 1 /\ a[l + 1] = x /\ a # <<>>
      /\ \A i \in 1..l : a[i] = q[i]
      /\ (q = <<>> => l = 0) /\ (q # <<>> => l > 0)
  BY <1>1, <1>2, AppendProperties, EmptySeq
<1>4. 1..(l + 1) = 1..l \cup {l + 1}
  OBVIOUS
<1>5. ConnackInFront(q) /\ x.kind \notin Connack => ConnackInFront(a)
  BY <1>1, <1>3, <1>4 DEF ConnackInFront
<1>6. q = <<>> => a[1] = x
  BY <1>3
<1>7. q = <<>> => ConnackInFront(a)
  <2>1. l = 0 => \A i \in 1..(l + 1) : i = 1
    OBVIOUS
  <2>2. QED
    BY <1>3, <2>1 DEF ConnackInFront
<1>8. q # <<>> => a[1] = q[1]
  BY <1>3
<1>9. QED
  BY <1>2, <1>3, <1>5, <1>6, <1>7, <1>8

(* A step of the client that reads nothing, sends no ping and answers none. *)
LEMMA PingMoved ==
  ASSUME PingInv, session' = session, link' => link, UNCHANGED to_client,
         Awaiting("pingresp")' \subseteq Awaiting("pingresp"),
         \/ state' # "connected"
         \/ state' = state /\ Awaiting("pingresp")' = Awaiting("pingresp"),
         link' => /\ StreamNo("pingreq") => StreamNo("pingreq")'
                  /\ StreamOne("pingreq") => StreamOne("pingreq")'
  PROVE  PingInv'
<1>1. Awaiting("pingresp")' \subseteq {Await("pingresp", 0, None)}
  BY DEF PingInv
<1>2. Unanswered' = Unanswered
  BY DEF Unanswered
<1>3. link' => (Silent => Silent') /\ (Underway => Underway')
  BY DEF Silent, Underway
<1>4. AwaitsPing' => AwaitsPing
  BY DEF AwaitsPing
<1>5. link' /\ Unanswered' => Silent' /\ ~AwaitsPing' /\ state' # "connected"
  BY <1>2, <1>3, <1>4 DEF PingInv
<1>6. ASSUME link', state' = "connected" PROVE IF AwaitsPing' THEN Underway' ELSE Silent'
  <2>1. state = "connected" /\ (AwaitsPing' <=> AwaitsPing)
    BY <1>6 DEF AwaitsPing
  <2>2. QED
    BY <1>3, <1>6, <2>1 DEF PingInv
<1>7. link' => ConnackInFront(to_client)'
  BY DEF PingInv, ConnackInFront
<1>8. QED
  BY <1>1, <1>5, <1>6, <1>7 DEF PingInv

LEMMA PingKept ==
  ASSUME PingInv, session' = session, link' => link,
         UNCHANGED <<to_client, to_broker, partial_send, tx_queue>>,
         Awaiting("pingresp")' \subseteq Awaiting("pingresp"),
         \/ state' # "connected"
         \/ state' = state /\ Awaiting("pingresp")' = Awaiting("pingresp")
  PROVE  PingInv'
  BY PingMoved, StreamKept

LEMMA PingQueued ==
  ASSUME TypeOK, PingInv, session' = session, link' => link,
         UNCHANGED <<to_client, to_broker, partial_send>>,
         NEW p \in OutPackets, p.kind # "pingreq", tx_queue' = Append(tx_queue, p),
         Awaiting("pingresp")' \subseteq Awaiting("pingresp"),
         \/ state' # "connected"
         \/ state' = state /\ Awaiting("pingresp")' = Awaiting("pingresp")
  PROVE  PingInv'
  BY PingMoved, StreamEnqueued

(* A step that reads a packet which is no answer to a ping.                 *)
LEMMA PingRead ==
  ASSUME TypeOK, GreetInv, PingInv, session' = session, NEW kinds, Incoming(kinds),
         Head(to_client).kind # "pingresp",
         UNCHANGED <<partial_send, tx_queue>>,
         Awaiting("pingresp")' = Awaiting("pingresp"),
         \/ state' # "connected"
         \/ state' = state
         \/ Head(to_client).kind \in Connack
  PROVE  PingInv'
<1>1. /\ UNCHANGED <<to_broker, link>> /\ to_client # <<>> /\ to_client' = Tail(to_client)
      /\ to_client \in Seq(WellFormedPackets)
  BY DEF Incoming, TypeOK
<1>2. PICK q : q = to_client
  OBVIOUS
<1>3. PICK t : t = Tail(q)
  OBVIOUS
<1>4. /\ No(q, "pingresp") => No(t, "pingresp")
      /\ One(q, "pingresp") => One(t, "pingresp")
      /\ Head(q) = q[1]
  BY <1>1, <1>2, <1>3, TailKinds, HeadTailProperties
<1>5. (Silent => Silent') /\ (Underway => Underway')
  BY <1>1, <1>2, <1>3, <1>4, StreamKept DEF Silent, Underway
<1>6. link => /\ ConnackInFront(t)
              /\ ~(t # <<>> /\ t[1].kind \in Connack)
  BY <1>1, <1>2, <1>3, ConnackTail DEF PingInv
<1>7. link => session /\ ~Unanswered'
  BY <1>1, <1>2, <1>3, <1>6 DEF GreetInv, Unanswered
<1>8. Awaiting("pingresp")' \subseteq {Await("pingresp", 0, None)} /\ (AwaitsPing' <=> AwaitsPing)
  BY DEF PingInv, AwaitsPing
<1>9. link /\ Head(q).kind \in Connack => Silent /\ ~AwaitsPing
  BY <1>1, <1>2, <1>4 DEF PingInv, Unanswered
<1>10. ASSUME link, state' = "connected" PROVE IF AwaitsPing' THEN Underway' ELSE Silent'
  BY <1>2, <1>5, <1>8, <1>9, <1>10 DEF PingInv
<1>11. link' => ConnackInFront(to_client)'
  BY <1>1, <1>2, <1>3, <1>6 DEF ConnackInFront
<1>12. QED
  BY <1>1, <1>7, <1>8, <1>10, <1>11 DEF PingInv

LEMMA PingPublish ==
  ASSUME TypeOK, PingInv, session' = session, link' => link,
         UNCHANGED <<to_client, to_broker, partial_send, pending_responses>>,
         NEW m \in Publications, DoPublish(m) \/ DoPublishRaises(m),
         state' \in {state, "failed"}
  PROVE  PingInv'
<1>1. Awaiting("pingresp")' = Awaiting("pingresp")
  BY DEF Awaiting
<1>2. CASE DoPublishRaises(m)
  BY <1>1, <1>2, PingKept DEF DoPublishRaises
<1>3. CASE m \in Messages /\ DoPublish(m)
  <2>1. PICK i \in Ids : tx_queue' = Append(tx_queue, Packet("publish", i, m))
    BY <1>3, ClientAssumption DEF DoPublish, ClientAssumption
  <2>2. Packet("publish", i, m) \in OutPackets /\ Packet("publish", i, m).kind # "pingreq"
    BY PacketType, IdsType, ArgTypes DEF OutKinds, Packet
  <2>3. QED
    BY <1>1, <2>1, <2>2, PingQueued
<1>4. CASE m \in Events /\ DoPublish(m)
  <2> DEFINE p == Packet("publish", 0, m)
             c == Packet("callback", 0, m)
             t == Append(tx_queue, p)
  <2>1. p \in OutPackets /\ c \in OutPackets /\ p.kind # "pingreq" /\ c.kind # "pingreq"
    BY PacketType, IdsType, ArgTypes DEF OutKinds, Packet
  <2>2. tx_queue' = tx_queue \o <<p, c>>
    BY <1>4, ClientAssumption DEF DoPublish, WithMarker, ClientAssumption
  <2> HIDE DEF p, c
  <2>3. tx_queue' = Append(t, c) /\ t \in Seq(OutPackets)
    BY <2>1, <2>2 DEF TypeOK
  <2>4. /\ No(tx_queue, "pingreq") => No(t, "pingreq")
        /\ One(tx_queue, "pingreq") => One(t, "pingreq")
    BY <2>1, AppendKinds DEF TypeOK
  <2> HIDE DEF t
  <2>5. /\ No(t, "pingreq") => No(tx_queue', "pingreq")
        /\ One(t, "pingreq") => One(tx_queue', "pingreq")
    BY <2>1, <2>3, AppendKinds
  <2>6. /\ StreamNo("pingreq") => StreamNo("pingreq")'
        /\ StreamOne("pingreq") => StreamOne("pingreq")'
    BY <2>4, <2>5 DEF StreamNo, StreamOne, PartlyNo, PartlyOne
  <2>7. QED
    BY <1>1, <2>6, PingMoved
<1>5. QED
  BY <1>2, <1>3, <1>4 DEF Publications

LEMMA PingClient ==
  ASSUME TypeOK, OneTransport, GreetInv, PingInv, Handle \/ Api, NewTransport
  PROVE  PingInv'
<1> USE DEF control, transport, intent, outbox, ids, registry, app, wire
<1>0. ~(link' /\ ~link) => session' = session
  BY DEF NewTransport
<1>1. UNCHANGED pending_responses => Awaiting("pingresp")' = Awaiting("pingresp")
  BY DEF Awaiting
<1>2. \A kind \in {"connack", "suback", "unsuback"} :
        /\ \A i, t : Awaiting("pingresp")' = Awaiting("pingresp")
                     \/ pending_responses' # pending_responses \cup {Await(kind, i, t)}
        /\ \A S : S \subseteq Awaiting(kind) /\ pending_responses' = pending_responses \ S
                  => Awaiting("pingresp")' = Awaiting("pingresp")
  BY DEF Awaiting, Await
<1>3. CASE SelfHeal \/ Disconnect
  <2>1. ~link' /\ pending_responses' = {}
    BY <1>3 DEF SelfHeal, Disconnect, ResetTransientState
  <2>2. QED
    BY <2>1 DEF PingInv, Awaiting
<1>4. CASE TransportLost
  BY <1>0, <1>1, <1>4, PingKept DEF TransportLost, EnterFailed
<1>5. CASE TransportPending
  BY <1>0, <1>1, <1>5, PingKept DEF TransportPending
<1>6. CASE TransportReady
  <2>1. Bare /\ to_broker' = <<>> /\ to_client' = <<>>
    BY <1>6 DEF TransportReady, GreetInv
  <2>2. /\ Packet("connect", 0, None) \in OutPackets
        /\ Packet("connect", 0, None).kind # "pingreq"
    BY PacketType, IdsType, ArgTypes DEF OutKinds, Packet
  <2>3. No(tx_queue', "pingreq")
    <3>1. No(tx_queue, "pingreq")
      BY <2>1, NoEmpty DEF Bare
    <3>2. tx_queue' = Append(tx_queue, Packet("connect", 0, None))
      BY <1>6 DEF TransportReady
    <3>3. QED
      BY <2>2, <3>1, <3>2, AppendKinds DEF TypeOK
  <2>4. Silent'
    BY <1>6, <2>1, <2>3, NoEmpty DEF TransportReady, Silent, StreamNo, PartlyNo, Bare
  <2>5. Awaiting("pingresp")' = {}
    BY <1>6, <2>1 DEF TransportReady, Bare, Awaiting, Await
  <2>6. ConnackInFront(to_client)'
    BY <2>1, EmptySeq DEF ConnackInFront
  <2>7. QED
    BY <1>6, <2>4, <2>5, <2>6 DEF TransportReady, PingInv, AwaitsPing
<1>7. CASE Begin
  BY <1>0, <1>1, <1>7, PingKept DEF Begin
<1>8. ASSUME NEW i \in Ids, Retransmit(i) PROVE PingInv'
  <2>1. PICK p \in OutPackets : p = Packet("publish", i, in_flight[i].msg) /\ p.kind # "pingreq"
    BY <1>8, InFlightType, PacketType, IdsType, ArgTypes
       DEF Retransmit, OutKinds, Packet, Publications
  <2>2. QED
    BY <1>0, <1>1, <1>8, <2>1, PingQueued DEF Retransmit
<1>9. ASSUME NEW i \in Ids, RetriesExhausted(i) PROVE PingInv'
  BY <1>0, <1>1, <1>9, PingKept DEF RetriesExhausted, EnterFailed
<1>10. ASSUME NEW p \in pending_responses, AckTimeout(p) PROVE PingInv'
  <2>1. Awaiting("pingresp")' \subseteq Awaiting("pingresp")
    BY <1>10 DEF AckTimeout, Awaiting
  <2>2. QED
    BY <1>0, <1>10, <2>1, PingKept DEF AckTimeout, EnterFailed
<1>11. CASE SendTimeout
  BY <1>0, <1>1, <1>11, PingKept DEF SendTimeout, EnterFailed
<1>12. CASE DeadlinesDone
  BY <1>0, <1>1, <1>12, PingKept DEF DeadlinesDone
<1>13. CASE SendPing
  <2>1. PICK p \in OutPackets : p = Packet("pingreq", 0, None) /\ p.kind = "pingreq"
    BY PacketType, IdsType, ArgTypes DEF OutKinds, Packet
  <2>2. /\ UNCHANGED <<state, link, to_client, to_broker, partial_send>>
        /\ session' = session /\ state = "connected" /\ ~AwaitsPing
    BY <1>0, <1>13 DEF SendPing, PingDue, AwaitsPing
  <2>3. StreamNo("pingreq") => StreamOne("pingreq")'
    BY <1>13, <2>1, <2>2, StreamEnqueued DEF SendPing
  <2>4. Silent => Underway'
    BY <2>2, <2>3 DEF Silent, Underway
  <2>5. Awaiting("pingresp")' = {Await("pingresp", 0, None)}
    BY <1>13, <2>2 DEF SendPing, Awaiting, Await, AwaitsPing
  <2>6. Unanswered' = Unanswered /\ (ConnackInFront(to_client)' <=> ConnackInFront(to_client))
    BY <2>2 DEF Unanswered, ConnackInFront
  <2>7. QED
    BY <2>2, <2>4, <2>5, <2>6 DEF PingInv, AwaitsPing
<1>14. CASE NoPing
  BY <1>0, <1>1, <1>14, PingKept DEF NoPing
<1>15. CASE ReadSuppressed
  BY <1>0, <1>1, <1>15, PingKept DEF ReadSuppressed
<1>16. CASE ReadFails
  BY <1>0, <1>1, <1>16, PingKept DEF ReadFails, Abort, EnterFailed
<1>17. ASSUME NEW kinds, Incoming(kinds)
       PROVE  session' = session /\ link' = link /\ Head(to_client).kind \in kinds
  BY <1>0, <1>17 DEF Incoming
<1>18. CASE ReceivePublish
  BY <1>1, <1>17, <1>18, PingRead DEF ReceivePublish
<1>19. CASE ReceiveTooLarge
  BY <1>1, <1>17, <1>19, PingRead DEF ReceiveTooLarge, Abort, EnterFailed
<1>20. CASE ReceiveRefusal
  <2>1. Awaiting("pingresp")' = Awaiting("pingresp")
    BY <1>2, <1>20 DEF ReceiveRefusal
  <2>2. QED
    BY <1>17, <1>20, <2>1, PingRead DEF ReceiveRefusal, EnterFailed
<1>21. CASE ReceiveAccept
  <2>1. Awaiting("pingresp")' = Awaiting("pingresp")
    BY <1>2, <1>21 DEF ReceiveAccept
  <2>2. QED
    BY <1>17, <1>21, <2>1, PingRead DEF ReceiveAccept, Connack
<1>22. ASSUME NEW t \in Topics, ReplaySubscription(t) PROVE PingInv'
  <2>1. PICK i \in Ids :
          /\ tx_queue' = IF InternalRoom THEN Append(tx_queue, Packet("subscribe", i, t))
                                         ELSE tx_queue
          /\ pending_responses' = pending_responses \cup {Await("suback", i, t)}
    BY <1>22 DEF ReplaySubscription
  <2>2. PICK p \in OutPackets : p = Packet("subscribe", i, t) /\ p.kind # "pingreq"
    BY PacketType, IdsType, ArgTypes DEF OutKinds, Packet
  <2>3. UNCHANGED <<state, link, to_broker, to_client, partial_send>> /\ session' = session
    BY <1>0, <1>22 DEF ReplaySubscription
  <2>4. Awaiting("pingresp")' = Awaiting("pingresp")
    BY <1>2, <2>1
  <2>5. QED
    BY <2>1, <2>2, <2>3, <2>4, PingKept, PingQueued
<1>23. CASE DrainPreConnect
  <2>1. Head(pre_connect_queue) \in Publications
    BY <1>23, HeadTailProperties DEF DrainPreConnect, TypeOK
  <2>2. /\ UNCHANGED <<link, to_broker, to_client, partial_send, pending_responses>>
        /\ session' = session /\ state' \in {state, "failed"}
    BY <1>0, <1>23 DEF DrainPreConnect, Abort, EnterFailed
  <2>3. QED
    BY <1>23, <2>1, <2>2, PingPublish DEF DrainPreConnect
<1>24. CASE OnConnect
  BY <1>0, <1>1, <1>24, PingKept DEF OnConnect
<1>25. CASE ReceivePubAck
  BY <1>1, <1>17, <1>25, PingRead DEF ReceivePubAck
<1>26. CASE ReceiveSubAck
  <2>1. Awaiting("pingresp")' = Awaiting("pingresp")
    <3>1. PICK p \in Awaiting("suback") : pending_responses' = pending_responses \ {p}
      BY <1>26 DEF ReceiveSubAck
    <3>2. QED
      BY <1>2, <3>1
  <2>2. QED
    BY <1>17, <1>26, <2>1, PingRead DEF ReceiveSubAck
<1>27. CASE ReceiveRejection
  BY <1>1, <1>17, <1>27, PingRead DEF ReceiveRejection, Abort, EnterFailed
<1>28. CASE ReceiveUnsubAck
  <2>1. Awaiting("pingresp")' = Awaiting("pingresp")
    <3>1. PICK p \in Awaiting("unsuback") : pending_responses' = pending_responses \ {p}
      BY <1>28 DEF ReceiveUnsubAck
    <3>2. QED
      BY <1>2, <3>1
  <2>2. QED
    BY <1>17, <1>28, <2>1, PingRead DEF ReceiveUnsubAck
<1>29. CASE ReceiveUnexpectedAck
  BY <1>1, <1>17, <1>29, PingRead DEF ReceiveUnexpectedAck, Abort, EnterFailed
<1>30. CASE ReceivePingResp
  <2>1. /\ UNCHANGED <<state, link, to_broker, partial_send, tx_queue>> /\ session' = session
        /\ to_client # <<>> /\ Head(to_client).kind = "pingresp"
        /\ to_client' = Tail(to_client)
        /\ pending_responses' = pending_responses \ Awaiting("pingresp")
    BY <1>17, <1>30 DEF ReceivePingResp, Incoming
  <2>2. Awaiting("pingresp")' = {}
    BY <2>1 DEF Awaiting
  <2>3. PICK q \in Seq(WellFormedPackets) : q = to_client
    BY DEF TypeOK
  <2>4. PICK t : t = Tail(q)
    OBVIOUS
  <2>5. /\ ~No(q, "pingresp")
        /\ One(q, "pingresp") => No(t, "pingresp")
        /\ Head(q) = q[1]
    BY <2>1, <2>3, <2>4, TailKinds, HeadTailProperties
  <2>6. link => /\ ConnackInFront(t)
                /\ ~(t # <<>> /\ t[1].kind \in Connack)
    BY <2>1, <2>3, <2>4, ConnackTail DEF PingInv
  <2>7. link => ~Unanswered'
    BY <2>1, <2>3, <2>4, <2>6 DEF GreetInv, Unanswered
  <2>8. ASSUME link, state = "connected" PROVE Silent'
    <3>1. Underway
      BY <2>3, <2>5, <2>8 DEF PingInv, Silent
    <3>2. StreamNo("pingreq") /\ One(q, "pingresp")
      BY <2>3, <2>5, <3>1 DEF Underway
    <3>3. QED
      BY <2>1, <2>3, <2>4, <2>5, <3>2, StreamKept DEF Silent
  <2>9. link' => ConnackInFront(to_client)'
    BY <2>1, <2>3, <2>4, <2>6 DEF ConnackInFront
  <2>10. QED
    BY <2>1, <2>2, <2>7, <2>8, <2>9 DEF PingInv, AwaitsPing
<1>31. CASE EndRead
  <2>1. /\ UNCHANGED <<link, to_broker, to_client, partial_send, pending_responses>>
        /\ session' = session /\ state' \in {state, "failed"}
    BY <1>0, <1>31 DEF EndRead, Abort, EnterFailed
  <2>2. CASE UNCHANGED tx_queue
    BY <1>1, <2>1, <2>2, PingKept
  <2>3. CASE tx_queue' = <<Packet("puback", 0, pending_pubacks)>> \o tx_queue
    <3>1. /\ Packet("puback", 0, pending_pubacks) \in OutPackets
          /\ Packet("puback", 0, pending_pubacks).kind # "pingreq"
      BY PacketType, IdsType, ArgTypes DEF OutKinds, Packet, TypeOK
    <3>2. /\ StreamNo("pingreq") => StreamNo("pingreq")'
          /\ StreamOne("pingreq") => StreamOne("pingreq")'
      BY <2>1, <2>3, <3>1, StreamInFront
    <3>3. QED
      BY <1>1, <2>1, <3>2, PingMoved
  <2>4. QED
    BY <1>31, <2>2, <2>3 DEF EndRead
<1>32. CASE DrainPartial \/ \E n \in 0..Len(tx_queue) : Drain(n)
  <2>1. /\ UNCHANGED <<link, to_client, state, pending_responses>> /\ session' = session
    BY <1>0, <1>32 DEF DrainPartial, Drain
  <2>2. link => /\ StreamNo("pingreq") => StreamNo("pingreq")'
                /\ StreamOne("pingreq") => StreamOne("pingreq")'
    BY <1>32, StreamSent
  <2>3. QED
    BY <1>1, <2>1, <2>2, PingMoved
<1>33. ASSUME NEW n \in 0..Len(tx_queue), DrainFails(n) PROVE PingInv'
  <2>1. ~link' /\ UNCHANGED pending_responses
    BY <1>33 DEF DrainFails
  <2>2. QED
    BY <1>1, <2>1 DEF PingInv
<1>34. CASE Connect
  <2>1. UNCHANGED <<link, to_client, to_broker, partial_send>> /\ session' = session
    BY <1>0, <1>34 DEF Connect
  <2>2. CASE UNCHANGED <<tx_queue, pending_responses>> /\ state' \in {state, "awaiting", "failed"}
    BY <1>1, <2>1, <2>2, PingKept
  <2>3. CASE /\ tx_queue' = Append(tx_queue, Packet("connect", 0, None))
             /\ pending_responses' = pending_responses \cup {Await("connack", 0, None)}
             /\ state' = "connecting"
    <3>1. PICK p \in OutPackets : p = Packet("connect", 0, None) /\ p.kind # "pingreq"
      BY PacketType, IdsType, ArgTypes DEF OutKinds, Packet
    <3>2. Awaiting("pingresp")' = Awaiting("pingresp")
      BY <1>2, <2>3
    <3>3. QED
      BY <2>1, <2>3, <3>1, <3>2, PingQueued
  <2>4. QED
    BY <1>34, <2>2, <2>3 DEF Connect
<1>35. CASE Hold
  BY <1>0, <1>1, <1>35, PingKept DEF Hold
<1>36. CASE IoError
  BY <1>0, <1>1, <1>36, PingKept DEF IoError, EnterFailed
<1>37. ASSUME NEW m \in Publications, Publish(m) PROVE PingInv'
  <2>1. /\ UNCHANGED <<state, partial_send, link, to_broker, to_client, pending_responses>>
        /\ session' = session
    BY <1>0, <1>37 DEF Publish
  <2>2. CASE UNCHANGED tx_queue
    BY <1>1, <2>1, <2>2, PingKept
  <2>3. CASE DoPublish(m) \/ DoPublishRaises(m)
    BY <2>1, <2>3, PingPublish
  <2>4. QED
    BY <1>37, <2>2, <2>3 DEF Publish
<1>38. ASSUME NEW t \in Topics, Subscribe(t) \/ Unsubscribe(t) PROVE PingInv'
  <2>1. PICK kind \in {"subscribe", "unsubscribe"}, ack \in {"suback", "unsuback"},
             entry \in {"armed", "absent"} : Declare(kind, ack, t, entry)
    BY <1>38 DEF Subscribe, Unsubscribe
  <2>2. UNCHANGED <<state, partial_send, link, to_broker, to_client>> /\ session' = session
    BY <1>0, <2>1 DEF Declare
  <2>3. CASE UNCHANGED <<tx_queue, pending_responses>>
    BY <1>1, <2>2, <2>3, PingKept
  <2>4. CASE \E i \in Ids : /\ tx_queue' = Append(tx_queue, Packet(kind, i, t))
                            /\ pending_responses' = pending_responses \cup {Await(ack, i, t)}
    <3>1. PICK i \in Ids : /\ tx_queue' = Append(tx_queue, Packet(kind, i, t))
                           /\ pending_responses' = pending_responses \cup {Await(ack, i, t)}
      BY <2>4
    <3>2. PICK p \in OutPackets : p = Packet(kind, i, t) /\ p.kind # "pingreq"
      BY PacketType, IdsType, ArgTypes DEF OutKinds, Packet
    <3>3. Awaiting("pingresp")' = Awaiting("pingresp")
      BY <1>2, <3>1
    <3>4. QED
      BY <2>2, <3>1, <3>2, <3>3, PingQueued
  <2>5. QED
    BY <2>1, <2>3, <2>4 DEF Declare
<1>39. QED
  BY <1>3, <1>4, <1>5, <1>6, <1>7, <1>8, <1>9, <1>10, <1>11, <1>12,
     <1>13, <1>14, <1>15, <1>16, <1>18, <1>19, <1>20, <1>21, <1>22, <1>23, <1>24,
     <1>25, <1>26, <1>27, <1>28, <1>29, <1>30, <1>31, <1>32, <1>33, <1>34, <1>35, <1>36,
     <1>37, <1>38
     DEF Handle, Transport, Deadlines, Receive, Send, Api

LEMMA PingBroker ==
  ASSUME TypeOK, GreetInv, PingInv, Broker \/ LinkBreaks
  PROVE  PingInv'
<1> USE DEF control, transport, intent, outbox, ids, registry, app, wire, clientVars, Take
<1>1. UNCHANGED <<state, tx_queue, partial_send, pending_responses>>
  BY DEF Broker, BrokerAccepts, BrokerRefuses, BrokerStores, BrokerGrants,
         BrokerUnsubscribes, BrokerPongs, BrokerAcked, BrokerCloses, BrokerPublishes, LinkBreaks
<1>2. Awaiting("pingresp")' = Awaiting("pingresp") /\ (AwaitsPing' <=> AwaitsPing)
  BY <1>1 DEF Awaiting, AwaitsPing
<1>3. ASSUME ~link' PROVE PingInv'
  BY <1>2, <1>3 DEF PingInv
<1>4. ASSUME to_broker # <<>>, to_broker' = Tail(to_broker)
      PROVE  /\ StreamNo("pingreq") => Head(to_broker).kind # "pingreq" /\ StreamNo("pingreq")'
             /\ StreamOne("pingreq") =>
                  IF Head(to_broker).kind = "pingreq" THEN StreamNo("pingreq")'
                                                      ELSE StreamOne("pingreq")'
  BY <1>1, <1>4, StreamTaken
<1>5. PICK q \in Seq(InPackets) : q = to_client
  <2>1. WellFormedPackets \subseteq InPackets
    BY IdsType DEF WellFormedPackets, AckPackets, InPackets, InKinds
  <2>2. to_client \in Seq(InPackets)
    BY <2>1 DEF TypeOK
  <2>3. QED
    BY <2>2
<1>6. ASSUME link', link, session, session' = session,
             \/ to_client' = to_client
             \/ \E x \in InPackets : /\ x.kind \notin Connack \cup {"pingresp"}
                                     /\ to_client' = Append(to_client, x),
             StreamNo("pingreq") => StreamNo("pingreq")',
             StreamOne("pingreq") => StreamOne("pingreq")'
      PROVE  PingInv'
  <2>1. /\ No(to_client, "pingresp") => No(to_client', "pingresp")
        /\ One(to_client, "pingresp") => One(to_client', "pingresp")
        /\ ConnackInFront(to_client) => ConnackInFront(to_client')
        /\ Unanswered' => Unanswered
    <3>1. CASE to_client' = to_client
      BY <1>6, <3>1 DEF Unanswered
    <3>2. ASSUME NEW x \in InPackets, x.kind \notin Connack \cup {"pingresp"},
                 to_client' = Append(to_client, x)
          PROVE  /\ No(to_client, "pingresp") => No(to_client', "pingresp")
                 /\ One(to_client, "pingresp") => One(to_client', "pingresp")
                 /\ ConnackInFront(to_client) => ConnackInFront(to_client')
                 /\ Unanswered' => Unanswered
      <4>1. /\ No(q, "pingresp") => No(Append(q, x), "pingresp")
            /\ One(q, "pingresp") => One(Append(q, x), "pingresp")
        BY <3>2, AppendKinds
      <4>2. /\ ConnackInFront(q) => ConnackInFront(Append(q, x))
            /\ q = <<>> => Append(q, x)[1] = x
            /\ q # <<>> => Append(q, x)[1] = q[1]
        BY <3>2, ConnackAppend
      <4>3. Unanswered' => Unanswered
        BY <1>5, <1>6, <3>2, <4>2 DEF Unanswered
      <4>4. QED
        BY <1>5, <3>2, <4>1, <4>2, <4>3
    <3>3. QED
      BY <1>6, <3>1, <3>2
  <2>2. (Silent => Silent') /\ (Underway => Underway')
    BY <1>6, <2>1 DEF Silent, Underway
  <2>3. link' => ConnackInFront(to_client)'
    BY <1>6, <2>1 DEF PingInv, ConnackInFront
  <2>4. QED
    BY <1>1, <1>2, <1>6, <2>1, <2>2, <2>3 DEF PingInv
<1>7. \A k \in InKinds, id \in 0..MaxPacketId, a \in Inbound \cup {None} :
        Packet(k, id, a) \in InPackets /\ Packet(k, id, a).kind = k
  BY DEF Packet, InPackets
<1>8. 0 \in 0..MaxPacketId /\ (to_broker # <<>> => Head(to_broker).id \in 0..MaxPacketId)
  BY IdsType, HeadType
<1>9. CASE BrokerAccepts
  <2>1. /\ to_broker # <<>> /\ to_broker' = Tail(to_broker) /\ ~session /\ link' = link
    BY <1>9 DEF BrokerAccepts, Packets, Reply
  <2>2. CASE link
    <3>1. q = <<>> /\ Silent /\ ~AwaitsPing /\ state # "connected"
      BY <1>5, <2>1, <2>2 DEF GreetInv, PingInv, Unanswered
    <3>2. PICK x \in InPackets : x.kind \in Connack /\ to_client' = Append(q, x)
      <4>1. \A k \in {"accepted", "resumed"} :
              Packet(k, 0, None) \in InPackets /\ Packet(k, 0, None).kind = k
        BY <1>7, <1>8 DEF InKinds
      <4>2. \A k \in {"accepted", "resumed"} : Reply(k, 0) =>
              to_client' = Append(q, Packet(k, 0, None))
        BY <1>5, <2>2 DEF Reply
      <4>3. Reply("resumed", 0) \/ Reply("accepted", 0)
        BY <1>9 DEF BrokerAccepts
      <4>4. QED
        BY <4>1, <4>2, <4>3 DEF Connack
    <3>3. ConnackInFront(to_client)'
      BY <3>1, <3>2, ConnackAppend DEF ConnackInFront
    <3>4. No(to_client', "pingresp")
      <4>1. No(q, "pingresp") /\ x.kind # "pingresp"
        BY <1>5, <3>1, <3>2 DEF Silent, Connack
      <4>2. No(Append(q, x), "pingresp")
        BY <3>2, <4>1, AppendKinds
      <4>3. QED
        BY <3>2, <4>2
    <3>5. Silent'
      BY <1>4, <2>1, <3>1, <3>4 DEF Silent
    <3>6. QED
      BY <1>1, <1>2, <3>1, <3>3, <3>5 DEF PingInv
  <2>3. QED
    BY <1>3, <2>1, <2>2
<1>10. CASE BrokerRefuses \/ BrokerCloses \/ LinkBreaks
  BY <1>3, <1>10 DEF BrokerRefuses, BrokerCloses, LinkBreaks
<1>11. CASE \/ BrokerStores \/ BrokerGrants \/ BrokerUnsubscribes \/ BrokerAcked
  <2>1. /\ to_broker # <<>> /\ to_broker' = Tail(to_broker)
        /\ session /\ session' = session /\ link' = link
        /\ Head(to_broker).kind # "pingreq"
    BY <1>11 DEF BrokerStores, BrokerGrants, BrokerUnsubscribes, BrokerAcked, Packets, Reply
  <2>2. link => \/ to_client' = to_client
                \/ \E x \in InPackets : /\ x.kind \notin Connack \cup {"pingresp"}
                                        /\ to_client' = Append(to_client, x)
    <3>1. \A k \in {"puback", "suback", "rejected", "unsuback"} :
            link /\ Reply(k, Head(to_broker).id) =>
              \E x \in InPackets : /\ x.kind \notin Connack \cup {"pingresp"}
                                   /\ to_client' = Append(to_client, x)
      BY <1>7, <1>8, <2>1 DEF Reply, InKinds, Connack
    <3>2. QED
      BY <1>11, <3>1 DEF BrokerStores, BrokerGrants, BrokerUnsubscribes, BrokerAcked
  <2>3. QED
    BY <1>3, <1>4, <1>6, <2>1, <2>2
<1>12. CASE BrokerPongs
  <2>1. /\ to_broker # <<>> /\ to_broker' = Tail(to_broker)
        /\ session /\ session' = session /\ link' = link
        /\ Head(to_broker).kind = "pingreq"
    BY <1>12 DEF BrokerPongs, Packets, Reply, broker
  <2>2. CASE link
    <3>1. PICK x \in InPackets : x.kind = "pingresp" /\ to_client' = Append(q, x)
      BY <1>5, <1>7, <1>8, <1>12, <2>2 DEF BrokerPongs, Reply, InKinds
    <3>2. ~Silent
      BY <1>4, <2>1 DEF Silent
    <3>3. ~Unanswered
      BY <2>2, <3>2 DEF PingInv
    <3>4. ConnackInFront(to_client)'
      BY <1>5, <2>2, <3>1, ConnackAppend DEF PingInv, ConnackInFront, Connack
    <3>5. ~Unanswered'
      <4>1. /\ q = <<>> => Append(q, x)[1] = x
            /\ q # <<>> => Append(q, x)[1] = q[1]
        BY ConnackAppend
      <4>2. QED
        BY <1>5, <2>1, <3>1, <3>3, <4>1 DEF Unanswered, Connack
    <3>6. ASSUME state = "connected" PROVE AwaitsPing /\ Underway'
      <4>1. AwaitsPing /\ Underway
        BY <2>2, <3>2, <3>6 DEF PingInv
      <4>2. StreamOne("pingreq") /\ No(q, "pingresp")
        BY <1>4, <1>5, <2>1, <4>1 DEF Underway
      <4>3. One(to_client', "pingresp")
        BY <3>1, <4>2, AppendKinds
      <4>4. QED
        BY <1>4, <2>1, <4>1, <4>2, <4>3 DEF Underway
    <3>7. QED
      BY <1>1, <1>2, <3>4, <3>5, <3>6 DEF PingInv
  <2>3. QED
    BY <1>3, <2>1, <2>2
<1>13. ASSUME NEW b \in Inbound, BrokerPublishes(b) PROVE PingInv'
  <2>1. /\ UNCHANGED <<to_broker, partial_send, tx_queue>>
        /\ session /\ session' = session /\ link' = link
        /\ to_client' = Append(to_client, Packet("publish", 0, b))
    BY <1>1, <1>13 DEF BrokerPublishes
  <2>2. \E x \in InPackets : /\ x.kind \notin Connack \cup {"pingresp"}
                             /\ to_client' = Append(to_client, x)
    BY <1>7, <1>8, <2>1 DEF InKinds, Connack
  <2>3. QED
    BY <1>3, <1>6, <2>1, <2>2, StreamKept
<1>14. QED
  BY <1>9, <1>10, <1>11, <1>12, <1>13 DEF Broker

LEMMA PingNext ==
  ASSUME TypeOK, OneTransport, GreetInv, PingInv, [SysNext]_sysvars
  PROVE  PingInv'
<1>1. CASE Client
  BY <1>1, PingClient DEF Client, FreeCalls, OtherCalls, Api
<1>2. CASE Broker \/ LinkBreaks
  BY <1>2, PingBroker
<1>3. CASE UNCHANGED sysvars
  <2>1. Awaiting("pingresp")' = Awaiting("pingresp")
    BY <1>3 DEF sysvars, vars, registry, Awaiting
  <2>2. QED
    BY <1>3, <2>1, PingKept DEF sysvars, vars, broker, outbox, wire
<1>4. QED
  BY <1>1, <1>2, <1>3 DEF SysNext

(* A connected client awaits an answer exactly while its one PINGREQ, or    *)
(* the answer to it, is under way.                                          *)
THEOREM PingIsMatched == SysSpec => []PingMatchesPending
<1>1. SysInit => PingInv
  <2> SUFFICES ASSUME SysInit PROVE PingInv
    OBVIOUS
  <2>1. to_broker = <<>> /\ to_client = <<>> /\ tx_queue = <<>> /\ partial_send = None
        /\ pending_responses = {} /\ state = "disconnected"
    BY DEF SysInit, Init
  <2>2. Silent
    BY <2>1, NoEmpty DEF Silent, StreamNo, PartlyNo
  <2>3. ConnackInFront(to_client) /\ ~AwaitsPing /\ Awaiting("pingresp") = {}
    BY <2>1 DEF ConnackInFront, AwaitsPing, Awaiting
  <2>4. QED
    BY <2>1, <2>2, <2>3 DEF PingInv
<1>2. TypeOK /\ PingInv => PingMatchesPending
  <2> SUFFICES ASSUME TypeOK, PingInv, link, state = "connected"
               PROVE  Cardinality(Entries(Stream, "pingreq"))
                        + Cardinality(Entries(to_client, "pingresp"))
                        = Cardinality(Awaiting("pingresp"))
    BY DEF PingMatchesPending
  <2>1. \A x : Cardinality({x}) = 1
    BY FS_Singleton
  <2>2. Cardinality({}) = 0
    BY FS_EmptySet
  <2>3. /\ StreamNo("pingreq") => Cardinality(Entries(Stream, "pingreq")) = 0
        /\ StreamOne("pingreq") => Cardinality(Entries(Stream, "pingreq")) = 1
    BY <2>1, <2>2, StreamJoined
  <2>4. /\ No(to_client, "pingresp") => Cardinality(Entries(to_client, "pingresp")) = 0
        /\ One(to_client, "pingresp") => Cardinality(Entries(to_client, "pingresp")) = 1
    BY <2>1, <2>2, KindEntries DEF TypeOK
  <2>5. Cardinality(Awaiting("pingresp")) = IF AwaitsPing THEN 1 ELSE 0
    <3>1. CASE AwaitsPing
      <4>1. Awaiting("pingresp") = {Await("pingresp", 0, None)}
        BY <3>1 DEF AwaitsPing, PingInv
      <4>2. QED
        BY <2>1, <3>1, <4>1
    <3>2. CASE ~AwaitsPing
      BY <2>2, <3>2 DEF AwaitsPing
    <3>3. QED
      BY <3>1, <3>2
  <2>6. QED
    BY <2>3, <2>4, <2>5 DEF PingInv, Silent, Underway
<1>3. QED
  BY <1>1, <1>2, PingNext, GreetCorrect, PTL DEF SysSpec

-----------------------------------------------------------------------------
(* At-least-once delivery.  As long as packet ids do not wrap around, the   *)
(* client allocates 1, 2, 3 ... and an id names one publication for good,   *)
(* whatever is lost, sent again or answered late.                           *)

(* Each id is taken for a publication or, in a publish() that raises, for   *)
(* a counted call.  (A replay takes ids without end, one per topic on every *)
(* connection.)                                                             *)
IdsSuffice == Topics = {} /\ Cardinality(Messages) + MaxCalls < MaxPacketId

Begun == {m \in Messages : status[m] # "new"}

Unwrapped ==
  /\ calls \in 0..MaxCalls
  /\ \A i \in InFlightIds : i < next_packet_id
  /\ next_packet_id + Cardinality(Waiting \cap Messages) <= Cardinality(Begun) + calls + 1

LEMMA ModZero ==
  ASSUME NEW x \in Nat, NEW n \in Nat \ {0}, 0 < x, x < n + n
  PROVE  /\ x % n = 0 => x = n
         /\ x = n => x % n = 0
  BY SMT

LEMMA NextIsFree ==
  ASSUME TypeOK, \A i \in InFlightIds : i < next_packet_id,
         NEW i \in Ids, IsNextFree(i)
  PROVE  i = next_packet_id
<1>1. PICK n \in Ids : n = next_packet_id
  BY DEF TypeOK
<1>2. MaxPacketId \in Nat \ {0} /\ i \in 1..MaxPacketId /\ n \in 1..MaxPacketId
  BY ClientAssumption DEF ClientAssumption, Ids
<1>3. in_flight[n] = None
  BY <1>1, <1>2 DEF InFlightIds
<1>4. Ahead(i) <= Ahead(n)
  BY <1>1, <1>3 DEF IsNextFree
<1>5. Ahead(n) = 0
  <2>1. n + MaxPacketId - n = MaxPacketId
    BY <1>2
  <2>2. 0 < MaxPacketId /\ MaxPacketId < MaxPacketId + MaxPacketId
    BY <1>2
  <2>3. QED
    BY <1>1, <1>2, <2>1, <2>2, ModZero DEF Ahead
<1>6. PICK x \in Nat : x = i + MaxPacketId - n /\ 0 < x /\ x < MaxPacketId + MaxPacketId
  BY <1>2
<1>7. Ahead(i) = x % MaxPacketId /\ x % MaxPacketId \in 0..(MaxPacketId - 1)
  BY <1>1, <1>2, <1>6, ModBound DEF Ahead
<1>8. x % MaxPacketId = 0
  BY <1>2, <1>4, <1>5, <1>7
<1>9. x = MaxPacketId
  BY <1>2, <1>6, <1>8, ModZero
<1>10. QED
  BY <1>1, <1>2, <1>6, <1>9

LEMMA AfterNoWrap ==
  ASSUME NEW i \in Ids, i < MaxPacketId
  PROVE  After(i) = i + 1
<1>1. i \in Nat /\ MaxPacketId \in Nat
  BY ClientAssumption DEF ClientAssumption, Ids
<1>2. i % MaxPacketId = i
  BY <1>1, SMT
<1>3. QED
  BY <1>2 DEF After

(* What is no longer "new" never is again.                                  *)
NeverNew == \A m \in Messages : status[m] # "new" => status'[m] # "new"

LEMMA BegunStays ==
  ASSUME TypeOK, [Next]_vars
  PROVE  NeverNew
<1> USE DEF app, NeverNew
<1>0. Messages \subseteq Publications
  BY DEF Publications
<1>1. ASSUME NEW S, Drop(S) \/ Acknowledge(S) PROVE NeverNew
  BY <1>0, <1>1 DEF Drop, Acknowledge
<1>2. CASE UNCHANGED status
  BY <1>2
<1>3. CASE SelfHeal
  BY <1>1, <1>2, <1>3 DEF SelfHeal
<1>4. ASSUME NEW i \in Ids, RetriesExhausted(i) PROVE NeverNew
  BY <1>1, <1>4 DEF RetriesExhausted
<1>5. CASE ReceivePubAck
  <2>1. \A m \in Messages : status'[m] \in {status[m], "acked"}
    BY <1>0, <1>5 DEF ReceivePubAck, TypeOK
  <2>2. QED
    BY <2>1
<1>6. ASSUME NEW n \in 0..Len(tx_queue), Drain(n) \/ DrainFails(n) PROVE NeverNew
  BY <1>1, <1>6 DEF Drain, DrainFails
<1>7. CASE Disconnect
  BY <1>1, <1>7 DEF Disconnect
<1>8. ASSUME NEW x \in Publications, Publish(x) PROVE NeverNew
  <2>1. \A m \in Messages : status'[m] \in {status[m], "accepted"}
    BY <1>0, <1>8 DEF Publish, TypeOK
  <2>2. QED
    BY <2>1
<1>9. ASSUME Handle \/ Api, ~SelfHeal, \A i \in Ids : ~RetriesExhausted(i), ~ReceivePubAck,
             \A n \in 0..Len(tx_queue) : ~Drain(n) /\ ~DrainFails(n), ~Disconnect,
             \A x \in Publications : ~Publish(x)
      PROVE  UNCHANGED status
  BY <1>9
     DEF Handle, Api, Transport, Deadlines, Receive, Send,
         TransportLost, TransportPending, TransportReady, Begin, Retransmit,
         AckTimeout, SendTimeout, DeadlinesDone, SendPing,
         NoPing, ReadSuppressed, ReadFails, ReceivePublish, ReceiveTooLarge,
         ReceiveRefusal, ReceiveAccept, ReplaySubscription, DrainPreConnect,
         OnConnect, ReceiveSubAck, ReceiveRejection,
         ReceiveUnsubAck, ReceiveUnexpectedAck, ReceivePingResp, EndRead,
         DrainPartial, Connect, Hold, IoError, Subscribe, Unsubscribe, Declare
<1>10. QED
  BY <1>2, <1>3, <1>4, <1>5, <1>6, <1>7, <1>8, <1>9 DEF Next, Peer, vars

LEMMA BegunCount ==
  ASSUME TypeOK, NeverNew
  PROVE  /\ Cardinality(Begun) \in Nat /\ Cardinality(Begun') \in Nat
         /\ Cardinality(Begun) <= Cardinality(Begun')
         /\ Cardinality(Begun') <= Cardinality(Messages)
         /\ Cardinality(Messages) \in Nat
<1>1. IsFiniteSet(Messages) /\ Begun \subseteq Begun' /\ Begun' \subseteq Messages
  BY ClientAssumption DEF ClientAssumption, Begun, NeverNew
<1>2. QED
  BY <1>1, FS_Subset, FS_CardinalityType

LEMMA WaitingCount ==
  ASSUME Waiting' \subseteq Waiting
  PROVE  /\ Cardinality(Waiting \cap Messages) \in Nat
         /\ Cardinality(Waiting' \cap Messages) \in Nat
         /\ Cardinality(Waiting' \cap Messages) <= Cardinality(Waiting \cap Messages)
<1>1. /\ IsFiniteSet(Messages) /\ Waiting \cap Messages \subseteq Messages
      /\ Waiting' \cap Messages \subseteq Waiting \cap Messages
  BY ClientAssumption DEF ClientAssumption
<1>2. QED
  BY <1>1, FS_Subset, FS_CardinalityType

(* No id is taken, and what is in flight or waits does not grow.            *)
LEMMA UnwrappedKept ==
  ASSUME TypeOK, Unwrapped, NeverNew, calls' \in calls..MaxCalls,
         next_packet_id' \in Ids, next_packet_id' <= next_packet_id,
         \A i \in InFlightIds' : i < next_packet_id', Waiting' \subseteq Waiting
  PROVE  Unwrapped'
<1>1. PICK b \in Nat, bb \in Nat : b = Cardinality(Begun) /\ bb = Cardinality(Begun') /\ b <= bb
  BY BegunCount
<1>2. PICK w \in Nat, ww \in Nat : /\ w = Cardinality(Waiting \cap Messages)
                                   /\ ww = Cardinality(Waiting' \cap Messages) /\ ww <= w
  BY WaitingCount
<1>3. PICK n \in Nat, nn \in Nat : n = next_packet_id /\ nn = next_packet_id' /\ nn <= n
  BY IdsType DEF TypeOK
<1>4. PICK c \in Nat, cc \in Nat : c = calls /\ cc = calls' /\ c <= cc /\ cc \in 0..MaxCalls
  BY SystemAssumption DEF Unwrapped
<1>5. n + w <= b + c + 1
  BY <1>1, <1>2, <1>3, <1>4 DEF Unwrapped
<1>6. nn + ww <= bb + cc + 1
  BY <1>1, <1>2, <1>3, <1>4, <1>5
<1>7. QED
  BY <1>1, <1>2, <1>3, <1>4, <1>6 DEF Unwrapped

(* An id is taken, and the books have room for it.                          *)
LEMMA UnwrappedTake ==
  ASSUME IdsSuffice, TypeOK, Unwrapped, NeverNew, calls' \in calls..MaxCalls,
         NEW i \in Ids, IsNextFree(i), next_packet_id' = After(i),
         InFlightIds' \subseteq InFlightIds \cup {i}, Waiting' \subseteq Waiting,
         Cardinality(Waiting' \cap Messages) + Cardinality(Begun) + calls + 1
           <= Cardinality(Waiting \cap Messages) + Cardinality(Begun') + calls'
  PROVE  /\ Unwrapped'
         /\ i = next_packet_id /\ next_packet_id' = next_packet_id + 1
<1>1. PICK b \in Nat, bb \in Nat, k \in Nat :
        b = Cardinality(Begun) /\ bb = Cardinality(Begun') /\ k = Cardinality(Messages)
        /\ bb <= k
  BY BegunCount
<1>2. PICK w \in Nat, ww \in Nat : /\ w = Cardinality(Waiting \cap Messages)
                                   /\ ww = Cardinality(Waiting' \cap Messages)
  BY WaitingCount
<1>3. PICK n \in Nat : n = next_packet_id
  BY IdsType DEF TypeOK
<1>4. PICK c \in Nat, cc \in Nat, mc \in Nat :
        c = calls /\ cc = calls' /\ mc = MaxCalls /\ cc \in 0..mc
  BY SystemAssumption DEF Unwrapped
<1>5. n + w <= b + c + 1 /\ ww + b + c + 1 <= w + bb + cc
  BY <1>1, <1>2, <1>3, <1>4 DEF Unwrapped
<1>6. PICK p \in Nat : p = MaxPacketId /\ k + mc < p
  BY <1>1, <1>4, ClientAssumption DEF ClientAssumption, IdsSuffice
<1>7. n < p
  BY <1>1, <1>2, <1>3, <1>4, <1>5, <1>6
<1>8. i = n
  BY <1>3, NextIsFree DEF Unwrapped
<1>9. next_packet_id' = n + 1
  BY <1>3, <1>6, <1>7, <1>8, AfterNoWrap
<1>10. n + 1 + ww <= bb + cc + 1
  BY <1>1, <1>2, <1>3, <1>4, <1>5
<1>11. \A j \in InFlightIds' : j < n + 1
  <2>1. \A j \in InFlightIds : j \in Nat /\ j < n
    BY <1>3, IdsType DEF Unwrapped, InFlightIds
  <2>2. QED
    BY <1>8, <2>1
<1>12. QED
  BY <1>1, <1>2, <1>3, <1>4, <1>8, <1>9, <1>10, <1>11 DEF Unwrapped

(* A message accepted is one more begun, a waiting one popped one less.     *)
LEMMA BegunAdd ==
  ASSUME TypeOK, NEW m \in Messages, status[m] = "new",
         status' = [status EXCEPT ![m] = "accepted"]
  PROVE  Cardinality(Begun') = Cardinality(Begun) + 1
<1>1. IsFiniteSet(Messages) /\ Begun \subseteq Messages /\ m \notin Begun
  BY ClientAssumption DEF ClientAssumption, Begun
<1>2. \A x \in Messages : status'[x] = IF x = m THEN "accepted" ELSE status[x]
  BY DEF TypeOK, Publications
<1>3. Begun' = Begun \cup {m}
  BY <1>2 DEF Begun
<1>4. QED
  BY <1>1, <1>3, FS_Subset, FS_AddElement

LEMMA WaitingAdd ==
  ASSUME NEW m \in Messages, m \notin Waiting, Waiting' = Waiting \cup {m}
  PROVE  Cardinality(Waiting' \cap Messages) = Cardinality(Waiting \cap Messages) + 1
<1>1. IsFiniteSet(Messages) /\ Waiting \cap Messages \subseteq Messages
  BY ClientAssumption DEF ClientAssumption
<1>2. Waiting' \cap Messages = (Waiting \cap Messages) \cup {m}
  OBVIOUS
<1>3. QED
  BY <1>1, <1>2, FS_Subset, FS_AddElement

LEMMA WaitingRemove ==
  ASSUME NEW m \in Messages, m \in Waiting, Waiting' = Waiting \ {m}
  PROVE  Cardinality(Waiting' \cap Messages) = Cardinality(Waiting \cap Messages) - 1
<1>1. IsFiniteSet(Messages) /\ Waiting \cap Messages \subseteq Messages
  BY ClientAssumption DEF ClientAssumption
<1>2. Waiting' \cap Messages = (Waiting \cap Messages) \ {m} /\ m \in Waiting \cap Messages
  OBVIOUS
<1>3. QED
  BY <1>1, <1>2, FS_Subset, FS_RemoveElement

(* What publish() and the replay of the pre-connect queue do to the ids.    *)
TakesId(m) == \E i \in Ids :
  /\ IsNextFree(i) /\ next_packet_id' = After(i)
  /\ \/ UNCHANGED <<tx_queue, in_flight>>
     \/ /\ tx_queue' = Append(tx_queue, Packet("publish", i, m))
        /\ in_flight' = [in_flight EXCEPT ![i] = [msg |-> m, retries |-> 0]]

LEMMA PublishTakes ==
  ASSUME TypeOK, NEW m \in Publications, DoPublish(m) \/ DoPublishRaises(m)
  PROVE  /\ m \in Messages => TakesId(m)
         /\ m \in Events => UNCHANGED ids
<1>1. Messages \cap Events = {}
  BY ClientAssumption DEF ClientAssumption
<1>2. QED
  BY <1>1 DEF DoPublish, DoPublishRaises, TakesId, BurnId, ids

LEMMA TakenInFlight ==
  ASSUME TypeOK, NEW m \in Messages, NEW i \in Ids,
         \/ UNCHANGED <<tx_queue, in_flight>>
         \/ /\ tx_queue' = Append(tx_queue, Packet("publish", i, m))
            /\ in_flight' = [in_flight EXCEPT ![i] = [msg |-> m, retries |-> 0]]
  PROVE  /\ InFlightIds' \subseteq InFlightIds \cup {i}
         /\ \A j \in Ids \ {i} : in_flight'[j] = in_flight[j]
         /\ in_flight'[i] = in_flight[i] \/ in_flight'[i].msg = m
  BY DEF TypeOK, InFlightIds

LEMMA UnwrappedTakes ==
  ASSUME IdsSuffice, TypeOK, Unwrapped, NeverNew, calls' \in calls..MaxCalls,
         NEW m \in Messages, TakesId(m), Waiting' \subseteq Waiting,
         Cardinality(Waiting' \cap Messages) + Cardinality(Begun) + calls + 1
           <= Cardinality(Waiting \cap Messages) + Cardinality(Begun') + calls'
  PROVE  Unwrapped' /\ next_packet_id <= next_packet_id'
<1>1. PICK i \in Ids :
        /\ IsNextFree(i) /\ next_packet_id' = After(i)
        /\ \/ UNCHANGED <<tx_queue, in_flight>>
           \/ /\ tx_queue' = Append(tx_queue, Packet("publish", i, m))
              /\ in_flight' = [in_flight EXCEPT ![i] = [msg |-> m, retries |-> 0]]
  BY DEF TakesId
<1>2. InFlightIds' \subseteq InFlightIds \cup {i}
  BY <1>1, TakenInFlight
<1>3. Unwrapped' /\ next_packet_id' = next_packet_id + 1
  BY <1>1, <1>2, UnwrappedTake
<1>4. QED
  BY <1>3, IdsType DEF TypeOK

LEMMA UnwrappedPublish ==
  ASSUME IdsSuffice, TypeOK, Books, Unwrapped, NeverNew, NEW m \in Publications, Publish(m),
         IF status'[m] = "new" THEN calls < MaxCalls /\ calls' = calls + 1 ELSE calls' = calls
  PROVE  Unwrapped' /\ next_packet_id <= next_packet_id'
<1>1. calls' \in calls..MaxCalls /\ calls \in Nat /\ MaxCalls \in Nat
  BY SystemAssumption DEF SystemAssumption, Unwrapped
<1>2. status[m] = "new" /\ m \notin Waiting
  BY DEF Publish, Books, WaitingKept
<1>3. status'[m] = "new" => UNCHANGED status
  BY DEF Publish, TypeOK
<1>4. PICK b \in Nat, bb \in Nat : b = Cardinality(Begun) /\ bb = Cardinality(Begun') /\ b <= bb
  BY BegunCount
<1>5. \A i \in InFlightIds : i < next_packet_id
  BY DEF Unwrapped
<1>6. CASE DoPublish(m) /\ status' = [status EXCEPT ![m] = "accepted"] /\ UNCHANGED pre_connect_queue
  <2>1. Waiting' = Waiting /\ calls' = calls
    BY <1>6 DEF Waiting, TypeOK
  <2>2. CASE m \in Messages
    <3>1. TakesId(m) /\ Waiting' \subseteq Waiting
      BY <1>6, <2>1, <2>2, PublishTakes
    <3>2. Cardinality(Begun') = Cardinality(Begun) + 1
      BY <1>2, <1>6, <2>2, BegunAdd
    <3>3. PICK w \in Nat : /\ w = Cardinality(Waiting \cap Messages)
                           /\ w = Cardinality(Waiting' \cap Messages)
      BY <2>1, <3>1, WaitingCount
    <3>4. w + b + calls + 1 <= w + bb + calls'
      BY <1>1, <1>4, <2>1, <3>2
    <3>5. QED
      BY <1>1, <1>4, <2>2, <3>1, <3>3, <3>4, UnwrappedTakes
  <2>3. CASE m \in Events
    <3>1. UNCHANGED ids
      BY <1>6, <2>3, PublishTakes
    <3>2. /\ next_packet_id' \in Ids /\ next_packet_id' <= next_packet_id
          /\ next_packet_id <= next_packet_id'
          /\ \A i \in InFlightIds' : i < next_packet_id'
      BY <1>5, <3>1, IdsType DEF ids, InFlightIds, TypeOK
    <3>3. QED
      BY <1>1, <2>1, <3>2, UnwrappedKept
  <2>4. QED
    BY <2>2, <2>3 DEF Publications
<1>7. CASE DoPublishRaises(m) /\ UNCHANGED <<status, pre_connect_queue>>
  <2>1. Waiting' = Waiting /\ calls' = calls + 1
    BY <1>2, <1>7 DEF Waiting
  <2>2. CASE m \in Messages
    <3>1. TakesId(m) /\ Waiting' \subseteq Waiting
      BY <1>7, <2>1, <2>2, PublishTakes
    <3>3. PICK w \in Nat : /\ w = Cardinality(Waiting \cap Messages)
                           /\ w = Cardinality(Waiting' \cap Messages)
      BY <2>1, <3>1, WaitingCount
    <3>4. w + b + calls + 1 <= w + bb + calls'
      BY <1>1, <1>4, <2>1
    <3>5. QED
      BY <1>1, <1>4, <2>2, <3>1, <3>3, <3>4, UnwrappedTakes
  <2>3. CASE m \in Events
    <3>1. UNCHANGED ids
      BY <1>7, <2>3, PublishTakes
    <3>2. /\ next_packet_id' \in Ids /\ next_packet_id' <= next_packet_id
          /\ next_packet_id <= next_packet_id'
          /\ \A i \in InFlightIds' : i < next_packet_id'
      BY <1>5, <3>1, IdsType DEF ids, InFlightIds, TypeOK
    <3>3. QED
      BY <1>1, <2>1, <3>2, UnwrappedKept
  <2>4. QED
    BY <2>2, <2>3 DEF Publications
<1>8. CASE /\ pre_connect_queue' = Append(pre_connect_queue, m)
           /\ status' = [status EXCEPT ![m] = "accepted"] /\ UNCHANGED <<tx_queue, ids>>
  <2>1. Waiting' = Waiting \cup {m} /\ calls' = calls
    BY <1>2, <1>8, PushWaiting DEF TypeOK
  <2>2. /\ next_packet_id' = next_packet_id /\ InFlightIds' = InFlightIds
        /\ next_packet_id \in Nat /\ next_packet_id <= next_packet_id'
    BY <1>8, IdsType DEF ids, InFlightIds, TypeOK
  <2>3. CASE m \in Messages
    <3>1. Cardinality(Begun') = Cardinality(Begun) + 1
      BY <1>2, <1>8, <2>3, BegunAdd
    <3>2. Cardinality(Waiting' \cap Messages) = Cardinality(Waiting \cap Messages) + 1
      BY <1>2, <2>1, <2>3, WaitingAdd
    <3>3. PICK w \in Nat : w = Cardinality(Waiting \cap Messages)
      <4>1. IsFiniteSet(Messages) /\ Waiting \cap Messages \subseteq Messages
        BY ClientAssumption DEF ClientAssumption
      <4>2. QED
        BY <4>1, FS_Subset, FS_CardinalityType
    <3>4. next_packet_id + (w + 1) <= bb + calls + 1
      BY <1>1, <1>4, <2>2, <3>1, <3>3 DEF Unwrapped
    <3>5. QED
      BY <1>1, <1>4, <1>5, <2>1, <2>2, <3>2, <3>3, <3>4 DEF Unwrapped
  <2>4. CASE m \in Events
    <3>1. Waiting' \cap Messages = Waiting \cap Messages
      BY <2>1, <2>4, ClientAssumption DEF ClientAssumption
    <3>2. PICK w \in Nat : w = Cardinality(Waiting \cap Messages)
      <4>1. IsFiniteSet(Messages) /\ Waiting \cap Messages \subseteq Messages
        BY ClientAssumption DEF ClientAssumption
      <4>2. QED
        BY <4>1, FS_Subset, FS_CardinalityType
    <3>3. next_packet_id + w <= bb + calls + 1
      BY <1>1, <1>4, <2>2, <3>2 DEF Unwrapped
    <3>4. QED
      BY <1>1, <1>4, <1>5, <2>1, <2>2, <3>1, <3>2, <3>3 DEF Unwrapped
  <2>5. QED
    BY <2>3, <2>4 DEF Publications
<1>9. QED
  BY <1>6, <1>7, <1>8 DEF Publish

-----------------------------------------------------------------------------
(* The steps of the client that neither take an id nor queue, send, settle  *)
(* or forget anything.                                                      *)
Minor == \/ TransportLost \/ TransportPending \/ Begin
         \/ \E p \in pending_responses : AckTimeout(p)
         \/ SendTimeout \/ DeadlinesDone \/ NoPing
         \/ ReadSuppressed \/ ReadFails \/ ReceivePublish \/ ReceiveTooLarge
         \/ ReceiveRefusal \/ ReceiveAccept \/ OnConnect
         \/ ReceiveSubAck \/ ReceiveRejection \/ ReceiveUnsubAck
         \/ ReceiveUnexpectedAck \/ ReceivePingResp \/ Hold \/ IoError

LEMMA MinorStep ==
  ASSUME Minor
  PROVE  /\ UNCHANGED <<ids, pre_connect_queue, status, tx_queue, partial_send,
                        link, to_broker>>
         /\ to_client' = to_client \/ (to_client # <<>> /\ to_client' = Tail(to_client))
  BY DEF Minor, TransportLost, TransportPending, Begin, AckTimeout, SendTimeout,
         DeadlinesDone, NoPing, ReadSuppressed, ReadFails, ReceivePublish,
         ReceiveTooLarge, ReceiveRefusal, ReceiveAccept, OnConnect, ReceiveSubAck,
         ReceiveRejection, ReceiveUnsubAck, ReceiveUnexpectedAck, ReceivePingResp,
         Hold, IoError, Incoming, outbox, registry, app, wire

(* The steps that at most queue a packet of the protocol's own.             *)
Queues(p) == \/ UNCHANGED tx_queue
             \/ tx_queue' = Append(tx_queue, p)
             \/ tx_queue' = <<p>> \o tx_queue
Protocol == TransportReady \/ SendPing \/ EndRead \/ Connect

LEMMA ProtocolStep ==
  ASSUME TypeOK, Protocol
  PROVE  /\ UNCHANGED <<ids, pre_connect_queue, status, partial_send>>
         /\ \E p \in OutPackets : p.kind # "publish" /\ Queues(p)
         /\ \/ UNCHANGED wire
            \/ to_broker' = <<>> /\ to_client' = <<>>
<1>1. \A k \in {"connect", "pingreq"} :
        Packet(k, 0, None) \in OutPackets /\ Packet(k, 0, None).kind # "publish"
  BY PacketType, IdsType, ArgTypes DEF OutKinds, Packet
<1>2. /\ Packet("puback", 0, pending_pubacks) \in OutPackets
      /\ Packet("puback", 0, pending_pubacks).kind # "publish"
  BY PacketType, IdsType, ArgTypes DEF OutKinds, Packet, TypeOK
<1>3. CASE TransportReady
  BY <1>1, <1>3 DEF TransportReady, Queues, ids, app
<1>4. CASE SendPing
  BY <1>1, <1>4 DEF SendPing, Queues, ids, app
<1>5. CASE EndRead
  BY <1>2, <1>5 DEF EndRead, Queues, registry
<1>6. CASE Connect
  BY <1>1, <1>6 DEF Connect, Queues, app
<1>7. QED
  BY <1>3, <1>4, <1>5, <1>6 DEF Protocol

(* The client does nothing else, but for its subscriptions.                 *)
Counted(m) == IF status'[m] = "new" THEN calls < MaxCalls /\ calls' = calls + 1
                                    ELSE calls' = calls

LEMMA ClientSteps ==
  ASSUME Client
  PROVE  \/ Minor \/ Protocol \/ SelfHeal \/ DrainPreConnect \/ ReceivePubAck
         \/ Send \/ Disconnect
         \/ \E t \in Topics : ReplaySubscription(t) \/ Subscribe(t) \/ Unsubscribe(t)
         \/ \E i \in Ids : Retransmit(i) \/ RetriesExhausted(i)
         \/ \E m \in Publications : Publish(m) /\ Counted(m)
<1>1. CASE Handle
  BY <1>1 DEF Handle, Transport, Deadlines, Receive, Minor, Protocol
<1>2. CASE FreeCalls /\ calls' = calls
  BY <1>2 DEF FreeCalls, Protocol, Counted
<1>3. CASE OtherCalls /\ calls < MaxCalls /\ calls' = calls + 1
  BY <1>3 DEF OtherCalls, Minor, Counted
<1>4. QED
  BY <1>1, <1>2, <1>3 DEF Client

LEMMA RetransmitStep ==
  ASSUME TypeOK, NEW i \in Ids, Retransmit(i)
  PROVE  /\ i \in InFlightIds /\ in_flight[i].msg \in Messages
         /\ tx_queue' = Append(tx_queue, Packet("publish", i, in_flight[i].msg))
         /\ Packet("publish", i, in_flight[i].msg) \in OutPackets
         /\ UNCHANGED <<next_packet_id, pre_connect_queue, status, partial_send, wire>>
         /\ InFlightIds' = InFlightIds
         /\ \A j \in InFlightIds : in_flight'[j].msg = in_flight[j].msg
<1>1. i \in InFlightIds /\ in_flight[i].msg \in Messages /\ in_flight[i].retries \in 0..RetryMax
  BY InFlightType DEF Retransmit, InFlightIds
<1>2. PICK r : r = [msg |-> in_flight[i].msg, retries |-> in_flight[i].retries + 1]
  OBVIOUS
<1>3. r \in InFlightRecords /\ r.msg = in_flight[i].msg
  <2>1. in_flight[i].retries + 1 \in 0..RetryMax
    BY <1>1, ClientAssumption DEF Retransmit, ClientAssumption
  <2>2. QED
    BY <1>1, <1>2, <2>1 DEF InFlightRecords
<1>4. in_flight' = [in_flight EXCEPT ![i] = r] /\ r # None
  BY <1>2, <1>3, NoneAssumption DEF Retransmit
<1>5. \A j \in Ids : in_flight'[j] = IF j = i THEN r ELSE in_flight[j]
  BY <1>4 DEF TypeOK
<1>6. Packet("publish", i, in_flight[i].msg) \in OutPackets
  BY <1>1, PacketType, IdsType, ArgTypes DEF OutKinds, Publications
<1>7. InFlightIds' = InFlightIds /\ \A j \in InFlightIds : in_flight'[j].msg = in_flight[j].msg
  BY <1>1, <1>3, <1>4, <1>5 DEF InFlightIds
<1>8. QED
  BY <1>1, <1>6, <1>7 DEF Retransmit, registry, app

LEMMA ReplayStep ==
  ASSUME TypeOK, Books, DrainPreConnect
  PROVE  \E m \in Waiting :
           /\ m \in Publications /\ (DoPublish(m) \/ DoPublishRaises(m))
           /\ Waiting' = Waiting \ {m}
           /\ UNCHANGED <<status, partial_send, wire>>
<1>1. pre_connect_queue # <<>> /\ pre_connect_queue' = Tail(pre_connect_queue)
  BY DEF DrainPreConnect
<1>2. PICK m : m = Head(pre_connect_queue)
  OBVIOUS
<1>3. m \in Waiting /\ m \in Publications /\ Waiting' = Waiting \ {m}
  BY <1>1, <1>2, PopWaiting
<1>4. QED
  BY <1>2, <1>3 DEF DrainPreConnect

LEMMA SendStep ==
  ASSUME TypeOK, Send
  PROVE  UNCHANGED <<ids, pre_connect_queue, link, to_client>>
  BY DEF Send, DrainPartial, Drain, DrainFails, registry, wire

LEMMA UnwrappedClient ==
  ASSUME IdsSuffice, TypeOK, TypeOK', Books, Unwrapped, NeverNew, Client
  PROVE  Unwrapped' /\ (~SelfHeal => next_packet_id <= next_packet_id')
<1>1. calls' \in calls..MaxCalls
  BY SystemAssumption DEF Client, FreeCalls, OtherCalls, Api, Unwrapped, SystemAssumption
<1>2. /\ next_packet_id \in Ids /\ next_packet_id \in Nat /\ next_packet_id' \in Ids
      /\ \A i \in InFlightIds : i < next_packet_id
  BY IdsType DEF TypeOK, Unwrapped
<1>3. ASSUME next_packet_id' = next_packet_id, InFlightIds' \subseteq InFlightIds,
             Waiting' \subseteq Waiting
      PROVE  Unwrapped' /\ next_packet_id <= next_packet_id'
  BY <1>1, <1>2, <1>3, UnwrappedKept
<1>4. ASSUME UNCHANGED ids PROVE InFlightIds' = InFlightIds /\ next_packet_id' = next_packet_id
  BY <1>4 DEF ids, InFlightIds
<1>5. ASSUME UNCHANGED pre_connect_queue PROVE Waiting' \subseteq Waiting
  BY <1>5 DEF Waiting
<1>6. CASE Minor
  BY <1>3, <1>4, <1>5, <1>6, MinorStep
<1>7. CASE Protocol
  BY <1>3, <1>4, <1>5, <1>7, ProtocolStep
<1>8. CASE Send
  BY <1>3, <1>4, <1>5, <1>8, SendStep
<1>9. CASE SelfHeal
  <2>1. Waiting' \subseteq Waiting
    BY <1>5, <1>9 DEF SelfHeal
  <2>2. CASE CleanSession
    <3>1. next_packet_id' = 1 /\ InFlightIds' = {}
      BY <1>9, <2>2 DEF SelfHeal, InFlightIds
    <3>2. 1 <= next_packet_id
      BY <1>2, IdsType
    <3>3. QED
      BY <1>1, <1>2, <1>9, <2>1, <3>1, <3>2, UnwrappedKept
  <2>3. CASE ~CleanSession
    BY <1>3, <1>4, <1>9, <2>1, <2>3 DEF SelfHeal
  <2>4. QED
    BY <2>2, <2>3
<1>10. CASE Disconnect
  <2>1. UNCHANGED ids /\ pre_connect_queue' = <<>>
    BY <1>10 DEF Disconnect
  <2>2. Waiting' \subseteq Waiting
    BY <2>1 DEF Waiting, Items
  <2>3. QED
    BY <1>3, <1>4, <2>1, <2>2
<1>11. CASE ReceivePubAck
  <2>1. /\ UNCHANGED <<next_packet_id, pre_connect_queue>>
        /\ \/ UNCHANGED in_flight
           \/ \E i \in Ids : in_flight' = [in_flight EXCEPT ![i] = None]
    BY <1>11 DEF ReceivePubAck, registry, InFlightIds
  <2>2. InFlightIds' \subseteq InFlightIds
    BY <2>1 DEF InFlightIds, TypeOK
  <2>3. QED
    BY <1>3, <1>5, <2>1, <2>2
<1>12. ASSUME NEW i \in Ids, Retransmit(i) PROVE Unwrapped' /\ next_packet_id <= next_packet_id'
  BY <1>3, <1>5, <1>12, RetransmitStep
<1>13. ASSUME NEW i \in Ids, RetriesExhausted(i) PROVE Unwrapped' /\ next_packet_id <= next_packet_id'
  <2>1. /\ UNCHANGED <<next_packet_id, pre_connect_queue>>
        /\ in_flight' = [in_flight EXCEPT ![i] = None]
    BY <1>13 DEF RetriesExhausted, registry
  <2>2. InFlightIds' \subseteq InFlightIds
    BY <2>1 DEF InFlightIds, TypeOK
  <2>3. QED
    BY <1>3, <1>5, <2>1, <2>2
<1>14. CASE DrainPreConnect
  <2>1. PICK m \in Waiting :
           /\ m \in Publications /\ (DoPublish(m) \/ DoPublishRaises(m))
           /\ Waiting' = Waiting \ {m} /\ UNCHANGED status
    BY <1>14, ReplayStep
  <2>2. Waiting' \subseteq Waiting /\ Begun' = Begun
    BY <2>1 DEF Begun
  <2>3. CASE m \in Events
    BY <1>3, <1>4, <2>1, <2>2, <2>3, PublishTakes
  <2>4. CASE m \in Messages
    <3>1. TakesId(m)
      BY <2>1, <2>4, PublishTakes
    <3>2. PICK b \in Nat : b = Cardinality(Begun) /\ b = Cardinality(Begun')
      BY <2>2, BegunCount
    <3>3. PICK w \in Nat, ww \in Nat : /\ w = Cardinality(Waiting \cap Messages)
                                       /\ ww = Cardinality(Waiting' \cap Messages)
                                       /\ ww = w - 1
      BY <2>1, <2>2, <2>4, WaitingCount, WaitingRemove
    <3>4. ww + b + calls + 1 <= w + b + calls'
      <4>1. calls \in Nat /\ calls' \in Nat /\ calls <= calls'
        BY <1>1, SystemAssumption DEF Unwrapped, SystemAssumption
      <4>2. QED
        BY <3>3, <4>1
    <3>5. QED
      BY <1>1, <2>2, <2>4, <3>1, <3>2, <3>3, <3>4, UnwrappedTakes
  <2>5. QED
    BY <2>1, <2>3, <2>4 DEF Publications
<1>15. ASSUME NEW m \in Publications, Publish(m), Counted(m) PROVE Unwrapped' /\ next_packet_id <= next_packet_id'
  BY <1>15, UnwrappedPublish DEF Counted
<1>16. QED
  BY <1>6, <1>7, <1>8, <1>9, <1>10, <1>11, <1>12, <1>13, <1>14, <1>15, ClientSteps
     DEF IdsSuffice

-----------------------------------------------------------------------------
(* What the packets under way say.  A message in one has been accepted; a   *)
(* packet with an id of the present connection carries the message in       *)
(* flight under it; the broker has the message a PUBACK confirms.           *)
Known(p) == p.kind = "publish" /\ p.arg \in Messages => status[p.arg] # "new"
Matches(p) == p.kind = "publish" /\ p.id # 0 =>
                /\ p.id < next_packet_id
                /\ in_flight[p.id] # None => p.arg = in_flight[p.id].msg
Answered(p) == p.kind = "puback" =>
                 /\ p.id < next_packet_id
                 /\ p.id \in InFlightIds => in_flight[p.id].msg \in stored

Carried ==
  /\ \A p \in Own : Known(p) /\ Matches(p)
  /\ \A p \in Items(to_broker) : Known(p) /\ (link => Matches(p))
  /\ \A p \in Items(to_client) : Answered(p)

(* The in-flight table keeps its entries, loses them, or gains one under    *)
(* the next id.                                                             *)
Grows == /\ next_packet_id <= next_packet_id'
         /\ \A i \in InFlightIds' :
              \/ i = next_packet_id
              \/ i \in InFlightIds /\ in_flight'[i].msg = in_flight[i].msg

LEMMA PacketsAgree ==
  ASSUME TypeOK, TypeOK', NeverNew, Grows, stored \subseteq stored'
  PROVE  /\ \A p \in OutPackets : (Known(p) => Known(p)') /\ (Matches(p) => Matches(p)')
         /\ \A p \in WellFormedPackets : Answered(p) => Answered(p)'
<1>1. PICK n \in Nat, nn \in Nat : n = next_packet_id /\ nn = next_packet_id' /\ n <= nn
  BY IdsType DEF TypeOK, Grows
<1>2. \A p \in OutPackets : p.id \in 0..MaxPacketId
  BY DEF OutPackets
<1>3. \A p \in WellFormedPackets : p.id \in 0..MaxPacketId
  BY IdsType DEF WellFormedPackets, AckPackets
<1>4. \A i \in 0..MaxPacketId : /\ i < n => i < nn /\ i # n
                              /\ i # 0 => i \in Ids
                              /\ i \in Nat
  BY <1>1, ClientAssumption DEF ClientAssumption, Ids
<1>5. ASSUME NEW p \in OutPackets PROVE Known(p) => Known(p)'
  BY DEF Known, NeverNew
<1>6. ASSUME NEW p \in OutPackets, Matches(p), p.kind = "publish", p.id # 0
      PROVE  p.id < next_packet_id' /\ (in_flight'[p.id] # None => p.arg = in_flight'[p.id].msg)
  <2>1. p.id < n /\ p.id \in Ids /\ (in_flight[p.id] # None => p.arg = in_flight[p.id].msg)
    BY <1>1, <1>2, <1>4, <1>6 DEF Matches
  <2>2. PICK i \in 0..MaxPacketId : i = p.id
    BY <1>2
  <2>3. p.id < nn /\ p.id # n
    <3>1. i < n
      BY <2>1, <2>2
    <3>2. i < nn /\ i # n
      BY <1>1, <3>1, ClientAssumption DEF ClientAssumption
    <3>3. QED
      BY <2>2, <3>2
  <2>4. QED
    BY <1>1, <2>1, <2>3 DEF Grows, InFlightIds
<1>7. ASSUME NEW p \in WellFormedPackets, Answered(p), p.kind = "puback"
      PROVE  p.id < next_packet_id' /\ (p.id \in InFlightIds' => in_flight'[p.id].msg \in stored')
  <2>1. p.id < n /\ (p.id \in InFlightIds => in_flight[p.id].msg \in stored)
    BY <1>1, <1>7 DEF Answered
  <2>2. PICK i \in 0..MaxPacketId : i = p.id
    BY <1>3
  <2>3. p.id < nn /\ p.id # n
    <3>1. i < n
      BY <2>1, <2>2
    <3>2. i < nn /\ i # n
      BY <1>1, <3>1, ClientAssumption DEF ClientAssumption
    <3>3. QED
      BY <2>2, <3>2
  <2>4. QED
    BY <1>1, <2>1, <2>3 DEF Grows
<1>8. QED
  BY <1>5, <1>6, <1>7 DEF Matches, Answered

(* A step that adds to the packets only such as are in order.               *)
LEMMA CarriedStep ==
  ASSUME TypeOK, TypeOK', Carried, NeverNew, Grows, stored \subseteq stored',
         link' => link \/ to_broker' = <<>>,
         \A p \in Own' : p \in Own \/ (Known(p)' /\ Matches(p)'),
         \A p \in Items(to_broker') :
           p \in Items(to_broker) \/ p \in Own \/ p.kind # "publish",
         \A p \in Items(to_client') : p \in Items(to_client) \/ Answered(p)'
  PROVE  Carried'
<1>1. /\ \A p \in OutPackets : (Known(p) => Known(p)') /\ (Matches(p) => Matches(p)')
      /\ \A p \in WellFormedPackets : Answered(p) => Answered(p)'
  BY PacketsAgree
<1>2. /\ Own \subseteq OutPackets /\ Items(to_broker) \subseteq OutPackets
      /\ Items(to_client) \subseteq WellFormedPackets
  BY DEF TypeOK, Own, Items
<1>3. \A p \in Own' : Known(p)' /\ Matches(p)'
  BY <1>1, <1>2 DEF Carried
<1>4. ASSUME NEW p \in Items(to_broker') PROVE Known(p)' /\ (link' => Matches(p)')
  <2>0. link' => link
    BY <1>4 DEF Items
  <2>1. CASE p \in Items(to_broker) \/ p \in Own
    BY <1>1, <1>2, <2>0, <2>1 DEF Carried
  <2>2. CASE p.kind # "publish"
    BY <2>2 DEF Known, Matches
  <2>3. QED
    BY <1>4, <2>1, <2>2
<1>5. \A p \in Items(to_client') : Answered(p)'
  BY <1>1, <1>2 DEF Carried
<1>6. QED
  BY <1>3, <1>4, <1>5 DEF Carried

LEMMA SendCarries ==
  ASSUME TypeOK, Send
  PROVE  /\ Own' \subseteq Own
         /\ Items(to_broker') \subseteq Items(to_broker) \cup Own
<1>1. tx_queue \in Seq(OutPackets) /\ to_broker \in Seq(OutPackets)
      /\ partial_send \in OutPackets \cup {None}
  BY DEF TypeOK
<1>2. CASE DrainPartial
  <2>1. partial_send # None /\ UNCHANGED tx_queue /\ partial_send' \in {partial_send, None}
    BY <1>2 DEF DrainPartial
  <2>2. \/ UNCHANGED to_broker
        \/ to_broker' = Append(to_broker, partial_send)
    BY <1>2 DEF DrainPartial, Sent
  <2>3. partial_send \in OutPackets /\ partial_send \in Own
    BY <1>1, <2>1 DEF Own
  <2>4. Items(to_broker') \subseteq Items(to_broker) \cup Own
    <3>1. Items(Append(to_broker, partial_send)) = Items(to_broker) \cup {partial_send}
      BY <1>1, <2>3, ItemsAppend
    <3>2. QED
      BY <2>2, <2>3, <3>1
  <2>5. QED
    BY <2>1, <2>4 DEF Own
<1>3. ASSUME NEW n \in 0..Len(tx_queue), Drain(n)
      PROVE  /\ Own' \subseteq Own
             /\ Items(to_broker') \subseteq Items(to_broker) \cup Own
  <2>1. PICK q : q = Rest(tx_queue, n)
    OBVIOUS
  <2>2. /\ partial_send = None /\ Own = Items(tx_queue)
        /\ q \in Seq(OutPackets) /\ Items(q) \subseteq Own
    BY <1>1, <1>3, <2>1, RestProperties, ItemsRest DEF Drain, Own
  <2>3. ASSUME q # <<>>
        PROVE  /\ Tail(q) \in Seq(OutPackets) /\ Head(q) \in OutPackets
               /\ Head(q) \in Own /\ Items(Tail(q)) \subseteq Own
    BY <2>2, <2>3, HeadTailProperties, ItemsTail
  <2>4. \/ tx_queue' = q /\ UNCHANGED <<partial_send, to_broker>>
        \/ /\ q # <<>> /\ tx_queue' = Tail(q) /\ partial_send' = Head(q)
           /\ UNCHANGED to_broker
        \/ /\ q # <<>> /\ partial_send' = None
           /\ to_broker' \in {Append(to_broker, Head(q)), to_broker}
           /\ \/ tx_queue' = Tail(q)
              \/ \E j \in 0..Len(Tail(q)) : tx_queue' = Rest(Tail(q), j)
    BY <1>3, <2>1, <2>2 DEF Drain, Sent
  <2>5. CASE tx_queue' = q /\ UNCHANGED <<partial_send, to_broker>>
    BY <2>2, <2>5 DEF Own
  <2>6. CASE /\ q # <<>> /\ tx_queue' = Tail(q) /\ partial_send' = Head(q)
             /\ UNCHANGED to_broker
    BY <2>2, <2>3, <2>6 DEF Own
  <2>7. CASE /\ q # <<>> /\ partial_send' = None
             /\ to_broker' \in {Append(to_broker, Head(q)), to_broker}
             /\ \/ tx_queue' = Tail(q)
                \/ \E j \in 0..Len(Tail(q)) : tx_queue' = Rest(Tail(q), j)
    <3>1. PICK x \in OutPackets, t \in Seq(OutPackets) : /\ x = Head(q) /\ t = Tail(q)
                                                        /\ x \in Own /\ Items(t) \subseteq Own
      BY <2>3, <2>7
    <3>2. Items(tx_queue') \subseteq Items(t)
      BY <2>7, <3>1, ItemsRest
    <3>3. Items(to_broker') \subseteq Items(to_broker) \cup {x}
      <4>1. Items(Append(to_broker, x)) = Items(to_broker) \cup {x}
        BY <1>1, <3>1, ItemsAppend
      <4>2. QED
        BY <2>7, <3>1, <4>1
    <3>4. Own' = Items(tx_queue')
      BY <2>7 DEF Own
    <3>5. QED
      BY <3>1, <3>2, <3>3, <3>4
  <2>8. QED
    BY <2>4, <2>5, <2>6, <2>7
<1>4. ASSUME NEW n \in 0..Len(tx_queue), DrainFails(n)
      PROVE  /\ Own' \subseteq Own
             /\ Items(to_broker') \subseteq Items(to_broker) \cup Own
  <2>1. tx_queue' = Rest(tx_queue, n) /\ UNCHANGED <<partial_send, to_broker>>
    BY <1>4 DEF DrainFails, wire
  <2>2. QED
    BY <1>1, <2>1, ItemsRest DEF Own
<1>5. QED
  BY <1>2, <1>3, <1>4 DEF Send

(* A publication under a new id, or with none, is in order.                 *)
LEMMA CarriedPublish ==
  ASSUME TypeOK, TypeOK', Carried, Unwrapped, Unwrapped', NeverNew,
         next_packet_id <= next_packet_id',
         NEW m \in Publications, DoPublish(m) \/ DoPublishRaises(m),
         DoPublish(m) /\ m \in Messages => status'[m] # "new",
         UNCHANGED <<partial_send, wire, stored>>
  PROVE  Carried'
<1>1. tx_queue \in Seq(OutPackets) /\ m \in OutArgs /\ Messages \cap Events = {}
  BY ArgTypes, ClientAssumption DEF TypeOK, ClientAssumption
<1>2. CASE m \in Events
  <2>1. PICK p, c : p = Packet("publish", 0, m) /\ c = Packet("callback", 0, m)
    OBVIOUS
  <2>2. p \in OutPackets /\ c \in OutPackets
    BY <1>1, <2>1, PacketType, IdsType DEF OutKinds
  <2>3. Known(p)' /\ Matches(p)' /\ Known(c)' /\ Matches(c)'
    BY <1>1, <1>2, <2>1 DEF Known, Matches, Packet
  <2>4. UNCHANGED ids
    BY <1>2, PublishTakes
  <2>5. tx_queue' = tx_queue \/ tx_queue' = tx_queue \o <<p, c>>
    BY <1>1, <1>2, <2>1 DEF DoPublish, DoPublishRaises, WithMarker
  <2>6. Append(Append(tx_queue, p), c) = tx_queue \o <<p, c>>
    BY <1>1, <2>2
  <2>7. Append(tx_queue, p) \in Seq(OutPackets)
    BY <1>1, <2>2, AppendProperties
  <2>8. Items(tx_queue') \subseteq Items(tx_queue) \cup {p, c}
    <3>1. Items(Append(tx_queue, p)) = Items(tx_queue) \cup {p}
      BY <1>1, <2>2, ItemsAppend
    <3>2. Items(Append(Append(tx_queue, p), c)) = Items(Append(tx_queue, p)) \cup {c}
      <4>1. PICK q \in Seq(OutPackets) : q = Append(tx_queue, p)
        BY <2>7
      <4>2. Items(Append(q, c)) = Items(q) \cup {c}
        BY <2>2, ItemsAppend
      <4>3. QED
        BY <4>1, <4>2
    <3>3. QED
      BY <2>5, <2>6, <3>1, <3>2
  <2>9. \A x \in Own' : x \in Own \/ (Known(x)' /\ Matches(x)')
    BY <2>3, <2>8 DEF Own
  <2>10. Grows
    BY <2>4 DEF Grows, ids, InFlightIds
  <2>11. QED
    BY <2>9, <2>10, CarriedStep DEF wire
<1>3. CASE m \in Messages
  <2>1. PICK i \in Ids :
          /\ IsNextFree(i) /\ next_packet_id' = After(i)
          /\ \/ UNCHANGED <<tx_queue, in_flight>>
             \/ /\ tx_queue' = Append(tx_queue, Packet("publish", i, m))
                /\ in_flight' = [in_flight EXCEPT ![i] = [msg |-> m, retries |-> 0]]
    BY <1>3, PublishTakes DEF TakesId
  <2>2. i = next_packet_id
    BY <2>1, NextIsFree DEF Unwrapped
  <2>3. Grows
    BY <1>3, <2>1, <2>2, TakenInFlight DEF Grows, InFlightIds
  <2>4. CASE UNCHANGED tx_queue
    <3>1. Own' = Own
      BY <2>4 DEF Own
    <3>2. QED
      BY <2>3, <3>1, CarriedStep DEF wire
  <2>5. CASE /\ tx_queue' = Append(tx_queue, Packet("publish", i, m))
             /\ in_flight' = [in_flight EXCEPT ![i] = [msg |-> m, retries |-> 0]]
    <3>1. PICK p \in OutPackets : p = Packet("publish", i, m)
      BY <1>1, PacketType, IdsType DEF OutKinds
    <3>2. Items(tx_queue') = Items(tx_queue) \cup {p}
      BY <1>1, <2>5, <3>1, ItemsAppend
    <3>3. in_flight'[i].msg = m /\ in_flight'[i] # None
      <4>1. [msg |-> m, retries |-> 0] \in InFlightRecords
        BY <1>3, ClientAssumption DEF ClientAssumption, InFlightRecords
      <4>2. QED
        BY <2>5, <4>1, NoneAssumption DEF TypeOK
    <3>4. i < next_packet_id'
      BY <3>3 DEF Unwrapped, InFlightIds
    <3>5. status'[m] # "new"
      <4>1. ~DoPublishRaises(m)
        <5>1. tx_queue' # tx_queue
          BY <1>1, <2>5, <3>1, AppendProperties
        <5>2. QED
          BY <5>1 DEF DoPublishRaises
      <4>2. QED
        BY <1>3, <4>1
    <3>6. Known(p)' /\ Matches(p)'
      BY <3>1, <3>3, <3>4, <3>5 DEF Known, Matches, Packet
    <3>7. \A x \in Own' : x \in Own \/ (Known(x)' /\ Matches(x)')
      BY <3>2, <3>6 DEF Own
    <3>8. QED
      BY <2>3, <3>7, CarriedStep DEF wire
  <2>6. QED
    BY <2>1, <2>4, <2>5
<1>4. QED
  BY <1>2, <1>3 DEF Publications

LEMMA CarriedClient ==
  ASSUME IdsSuffice, TypeOK, TypeOK', Books, Carried, Unwrapped, Unwrapped', NeverNew, Client,
         ~SelfHeal => next_packet_id <= next_packet_id'
  PROVE  Carried'
<1>1. UNCHANGED stored /\ stored \subseteq stored'
  BY DEF Client
<1>2. next_packet_id \in Nat
  BY IdsType DEF TypeOK
<1>3. ASSUME UNCHANGED ids PROVE Grows
  BY <1>2, <1>3 DEF Grows, ids, InFlightIds
<1>4. ASSUME UNCHANGED <<tx_queue, partial_send>> PROVE Own' = Own
  BY <1>4 DEF Own
<1>5. ASSUME to_client # <<>>, to_client' = Tail(to_client)
      PROVE  Items(to_client') \subseteq Items(to_client)
  <2>1. PICK q \in Seq(WellFormedPackets) : q = to_client
    BY DEF TypeOK
  <2>2. Items(q) = {Head(q)} \cup Items(Tail(q))
    BY <1>5, <2>1, ItemsTail
  <2>3. QED
    BY <1>5, <2>1, <2>2
<1>6. CASE Minor
  <2>1. Own' = Own /\ Grows
    BY <1>3, <1>4, <1>6, MinorStep
  <2>2. /\ UNCHANGED <<link, to_broker>>
        /\ Items(to_client') \subseteq Items(to_client)
    BY <1>5, <1>6, MinorStep
  <2>3. QED
    BY <1>1, <2>1, <2>2, CarriedStep
<1>7. CASE Protocol
  <2>1. PICK p \in OutPackets : p.kind # "publish" /\ Queues(p)
    BY <1>7, ProtocolStep
  <2>2. /\ UNCHANGED <<ids, partial_send>>
        /\ UNCHANGED wire \/ (to_broker' = <<>> /\ to_client' = <<>>)
    BY <1>7, ProtocolStep
  <2>3. Items(tx_queue') \subseteq Items(tx_queue) \cup {p}
    <3>1. /\ Items(Append(tx_queue, p)) = Items(tx_queue) \cup {p}
          /\ Items(<<p>> \o tx_queue) = {p} \cup Items(tx_queue)
      BY ItemsAppend, ItemsCons DEF TypeOK
    <3>2. QED
      BY <2>1, <3>1 DEF Queues
  <2>4. \A x \in Own' : x \in Own \/ (Known(x)' /\ Matches(x)')
    BY <2>1, <2>2, <2>3 DEF Own, Known, Matches
  <2>5. /\ link' => link \/ to_broker' = <<>>
        /\ Items(to_broker') \subseteq Items(to_broker)
        /\ Items(to_client') \subseteq Items(to_client)
    BY <2>2 DEF wire, Items
  <2>6. QED
    BY <1>1, <1>3, <2>2, <2>4, <2>5, CarriedStep
<1>8. CASE Send
  <2>1. /\ Own' \subseteq Own /\ Items(to_broker') \subseteq Items(to_broker) \cup Own
        /\ UNCHANGED <<ids, link, to_client>>
    BY <1>8, SendCarries, SendStep
  <2>2. QED
    BY <1>1, <1>3, <2>1, CarriedStep
<1>9. ASSUME tx_queue' = <<>>, partial_send' = None, to_client' = <<>>, link' = FALSE,
             \A p \in Items(to_broker') : p \in Items(to_broker) \/ p.kind # "publish"
      PROVE  Carried'
  <2>1. Own' = {} /\ Items(to_client') = {}
    BY <1>9 DEF Own, Items
  <2>2. \A p \in Items(to_broker') : Known(p)'
    BY <1>9 DEF Carried, Known, NeverNew
  <2>3. QED
    BY <1>9, <2>1, <2>2 DEF Carried
<1>10. CASE SelfHeal
  BY <1>9, <1>10 DEF SelfHeal, ResetTransientState
<1>11. CASE Disconnect
  <2>1. UNCHANGED to_broker \/ to_broker' = Append(to_broker, Packet("disconnect", 0, None))
    BY <1>11 DEF Disconnect
  <2>2. PICK p \in OutPackets : p = Packet("disconnect", 0, None) /\ p.kind # "publish"
    BY PacketType, IdsType, ArgTypes DEF OutKinds, Packet
  <2>3. Items(Append(to_broker, p)) = Items(to_broker) \cup {p}
    BY ItemsAppend DEF TypeOK
  <2>4. \A x \in Items(to_broker') : x \in Items(to_broker) \/ x.kind # "publish"
    BY <2>1, <2>2, <2>3
  <2>5. QED
    BY <1>9, <1>11, <2>4 DEF Disconnect, ResetTransientState
<1>12. ASSUME NEW i \in Ids, in_flight' = [in_flight EXCEPT ![i] = None],
              UNCHANGED next_packet_id
       PROVE  Grows
  BY <1>2, <1>12 DEF Grows, InFlightIds, TypeOK
<1>13. CASE ReceivePubAck
  <2>1. Grows
    BY <1>3, <1>12, <1>13 DEF ReceivePubAck, InFlightIds, ids
  <2>2. /\ UNCHANGED <<tx_queue, partial_send, link, to_broker>>
        /\ Items(to_client') \subseteq Items(to_client)
    BY <1>5, <1>13 DEF ReceivePubAck, Incoming, outbox
  <2>3. QED
    BY <1>1, <1>4, <2>1, <2>2, CarriedStep
<1>14. ASSUME NEW i \in Ids, RetriesExhausted(i) PROVE Carried'
  <2>1. Grows
    BY <1>12, <1>14 DEF RetriesExhausted
  <2>2. UNCHANGED <<tx_queue, partial_send, link, to_broker, to_client>>
    BY <1>14 DEF RetriesExhausted, outbox, wire
  <2>3. QED
    BY <1>1, <1>4, <2>1, <2>2, CarriedStep
<1>15. ASSUME NEW i \in Ids, Retransmit(i) PROVE Carried'
  <2>1. PICK p : p = Packet("publish", i, in_flight[i].msg)
    OBVIOUS
  <2>2. /\ i \in InFlightIds /\ in_flight[i].msg \in Messages
        /\ tx_queue' = Append(tx_queue, p) /\ p \in OutPackets
        /\ UNCHANGED <<next_packet_id, status, partial_send, wire>>
        /\ InFlightIds' = InFlightIds
        /\ \A j \in InFlightIds : in_flight'[j].msg = in_flight[j].msg
    BY <1>15, <2>1, RetransmitStep
  <2>3. Grows
    BY <1>2, <2>2 DEF Grows
  <2>4. Known(p)' /\ Matches(p)'
    <3>1. p.kind = "publish" /\ p.id = i /\ p.arg = in_flight[i].msg
      BY <2>1 DEF Packet
    <3>2. status[in_flight[i].msg] = "accepted" /\ i < next_packet_id
      BY <2>2 DEF Books, InFlightKept, Unwrapped
    <3>3. QED
      BY <2>2, <3>1, <3>2 DEF Known, Matches
  <2>5. Items(tx_queue') = Items(tx_queue) \cup {p}
    BY <2>2, ItemsAppend DEF TypeOK
  <2>6. \A x \in Own' : x \in Own \/ (Known(x)' /\ Matches(x)')
    BY <2>2, <2>4, <2>5 DEF Own
  <2>7. QED
    BY <1>1, <2>2, <2>3, <2>6, CarriedStep DEF wire
<1>16. ASSUME ~SelfHeal PROVE next_packet_id <= next_packet_id'
  BY <1>16
<1>17. CASE DrainPreConnect
  <2>1. PICK m \in Waiting :
           /\ m \in Publications /\ (DoPublish(m) \/ DoPublishRaises(m))
           /\ UNCHANGED <<status, partial_send, wire>>
    BY <1>17, ReplayStep
  <2>2. status'[m] # "new"
    BY <2>1 DEF Books, WaitingKept
  <2>3. ~SelfHeal
    BY <1>17 DEF DrainPreConnect, SelfHeal
  <2>4. QED
    BY <1>1, <1>16, <2>1, <2>2, <2>3, CarriedPublish
<1>18. ASSUME NEW m \in Publications, Publish(m) PROVE Carried'
  <2>1. UNCHANGED <<partial_send, wire>> /\ status[m] = "new"
    BY <1>18 DEF Publish
  <2>2. CASE /\ state = "connected"
             /\ \/ DoPublish(m) /\ status' = [status EXCEPT ![m] = "accepted"]
                \/ DoPublishRaises(m)
    <3>1. ~SelfHeal
      BY <2>2 DEF SelfHeal
    <3>2. DoPublish(m) => status'[m] = "accepted"
      BY <2>2 DEF DoPublish, DoPublishRaises, TypeOK
    <3>3. QED
      BY <1>1, <1>16, <2>1, <2>2, <3>1, <3>2, CarriedPublish
  <2>3. CASE UNCHANGED <<tx_queue, ids>>
    BY <1>1, <1>3, <1>4, <2>1, <2>3, CarriedStep DEF wire
  <2>4. QED
    BY <1>18, <2>2, <2>3 DEF Publish
<1>19. QED
  BY <1>6, <1>7, <1>8, <1>10, <1>11, <1>13, <1>14, <1>15, <1>17, <1>18, ClientSteps
     DEF IdsSuffice

(* A PUBACK of the broker confirms what it has just stored.                 *)
LEMMA CarriedBroker ==
  ASSUME TypeOK, TypeOK', Unwrapped, Carried, Broker \/ LinkBreaks
  PROVE  Unwrapped' /\ Carried'
<1> USE DEF clientVars, Take
<1>1. UNCHANGED <<ids, registry, outbox, app, calls>>
  BY DEF Broker, LinkBreaks, BrokerAccepts, BrokerRefuses, BrokerStores, BrokerGrants,
         BrokerUnsubscribes, BrokerPongs, BrokerAcked, BrokerCloses, BrokerPublishes
<1>2. /\ UNCHANGED <<in_flight, next_packet_id, status, pre_connect_queue, calls>>
      /\ Own' = Own /\ InFlightIds' = InFlightIds /\ Waiting' = Waiting /\ Begun' = Begun
  BY <1>1 DEF ids, registry, outbox, app, Own, InFlightIds, Waiting, Begun
<1>3. Unwrapped'
  BY <1>2 DEF Unwrapped
<1>4. NeverNew /\ Grows
  BY <1>2, IdsType DEF NeverNew, Grows, TypeOK
<1>5. /\ stored \subseteq stored' /\ (link' => link)
      /\ to_broker' \in {to_broker, <<>>} \/ (to_broker # <<>> /\ to_broker' = Tail(to_broker))
  BY DEF Broker, LinkBreaks, BrokerAccepts, BrokerRefuses, BrokerStores, BrokerGrants,
         BrokerUnsubscribes, BrokerPongs, BrokerAcked, BrokerCloses, BrokerPublishes,
         Reply, Packets, broker
<1>6. Items(to_broker') \subseteq Items(to_broker)
  <2>1. PICK q \in Seq(OutPackets) : q = to_broker
    BY DEF TypeOK
  <2>2. q # <<>> => Items(q) = {Head(q)} \cup Items(Tail(q))
    BY <2>1, ItemsTail
  <2>3. Items(<<>>) = {}
    BY DEF Items
  <2>4. QED
    BY <1>5, <2>1, <2>2, <2>3
<1>7. ASSUME NEW p \in WellFormedPackets, to_client' = Append(to_client, p), Answered(p)'
      PROVE  \A x \in Items(to_client') : x \in Items(to_client) \/ Answered(x)'
  <2>1. Items(to_client') = Items(to_client) \cup {p}
    BY <1>7, ItemsAppend DEF TypeOK
  <2>2. QED
    BY <1>7, <2>1
<1>8. ASSUME NEW k \in {"accepted", "resumed", "refused", "banned", "pingresp"}
                      \cup {"suback", "rejected", "unsuback"},
             NEW id \in 0..MaxPacketId,
             k \in {"accepted", "resumed", "refused", "banned", "pingresp"} => id = 0,
             to_client' \in {to_client, Append(to_client, Packet(k, id, None))}
      PROVE  \A x \in Items(to_client') : x \in Items(to_client) \/ Answered(x)'
  <2>1. PICK p \in WellFormedPackets : p = Packet(k, id, None)
    BY <1>8, ReplyIsPeer
  <2>2. Answered(p)'
    BY <2>1 DEF Answered, Packet
  <2>3. QED
    BY <1>7, <1>8, <2>1, <2>2
<1>9. 0 \in 0..MaxPacketId /\ (to_broker # <<>> => Head(to_broker).id \in 0..MaxPacketId)
  BY IdsType, HeadType
<1>10. ASSUME \A x \in Items(to_client') : x \in Items(to_client) \/ Answered(x)'
       PROVE  Carried'
  <2>1. /\ \A p \in Own' : p \in Own
        /\ \A p \in Items(to_broker') : p \in Items(to_broker)
    BY <1>2, <1>6
  <2>2. stored \subseteq stored' /\ (link' => link)
    BY <1>5
  <2>3. QED
    BY <1>4, <1>10, <2>1, <2>2, CarriedStep
<1>11. CASE BrokerAccepts
  <2>1. Reply("resumed", 0) \/ Reply("accepted", 0)
    BY <1>11 DEF BrokerAccepts
  <2>2. QED
    BY <1>3, <1>8, <1>9, <1>10, <2>1 DEF Reply
<1>12. CASE BrokerRefuses
  <2>1. \E k \in {"refused", "banned"} :
          to_client' \in {to_client, Append(to_client, Packet(k, 0, None))}
    BY <1>12 DEF BrokerRefuses
  <2>2. QED
    BY <1>3, <1>8, <1>9, <1>10, <2>1
<1>13. CASE BrokerGrants \/ BrokerUnsubscribes
  <2>1. to_broker # <<>> /\ \E k \in {"suback", "rejected", "unsuback"} :
          to_client' \in {to_client, Append(to_client, Packet(k, Head(to_broker).id, None))}
    BY <1>13 DEF BrokerGrants, BrokerUnsubscribes, Reply, Packets
  <2>2. QED
    BY <1>3, <1>8, <1>9, <1>10, <2>1
<1>14. CASE BrokerPongs
  BY <1>3, <1>8, <1>9, <1>10, <1>14 DEF BrokerPongs, Reply
<1>15. ASSUME UNCHANGED to_client PROVE Carried'
  BY <1>10, <1>15
<1>16. CASE BrokerAcked \/ BrokerCloses \/ LinkBreaks
  BY <1>3, <1>15, <1>16 DEF BrokerAcked, BrokerCloses, LinkBreaks
<1>17. ASSUME NEW b \in Inbound, BrokerPublishes(b) PROVE Carried'
  <2>1. PICK p \in WellFormedPackets : p = Packet("publish", 0, b)
    BY DEF Packet, WellFormedPackets
  <2>2. Answered(p)' /\ to_client' = Append(to_client, p)
    BY <1>17, <2>1 DEF Answered, Packet, BrokerPublishes
  <2>3. QED
    BY <1>7, <1>10, <2>2
<1>18. CASE BrokerStores
  <2>1. PICK h \in OutPackets : h = Head(to_broker) /\ h \in Items(to_broker)
    <3>1. PICK q \in Seq(OutPackets) : q = to_broker /\ q # <<>>
      BY <1>18 DEF BrokerStores, Packets, TypeOK
    <3>2. Items(q) = {Head(q)} \cup Items(Tail(q)) /\ Head(q) \in OutPackets
      BY <3>1, ItemsTail, HeadTailProperties
    <3>3. QED
      BY <3>1, <3>2
  <2>2. /\ h.kind = "publish" /\ stored' = stored \cup {h.arg}
        /\ h.id = 0 => UNCHANGED to_client
        /\ h.id # 0 => to_client' = IF link THEN Append(to_client, Packet("puback", h.id, None))
                                           ELSE to_client
    BY <1>18, <2>1 DEF BrokerStores, Packets, Reply
  <2>3. CASE h.id # 0 /\ link
    <3>1. PICK p \in WellFormedPackets : p = Packet("puback", h.id, None)
      BY <2>1, ReplyIsPeer DEF OutPackets
    <3>2. Matches(h)
      BY <2>1, <2>3 DEF Carried
    <3>3. /\ h.id < next_packet_id
          /\ in_flight[h.id] # None => in_flight[h.id].msg \in stored'
      BY <2>2, <2>3, <3>2 DEF Matches
    <3>4. p.id = h.id /\ (h.id \in InFlightIds => in_flight[h.id] # None)
      BY <3>1 DEF Packet, InFlightIds
    <3>5. Answered(p)'
      BY <1>2, <3>3, <3>4 DEF Answered
    <3>6. QED
      BY <1>3, <1>7, <1>10, <2>2, <2>3, <3>1, <3>5
  <2>4. QED
    BY <1>3, <1>15, <2>2, <2>3
<1>19. QED
  BY <1>3, <1>11, <1>12, <1>13, <1>14, <1>16, <1>17, <1>18 DEF Broker

DeliveryInv == TypeOK /\ Books /\ Unwrapped /\ Carried

LEMMA DeliveryNext ==
  ASSUME IdsSuffice, DeliveryInv, [SysNext]_sysvars, TypeOK', Books'
  PROVE  DeliveryInv'
<1>1. TypeOK /\ Books /\ Unwrapped /\ Carried
  BY DEF DeliveryInv
<1>2. CASE Client
  <2>1. NeverNew
    BY <1>1, BegunStays, SysStep
  <2>2. Unwrapped' /\ (~SelfHeal => next_packet_id <= next_packet_id')
    BY <1>1, <1>2, <2>1, UnwrappedClient
  <2>3. Carried'
    BY <1>1, <1>2, <2>1, <2>2, CarriedClient
  <2>4. QED
    BY <2>2, <2>3 DEF DeliveryInv
<1>3. CASE Broker \/ LinkBreaks
  BY <1>1, <1>3, CarriedBroker DEF DeliveryInv
<1>4. CASE UNCHANGED sysvars
  <2>1. /\ UNCHANGED <<in_flight, next_packet_id, status, pre_connect_queue, calls,
                       link, stored, to_broker, to_client, tx_queue, partial_send>>
    BY <1>4 DEF sysvars, vars, ids, registry, app, wire, outbox, broker
  <2>2. /\ Own' = Own /\ InFlightIds' = InFlightIds /\ Waiting' = Waiting /\ Begun' = Begun
    BY <2>1 DEF Own, InFlightIds, Waiting, Begun
  <2>3. Unwrapped'
    BY <1>1, <2>1, <2>2 DEF Unwrapped
  <2>4. Carried'
    BY <1>1, <2>1, <2>2 DEF Carried, Known, Matches, Answered
  <2>5. QED
    BY <2>3, <2>4 DEF DeliveryInv
<1>5. QED
  BY <1>2, <1>3, <1>4 DEF SysNext

-----------------------------------------------------------------------------
(* Every step is a step of AtLeastOnce or leaves its variables alone.       *)
Stutters == UNCHANGED Delivery!vars

LEMMA FateStep ==
  ASSUME TypeOK, UNCHANGED stored
  PROVE  /\ (\A m \in Messages : status'[m] = status[m]) => Stutters
         /\ \A S \in SUBSET Messages :
              /\ \A m \in S : status[m] = "accepted"
              /\ \A m \in Messages : status'[m] = IF m \in S THEN "dropped" ELSE status[m]
              => Delivery!GiveUp(S)
  BY DEF Stutters, Delivery!vars, Delivery!GiveUp

LEMMA DeliveryClient ==
  ASSUME IdsSuffice, DeliveryInv, Client
  PROVE  Delivery!Next \/ Stutters
<1> USE DEF app
<1>1. TypeOK /\ Books /\ Carried /\ UNCHANGED stored
  BY DEF DeliveryInv, Client
<1>2. Messages \subseteq Publications /\ Messages \cap Events = {}
  BY ClientAssumption DEF Publications, ClientAssumption
<1>3. ASSUME UNCHANGED status PROVE Stutters
  BY <1>1, <1>3, FateStep
<1>4. ASSUME NEW S, Drop(S), \A m \in S \cap Messages : status[m] = "accepted"
      PROVE  Delivery!Next
  <2>1. PICK T \in SUBSET Messages : T = S \cap Messages
    OBVIOUS
  <2>2. \A m \in Messages : status'[m] = IF m \in T THEN "dropped" ELSE status[m]
    BY <1>2, <1>4, <2>1 DEF Drop
  <2>3. Delivery!GiveUp(T)
    BY <1>1, <1>4, <2>1, <2>2, FateStep
  <2>4. QED
    BY <2>3 DEF Delivery!Next
<1>5. ASSUME NEW S, Acknowledge(S), S \cap Messages = {} PROVE Stutters
  <2>1. \A m \in Messages : status'[m] = status[m]
    BY <1>2, <1>5 DEF Acknowledge
  <2>2. QED
    BY <1>1, <2>1, FateStep
<1>6. CASE Minor \/ Protocol
  BY <1>1, <1>3, <1>6, MinorStep, ProtocolStep
<1>7. CASE SelfHeal
  <2>1. \A m \in InFlightMsgs : status[m] = "accepted"
    BY <1>1 DEF Books, InFlightKept, InFlightMsgs
  <2>2. Drop(InFlightMsgs) \/ UNCHANGED status
    BY <1>7 DEF SelfHeal
  <2>3. QED
    BY <1>3, <1>4, <2>1, <2>2
<1>8. CASE Disconnect
  <2>1. PICK S : S = {pre_connect_queue[i] : i \in DOMAIN pre_connect_queue}
    OBVIOUS
  <2>2. S = Waiting
    BY <1>1, <2>1, LenProperties DEF Waiting, Items, TypeOK
  <2>3. Drop(S) /\ \A m \in S : status[m] = "accepted"
    BY <1>1, <1>8, <2>1, <2>2 DEF Disconnect, Books, WaitingKept
  <2>4. QED
    BY <1>4, <2>3
<1>9. ASSUME NEW i \in Ids, RetriesExhausted(i) PROVE Delivery!Next \/ Stutters
  <2>1. i \in InFlightIds
    BY <1>9 DEF RetriesExhausted, InFlightIds
  <2>2. status[in_flight[i].msg] = "accepted"
    BY <1>1, <2>1 DEF Books, InFlightKept
  <2>3. PICK S : S = {in_flight[i].msg}
    OBVIOUS
  <2>4. Drop(S)
    BY <1>9, <2>3 DEF RetriesExhausted
  <2>5. QED
    BY <1>4, <2>2, <2>3, <2>4
<1>10. ASSUME NEW i \in Ids, Retransmit(i) PROVE Delivery!Next \/ Stutters
  BY <1>1, <1>3, <1>10, RetransmitStep
<1>11. CASE DrainPreConnect
  BY <1>1, <1>3, <1>11, ReplayStep
<1>12. CASE ReceivePubAck
  <2>1. PICK p \in WellFormedPackets : p = Head(to_client) /\ p.kind = "puback" /\ p \in Items(to_client)
    <3>1. PICK q \in Seq(WellFormedPackets) : q = to_client /\ q # <<>>
      BY <1>1, <1>12 DEF ReceivePubAck, Incoming, TypeOK
    <3>2. Items(q) = {Head(q)} \cup Items(Tail(q)) /\ Head(q) \in WellFormedPackets
      BY <3>1, ItemsTail, HeadTailProperties
    <3>3. Head(to_client).kind = "puback"
      BY <1>12 DEF ReceivePubAck, Incoming
    <3>4. QED
      BY <3>1, <3>2, <3>3
  <2>2. PICK i : i = p.id
    OBVIOUS
  <2>3. CASE i \in InFlightIds /\ status' = [status EXCEPT ![in_flight[i].msg] = "acked"]
    <3>1. PICK m \in Messages : m = in_flight[i].msg
      BY <1>1, <2>3, InFlightType DEF InFlightIds
    <3>2. status[m] = "accepted" /\ m \in stored
      BY <1>1, <2>1, <2>2, <2>3, <3>1 DEF Books, InFlightKept, Carried, Answered
    <3>3. \A x \in Messages : status'[x] = IF x = m THEN "acked" ELSE status[x]
      BY <1>1, <1>2, <2>3, <3>1 DEF TypeOK
    <3>4. Delivery!Confirm(m)
      BY <1>1, <3>1, <3>2, <3>3 DEF Delivery!Confirm
    <3>5. QED
      BY <3>1, <3>4 DEF Delivery!Next
  <2>4. QED
    BY <1>3, <1>12, <2>1, <2>2, <2>3 DEF ReceivePubAck
<1>13. CASE Send
  <2>1. ASSUME NEW q \in Seq(OutPackets), NEW n \in 0..Len(q), MarkerPrefix(q, n),
               Items(q) \subseteq Items(tx_queue)
        PROVE  MarkedIn(q, n) \cap Messages = {}
    <3>1. \A j \in 1..n : j \in 1..Len(q) /\ IsMarker(q[j])
      BY <2>1, LenProperties DEF MarkerPrefix
    <3>2. \A j \in 1..n : q[j].arg \in Events
      BY <1>1, <2>1, <3>1 DEF Books, MarkersOfEvents, Items
    <3>3. QED
      BY <1>2, <3>2 DEF MarkedIn
  <2>2. ASSUME NEW n \in 0..Len(tx_queue), MarkerPrefix(tx_queue, n)
        PROVE  MarkedIn(tx_queue, n) \cap Messages = {}
    BY <1>1, <2>1, <2>2 DEF TypeOK
  <2>3. CASE DrainPartial
    BY <1>3, <2>3 DEF DrainPartial
  <2>4. ASSUME NEW n \in 0..Len(tx_queue), Drain(n) PROVE Stutters
    <3>1. PICK q : q = Rest(tx_queue, n)
      OBVIOUS
    <3>2. MarkerPrefix(tx_queue, n) /\ q \in Seq(OutPackets) /\ Items(q) \subseteq Items(tx_queue)
      BY <1>1, <2>4, <3>1, RestProperties, ItemsRest DEF Drain, TypeOK
    <3>3. ASSUME q # <<>>, NEW k \in 0..Len(Tail(q)), MarkerPrefix(Tail(q), k)
          PROVE  MarkedIn(Tail(q), k) \cap Messages = {}
      <4>1. PICK t \in Seq(OutPackets) : t = Tail(q) /\ Items(t) \subseteq Items(tx_queue)
        BY <3>2, <3>3, ItemsTail, HeadTailProperties
      <4>2. QED
        BY <2>1, <3>3, <4>1
    <3>4. \/ Acknowledge(MarkedIn(tx_queue, n))
          \/ /\ q # <<>>
             /\ \E k \in 0..Len(Tail(q)) :
                  /\ MarkerPrefix(Tail(q), k)
                  /\ Acknowledge(MarkedIn(tx_queue, n) \cup MarkedIn(Tail(q), k))
      BY <2>4, <3>1 DEF Drain
    <3>5. QED
      BY <1>5, <2>2, <3>2, <3>3, <3>4
  <2>5. ASSUME NEW n \in 0..Len(tx_queue), DrainFails(n) PROVE Stutters
    <3>1. Acknowledge(MarkedIn(tx_queue, n))
      BY <2>5 DEF DrainFails
    <3>2. MarkedIn(tx_queue, n) \cap Messages = {}
      <4>1. CASE n = 0
        BY <4>1 DEF MarkedIn
      <4>2. CASE n # 0
        BY <2>2, <2>5, <4>2 DEF DrainFails
      <4>3. QED
        BY <4>1, <4>2
    <3>3. QED
      BY <1>5, <3>1, <3>2
  <2>6. QED
    BY <1>13, <2>3, <2>4, <2>5 DEF Send
<1>14. ASSUME NEW m \in Publications, Publish(m) PROVE Delivery!Next \/ Stutters
  <2>1. CASE status' = status
    BY <1>3, <2>1
  <2>2. CASE status' = [status EXCEPT ![m] = "accepted"]
    <3>1. \A x \in Publications : status'[x] = IF x = m THEN "accepted" ELSE status[x]
      BY <1>1, <2>2 DEF TypeOK
    <3>2. CASE m \in Messages
      <4>1. Delivery!Accept(m)
        BY <1>1, <1>2, <1>14, <3>1, <3>2 DEF Publish, Delivery!Accept
      <4>2. QED
        BY <3>2, <4>1 DEF Delivery!Next
    <3>3. CASE m \notin Messages
      <4>1. \A x \in Messages : status'[x] = status[x]
        BY <1>2, <3>1, <3>3
      <4>2. QED
        BY <1>1, <4>1, FateStep
    <3>4. QED
      BY <3>2, <3>3
  <2>3. QED
    BY <1>14, <2>1, <2>2 DEF Publish
<1>15. QED
  BY <1>6, <1>7, <1>8, <1>9, <1>10, <1>11, <1>12, <1>13, <1>14, ClientSteps DEF IdsSuffice

LEMMA DeliveryBroker ==
  ASSUME DeliveryInv, Broker \/ LinkBreaks
  PROVE  Delivery!Next \/ Stutters
<1> USE DEF clientVars, Take, app
<1>1. TypeOK /\ Carried
  BY DEF DeliveryInv
<1>2. UNCHANGED status
  BY DEF Broker, LinkBreaks, BrokerAccepts, BrokerRefuses, BrokerStores, BrokerGrants,
         BrokerUnsubscribes, BrokerPongs, BrokerAcked, BrokerCloses, BrokerPublishes
<1>3. CASE BrokerStores
  <2>1. PICK h \in OutPackets : /\ h = Head(to_broker) /\ h \in Items(to_broker)
                                /\ h.kind = "publish" /\ stored' = stored \cup {h.arg}
    <3>1. PICK q \in Seq(OutPackets) : q = to_broker /\ q # <<>>
      BY <1>1, <1>3 DEF BrokerStores, Packets, TypeOK
    <3>2. Items(q) = {Head(q)} \cup Items(Tail(q)) /\ Head(q) \in OutPackets
      BY <3>1, ItemsTail, HeadTailProperties
    <3>3. QED
      BY <1>3, <3>1, <3>2 DEF BrokerStores, Packets
  <2>2. CASE h.arg \in Messages
    <3>1. PICK m \in Messages : m = h.arg
      BY <2>2
    <3>2. status[m] # "new"
      BY <1>1, <2>1, <3>1 DEF Carried, Known
    <3>3. stored' \cap Messages = (stored \cap Messages) \cup {m}
      BY <2>1, <3>1
    <3>4. Delivery!Store(m)
      BY <1>2, <3>1, <3>2, <3>3 DEF Delivery!Store
    <3>5. QED
      BY <3>4 DEF Delivery!Next
  <2>3. CASE h.arg \notin Messages
    <3>1. stored' \cap Messages = stored \cap Messages
      BY <2>1, <2>3
    <3>2. QED
      BY <1>2, <3>1 DEF Stutters, Delivery!vars
  <2>4. QED
    BY <2>2, <2>3
<1>4. CASE ~BrokerStores
  <2>1. UNCHANGED stored
    BY <1>4 DEF Broker, LinkBreaks, BrokerAccepts, BrokerRefuses, BrokerGrants,
         BrokerUnsubscribes, BrokerPongs, BrokerAcked, BrokerCloses, BrokerPublishes, broker
  <2>2. QED
    BY <1>1, <1>2, <2>1, FateStep
<1>5. QED
  BY <1>3, <1>4

LEMMA DeliveryInit == SysInit => DeliveryInv /\ Delivery!Init
<1> SUFFICES ASSUME SysInit PROVE DeliveryInv /\ Delivery!Init
  OBVIOUS
<1>1. TypeOK /\ Books
  BY TypeInit, BooksInit DEF SysInit
<1>2. /\ tx_queue = <<>> /\ partial_send = None /\ pre_connect_queue = <<>>
      /\ to_broker = <<>> /\ to_client = <<>> /\ next_packet_id = 1 /\ calls = 0
      /\ InFlightIds = {} /\ stored = {} /\ status = [m \in Publications |-> "new"]
  BY DEF SysInit, Init, InFlightIds
<1>3. Own = {} /\ Items(to_broker) = {} /\ Items(to_client) = {} /\ Waiting = {}
  BY <1>2 DEF Own, Items, Waiting
<1>4. Begun = {} /\ Waiting \cap Messages = {}
  BY <1>2, <1>3 DEF Begun, Publications
<1>5. Cardinality({}) = 0
  BY FS_EmptySet
<1>6. Unwrapped
  <2>1. Cardinality(Begun) = 0 /\ Cardinality(Waiting \cap Messages) = 0
    BY <1>4, <1>5
  <2>2. next_packet_id + Cardinality(Waiting \cap Messages) <= Cardinality(Begun) + calls + 1
    BY <1>2, <2>1
  <2>3. QED
    BY <1>2, <2>2, SystemAssumption DEF Unwrapped, SystemAssumption
<1>7. Carried
  BY <1>3 DEF Carried
<1>8. Delivery!Init
  BY <1>2 DEF Delivery!Init, Publications
<1>9. QED
  BY <1>1, <1>6, <1>7, <1>8 DEF DeliveryInv

(* As long as the packet ids do not wrap around, the client implements      *)
(* at-least-once delivery: what it accepts is confirmed only once the       *)
(* broker has it, and decided once and for all, whatever fails on the way.  *)
THEOREM DeliveryCorrect ==
  ASSUME IdsSuffice
  PROVE  SysSpec => ImplementsAtLeastOnce
<1>1. DeliveryInv /\ TypeOK' /\ Books' /\ [SysNext]_sysvars => DeliveryInv'
  BY DeliveryNext
<1>2. DeliveryInv /\ [SysNext]_sysvars => [Delivery!Next]_(Delivery!vars)
  <2> SUFFICES ASSUME DeliveryInv, [SysNext]_sysvars
               PROVE  Delivery!Next \/ Stutters
    BY DEF Stutters
  <2>1. CASE UNCHANGED sysvars
    <3>1. UNCHANGED <<status, stored>>
      BY <2>1 DEF sysvars, vars, app, broker
    <3>2. QED
      BY <3>1, FateStep DEF DeliveryInv
  <2>2. QED
    BY <2>1, DeliveryClient, DeliveryBroker DEF SysNext
<1>3. QED
  BY <1>1, <1>2, DeliveryInit, SystemIsClient, TypeCorrect, BooksCorrect, PTL
     DEF SysSpec, ImplementsAtLeastOnce, Delivery!Spec

-----------------------------------------------------------------------------
(* Subscriptions.  The packet ids order what the client asks: it sends      *)
(* SUBSCRIBE and UNSUBSCRIBE under rising ids, the broker reads them in     *)
(* that order, and the last one about a topic says what the application     *)
(* wants.  So a topic is either settled, or an ack of that last one is      *)
(* still to come.                                                           *)

Under   == Items(to_broker) \cup Own     \* on its way to the broker
Asks(x) == x.kind \in {"subscribe", "unsubscribe"}
Acks(a) == a.kind \in {"suback", "unsuback"}
Asked   == Awaiting("suback") \cup Awaiting("unsuback")
Answers(a, p) == a.kind = p.awaiting /\ a.id = p.id

(* Until the client has read the CONNACK nothing is asked or answered; a    *)
(* clean session begins with no subscription; the replay is over when the   *)
(* CONNACK has been dealt with.                                             *)
Greeting == \E x \in Under : x.kind = "connect"
Welcome  == \E a \in Items(to_client) : a.kind \in Connack
Unasked  == /\ Asked = {} /\ \A x \in Under : ~Asks(x)
            /\ \A a \in Items(to_client) : ~Acks(a)

OpenInv ==
  /\ ConnackInFront(to_client)
  /\ state = "disconnected" => to_client = <<>>
  /\ ~(Greeting /\ Welcome)
  /\ Greeting \/ Welcome => state # "connected" /\ Unasked
  /\ CleanSession /\ Welcome => broker_subs = {}
  /\ pc # "replay" => todo = {}
  /\ broker_subs \subseteq Topics
  /\ \A x \in Under : Asks(x) => x.arg \in Topics

(* The ids ahead of the counter are free: without wrap-around it only grows *)
(* until a self-heal starts a session over.                                 *)
NoWrap == next_packet_id < MaxPacketId
IdsInOrder == \A i \in InFlightIds : i < next_packet_id

Lower(x, y) == Asks(x) /\ Asks(y) => x.id < y.id
Rising(q)   == \A i, j \in 1..Len(q) : i < j => Lower(q[i], q[j])

Order ==
  /\ Rising(to_broker) /\ Rising(tx_queue)
  /\ \A x \in Items(to_broker), y \in Own : Lower(x, y)
  /\ \A x \in {partial_send} \ {None}, y \in Items(tx_queue) : Lower(x, y)

Below ==
  /\ \A p \in Asked : p.id < next_packet_id
  /\ \A x \in Under : Asks(x) => x.id < next_packet_id
  /\ \A a \in Items(to_client) : Acks(a) => a.id < next_packet_id

Clear(t)    == \A x \in Under : Asks(x) => x.arg # t
Settled(t)  == Clear(t) /\ (t \in broker_subs <=> t \in Declared)
Wanted(t)   == IF t \in Declared THEN "suback" ELSE "unsuback"
Wanting(t)  == IF t \in Declared THEN "subscribe" ELSE "unsubscribe"
Due(t, p)   == \A x \in Under : Asks(x) =>
                 /\ x.arg = t => x.id <= p.id
                 /\ x.id = p.id => x.arg = t /\ x.kind = Wanting(t)
Coming(t)   == \E p \in Awaiting(Wanted(t)) :
                 /\ p.topic = t
                 /\ \A a \in Items(to_client) : ~Answers(a, p)
                 /\ Due(t, p)
Unsent(t)   == t \in Declared /\ Clear(t) /\ t \notin broker_subs

Subscribed ==
  /\ Order /\ Below
  /\ \A t \in Topics : IF t \in todo THEN Unsent(t) ELSE Settled(t) \/ Coming(t)

SubsInv == /\ IdsInOrder
           /\ state = "connected" => Subscribed

-----------------------------------------------------------------------------
(* Rising queues.                                                           *)
LEMMA RisingAppend ==
  ASSUME NEW S, NEW q \in Seq(S), NEW x \in S, Rising(q),
         \A y \in Items(q) : Lower(y, x)
  PROVE  Rising(Append(q, x))
<1>1. PICK l \in Nat : l = Len(q)
  BY LenProperties
<1>2. PICK a : a = Append(q, x)
  OBVIOUS
<1>3. Len(a) = l + 1 /\ a[l + 1] = x /\ \A i \in 1..l : a[i] = q[i]
  BY <1>1, <1>2, AppendProperties
<1>4. ASSUME NEW i \in 1..(l + 1), NEW j \in 1..(l + 1), i < j
      PROVE  Lower(a[i], a[j])
  <2>1. i \in 1..l /\ a[i] = q[i] /\ q[i] \in Items(q)
    BY <1>1, <1>3, <1>4 DEF Items
  <2>2. CASE j = l + 1
    BY <1>3, <2>1, <2>2
  <2>3. CASE j \in 1..l
    BY <1>1, <1>3, <1>4, <2>1, <2>3 DEF Rising
  <2>4. QED
    BY <2>2, <2>3
<1>5. QED
  BY <1>2, <1>3, <1>4 DEF Rising

LEMMA RisingCons ==
  ASSUME NEW S, NEW q \in Seq(S), NEW x \in S, Rising(q), ~Asks(x)
  PROVE  Rising(<<x>> \o q)
<1>1. PICK l \in Nat : l = Len(q)
  BY LenProperties
<1>2. PICK a : a = <<x>> \o q
  OBVIOUS
<1>3. Len(a) = l + 1 /\ a[1] = x /\ \A i \in 1..l : a[i + 1] = q[i]
  BY <1>1, <1>2, ItemsCons
<1>4. ASSUME NEW i \in 1..(l + 1), NEW j \in 1..(l + 1), i < j
      PROVE  Lower(a[i], a[j])
  <2>1. CASE i = 1
    BY <1>3, <2>1 DEF Lower
  <2>2. CASE i # 1
    <3>1. PICK m \in 1..l, n \in 1..l : i = m + 1 /\ j = n + 1 /\ m < n
      <4>1. i - 1 \in 1..l /\ j - 1 \in 1..l /\ i = (i - 1) + 1 /\ j = (j - 1) + 1
            /\ i - 1 < j - 1
        BY <1>4, <2>2
      <4>2. QED
        BY <4>1
    <3>2. a[i] = q[m] /\ a[j] = q[n]
      BY <1>3, <3>1
    <3>3. QED
      BY <1>1, <3>1, <3>2 DEF Rising
  <2>3. QED
    BY <2>1, <2>2
<1>5. QED
  BY <1>2, <1>3, <1>4 DEF Rising

LEMMA RisingTail ==
  ASSUME NEW S, NEW q \in Seq(S), q # <<>>, Rising(q)
  PROVE  Rising(Tail(q)) /\ \A y \in Items(Tail(q)) : Lower(Head(q), y)
<1>1. PICK l \in Nat : l = Len(q)
  BY LenProperties
<1>2. PICK t : t = Tail(q)
  OBVIOUS
<1>3. /\ Head(q) = q[1] /\ Len(t) = l - 1 /\ l > 0
      /\ \A i \in 1..(l - 1) : t[i] = q[i + 1]
  BY <1>1, <1>2, HeadTailProperties, EmptySeq, LenProperties
<1>4. \A i \in 1..(l - 1) : i + 1 \in 1..l /\ 1 < i + 1
  BY <1>3
<1>5. \A i, j \in 1..(l - 1) : i < j => i + 1 < j + 1
  OBVIOUS
<1>6. 1 \in 1..l
  BY <1>3
<1>7. Rising(t)
  BY <1>1, <1>3, <1>4, <1>5 DEF Rising
<1>8. \A i \in 1..(l - 1) : Lower(q[1], t[i])
  BY <1>1, <1>3, <1>4, <1>6 DEF Rising
<1>9. QED
  BY <1>2, <1>3, <1>7, <1>8 DEF Items

LEMMA RisingRest ==
  ASSUME NEW S, NEW q \in Seq(S), NEW n \in 0..Len(q), Rising(q)
  PROVE  Rising(Rest(q, n))
<1>1. PICK l \in Nat : l = Len(q)
  BY LenProperties
<1>2. PICK r : r = Rest(q, n)
  OBVIOUS
<1>3. Len(r) = l - n /\ \A i \in 1..(l - n) : r[i] = q[i + n]
  BY <1>1, <1>2, RestProperties
<1>4. \A i \in 1..(l - n) : i + n \in 1..l
  BY <1>1
<1>5. \A i, j \in 1..(l - n) : i < j => i + n < j + n
  BY <1>1
<1>6. Rising(r)
  BY <1>1, <1>3, <1>4, <1>5 DEF Rising
<1>7. QED
  BY <1>2, <1>6

(* Sending, and dropping what is lost with the link, keep the order.        *)
LEMMA OrderSent ==
  ASSUME TypeOK, Send, Order
  PROVE  Order'
<1>1. /\ tx_queue \in Seq(OutPackets) /\ to_broker \in Seq(OutPackets)
      /\ partial_send \in OutPackets \cup {None} /\ None \notin OutPackets
  BY NoneAssumption DEF TypeOK
<1>2. ASSUME NEW x \in Own \cap OutPackets, NEW q,
             Rising(q), Items(q) \subseteq Items(tx_queue),
             \A y \in Items(q) : Lower(x, y),
             to_broker' \in {Append(to_broker, x), to_broker},
             partial_send' = None, tx_queue' = q
      PROVE  Order'
  <2>1. PICK b \in Seq(OutPackets) : b = to_broker
    BY <1>1
  <2>2. /\ \A y \in Items(b) : Lower(y, x)
        /\ \A y \in Items(b), z \in Items(q) : Lower(y, z)
    BY <1>2, <2>1 DEF Order, Own
  <2>3. /\ Rising(Append(b, x)) /\ Items(Append(b, x)) = Items(b) \cup {x}
    BY <1>2, <2>1, <2>2, RisingAppend, ItemsAppend DEF Order
  <2>4. /\ Rising(to_broker') /\ \A y \in Items(to_broker'), z \in Items(q) : Lower(y, z)
    BY <1>2, <2>1, <2>2, <2>3 DEF Order
  <2>5. Own' = Items(q)
    BY <1>2 DEF Own
  <2>6. QED
    BY <1>2, <2>4, <2>5 DEF Order
<1>3. CASE DrainPartial
  <2>1. partial_send # None /\ UNCHANGED tx_queue
    BY <1>3 DEF DrainPartial
  <2>2. CASE UNCHANGED <<partial_send, to_broker>>
    BY <2>1, <2>2 DEF Order, Own
  <2>3. CASE partial_send' = None /\ to_broker' \in {Append(to_broker, partial_send), to_broker}
    <3>1. /\ partial_send \in Own \cap OutPackets
          /\ \A y \in Items(tx_queue) : Lower(partial_send, y)
      BY <1>1, <2>1 DEF Own, Order
    <3>2. Rising(tx_queue) /\ tx_queue' = tx_queue
      BY <2>1 DEF Order
    <3>3. QED
      BY <1>2, <2>3, <3>1, <3>2
  <2>4. QED
    BY <1>3, <2>2, <2>3 DEF DrainPartial, Sent
<1>4. ASSUME NEW n \in 0..Len(tx_queue), Drain(n)
      PROVE  Order'
  <2>1. PICK q : q = Rest(tx_queue, n)
    OBVIOUS
  <2>2. /\ partial_send = None /\ Own = Items(tx_queue)
        /\ q \in Seq(OutPackets) /\ Items(q) \subseteq Items(tx_queue) /\ Rising(q)
    BY <1>1, <1>4, <2>1, RestProperties, ItemsRest, RisingRest DEF Drain, Own, Order
  <2>3. \/ tx_queue' = q /\ UNCHANGED <<partial_send, to_broker>>
        \/ /\ q # <<>> /\ tx_queue' = Tail(q) /\ partial_send' = Head(q)
           /\ UNCHANGED to_broker
        \/ /\ q # <<>> /\ partial_send' = None
           /\ to_broker' \in {Append(to_broker, Head(q)), to_broker}
           /\ \/ tx_queue' = Tail(q)
              \/ \E j \in 0..Len(Tail(q)) : tx_queue' = Rest(Tail(q), j)
    BY <1>4, <2>1, <2>2 DEF Drain, Sent
  <2>4. CASE tx_queue' = q /\ UNCHANGED <<partial_send, to_broker>>
    BY <2>2, <2>4 DEF Order, Own
  <2>5. CASE q # <<>>
    <3>1. PICK x \in OutPackets, t \in Seq(OutPackets) :
            /\ x = Head(q) /\ t = Tail(q) /\ Items(q) = {x} \cup Items(t)
            /\ Rising(t) /\ \A y \in Items(t) : Lower(x, y)
      BY <2>2, <2>5, HeadTailProperties, ItemsTail, RisingTail
    <3>2. x \in Own \cap OutPackets /\ Items(t) \subseteq Items(tx_queue)
      BY <2>2, <3>1
    <3>3. CASE tx_queue' = t /\ partial_send' = x /\ UNCHANGED to_broker
      <4>1. Own' = Items(q)
        BY <1>1, <3>1, <3>3 DEF Own
      <4>2. QED
        BY <2>2, <3>1, <3>3, <4>1 DEF Order
    <3>4. CASE /\ partial_send' = None
               /\ to_broker' \in {Append(to_broker, x), to_broker}
               /\ tx_queue' = t
      BY <1>2, <3>1, <3>2, <3>4
    <3>5. ASSUME NEW j \in 0..Len(t), partial_send' = None,
                 to_broker' \in {Append(to_broker, x), to_broker},
                 tx_queue' = Rest(t, j)
          PROVE  Order'
      <4>1. PICK r : r = Rest(t, j) /\ Rising(r) /\ Items(r) \subseteq Items(t)
        BY <3>1, RisingRest, ItemsRest
      <4>2. QED
        BY <1>2, <3>1, <3>2, <3>5, <4>1
    <3>6. QED
      BY <2>3, <2>4, <3>1, <3>3, <3>4, <3>5
  <2>6. QED
    BY <2>3, <2>4, <2>5
<1>5. ASSUME NEW n \in 0..Len(tx_queue), DrainFails(n)
      PROVE  Order'
  <2>1. tx_queue' = Rest(tx_queue, n) /\ UNCHANGED <<partial_send, to_broker>>
    BY <1>5 DEF DrainFails, wire
  <2>2. PICK r : r = Rest(tx_queue, n) /\ Rising(r) /\ Items(r) \subseteq Items(tx_queue)
    BY <1>1, ItemsRest, RisingRest DEF Order
  <2>3. QED
    BY <2>1, <2>2 DEF Order, Own
<1>6. QED
  BY <1>3, <1>4, <1>5 DEF Send

(* So does queueing, behind the rest what asks under a higher id, in front  *)
(* what asks nothing.                                                       *)
LEMMA OrderQueued ==
  ASSUME TypeOK, Order, UNCHANGED <<to_broker, partial_send>>, NEW x \in OutPackets,
         \/ tx_queue' = Append(tx_queue, x) /\ \A y \in Under : Lower(y, x)
         \/ tx_queue' = <<x>> \o tx_queue /\ ~Asks(x)
  PROVE  Order' /\ Own' = Own \cup {x}
<1>1. PICK q \in Seq(OutPackets) : q = tx_queue
  BY DEF TypeOK
<1>2. CASE tx_queue' = Append(q, x) /\ \A y \in Under : Lower(y, x)
  <2>1. Items(Append(q, x)) = Items(q) \cup {x} /\ Rising(Append(q, x))
    BY <1>1, <1>2, ItemsAppend, RisingAppend DEF Order, Under, Own
  <2>2. QED
    BY <1>1, <1>2, <2>1 DEF Order, Under, Own
<1>3. CASE tx_queue' = <<x>> \o q /\ ~Asks(x)
  <2>1. Items(<<x>> \o q) = Items(q) \cup {x} /\ Rising(<<x>> \o q)
    BY <1>1, <1>3, ItemsCons, RisingCons DEF Order
  <2>2. \A y : Lower(y, x)
    BY <1>3 DEF Lower
  <2>3. QED
    BY <1>1, <1>3, <2>1, <2>2 DEF Order, Own
<1>4. QED
  BY <1>1, <1>2, <1>3

-----------------------------------------------------------------------------
(* The counter.                                                             *)
LEMMA NextTaken ==
  ASSUME TypeOK, NoWrap, IdsInOrder, NEW i \in Ids, IsNextFree(i), next_packet_id' = After(i)
  PROVE  /\ i = next_packet_id /\ next_packet_id' = next_packet_id + 1
         /\ next_packet_id \in Nat
<1>1. i = next_packet_id
  BY NextIsFree DEF IdsInOrder
<1>2. i < MaxPacketId /\ i \in Nat
  BY <1>1, IdsType DEF NoWrap
<1>3. QED
  BY <1>1, <1>2, AfterNoWrap

LEMMA TakenInOrder ==
  ASSUME TypeOK, NoWrap, IdsInOrder, NEW i \in Ids, IsNextFree(i), next_packet_id' = After(i),
         InFlightIds' \subseteq InFlightIds \cup {i}
  PROVE  IdsInOrder' /\ next_packet_id <= next_packet_id'
<1>1. PICK n \in Nat : n = next_packet_id /\ i = n /\ next_packet_id' = n + 1
  BY NextTaken
<1>2. \A j \in InFlightIds : j \in Nat /\ j < n
  BY <1>1, IdsType DEF IdsInOrder, InFlightIds
<1>3. \A j \in InFlightIds' : j < n + 1
  BY <1>1, <1>2
<1>4. QED
  BY <1>1, <1>3 DEF IdsInOrder

LEMMA IdsPublish ==
  ASSUME TypeOK, NoWrap, IdsInOrder, NEW m \in Publications, DoPublish(m) \/ DoPublishRaises(m)
  PROVE  IdsInOrder' /\ next_packet_id <= next_packet_id'
<1>1. CASE m \in Events
  <2>1. UNCHANGED ids /\ next_packet_id \in Nat
    BY <1>1, PublishTakes, IdsType DEF TypeOK
  <2>2. QED
    BY <2>1 DEF ids, IdsInOrder, InFlightIds
<1>2. CASE m \in Messages
  <2>1. PICK i \in Ids :
          /\ IsNextFree(i) /\ next_packet_id' = After(i)
          /\ \/ UNCHANGED <<tx_queue, in_flight>>
             \/ /\ tx_queue' = Append(tx_queue, Packet("publish", i, m))
                /\ in_flight' = [in_flight EXCEPT ![i] = [msg |-> m, retries |-> 0]]
    BY <1>2, PublishTakes DEF TakesId
  <2>2. InFlightIds' \subseteq InFlightIds \cup {i}
    BY <1>2, <2>1, TakenInFlight
  <2>3. QED
    BY <2>1, <2>2, TakenInOrder
<1>3. QED
  BY <1>1, <1>2 DEF Publications

LEMMA IdsClient ==
  ASSUME TypeOK, TypeOK', Books, NoWrap, IdsInOrder, Client
  PROVE  IdsInOrder' /\ (~SelfHeal => next_packet_id <= next_packet_id')
<1>1. next_packet_id \in Nat /\ next_packet_id <= next_packet_id
  BY IdsType DEF TypeOK
<1>2. ASSUME next_packet_id' = next_packet_id, InFlightIds' \subseteq InFlightIds
      PROVE  IdsInOrder' /\ next_packet_id <= next_packet_id'
  BY <1>1, <1>2 DEF IdsInOrder
<1>3. ASSUME UNCHANGED ids PROVE IdsInOrder' /\ next_packet_id <= next_packet_id'
  BY <1>2, <1>3 DEF ids, InFlightIds
<1>4. CASE Minor \/ Protocol \/ Send
  BY <1>3, <1>4, MinorStep, ProtocolStep, SendStep
<1>5. CASE SelfHeal
  <2>1. CleanSession => next_packet_id' = 1 /\ InFlightIds' = {}
    BY <1>5 DEF SelfHeal, InFlightIds
  <2>2. ~CleanSession => UNCHANGED ids
    BY <1>5 DEF SelfHeal
  <2>3. QED
    BY <1>3, <1>5, <2>1, <2>2 DEF IdsInOrder
<1>6. CASE Disconnect
  BY <1>3, <1>6 DEF Disconnect
<1>7. CASE ReceivePubAck
  <2>1. /\ UNCHANGED next_packet_id
        /\ \/ UNCHANGED in_flight
           \/ \E i \in Ids : in_flight' = [in_flight EXCEPT ![i] = None]
    BY <1>7 DEF ReceivePubAck, InFlightIds
  <2>2. InFlightIds' \subseteq InFlightIds
    BY <2>1 DEF InFlightIds, TypeOK
  <2>3. QED
    BY <1>2, <2>1, <2>2
<1>8. ASSUME NEW i \in Ids, Retransmit(i) PROVE IdsInOrder' /\ next_packet_id <= next_packet_id'
  BY <1>2, <1>8, RetransmitStep
<1>9. ASSUME NEW i \in Ids, RetriesExhausted(i)
      PROVE  IdsInOrder' /\ next_packet_id <= next_packet_id'
  <2>1. UNCHANGED next_packet_id /\ in_flight' = [in_flight EXCEPT ![i] = None]
    BY <1>9 DEF RetriesExhausted
  <2>2. InFlightIds' \subseteq InFlightIds
    BY <2>1 DEF InFlightIds, TypeOK
  <2>3. QED
    BY <1>2, <2>1, <2>2
<1>10. CASE DrainPreConnect
  BY <1>10, ReplayStep, IdsPublish
<1>11. ASSUME NEW m \in Publications, Publish(m)
       PROVE  IdsInOrder' /\ next_packet_id <= next_packet_id'
  BY <1>3, <1>11, IdsPublish DEF Publish
<1>12. ASSUME NEW t \in Topics, ReplaySubscription(t) \/ Subscribe(t) \/ Unsubscribe(t)
       PROVE  IdsInOrder' /\ next_packet_id <= next_packet_id'
  <2>1. /\ UNCHANGED in_flight
        /\ \/ UNCHANGED next_packet_id
           \/ \E i \in Ids : IsNextFree(i) /\ next_packet_id' = After(i)
    BY <1>12 DEF ReplaySubscription, Subscribe, Unsubscribe, Declare, BurnId
  <2>2. InFlightIds' = InFlightIds
    BY <2>1 DEF InFlightIds
  <2>3. QED
    BY <1>2, <2>1, <2>2, TakenInOrder
<1>13. QED
  BY <1>4, <1>5, <1>6, <1>7, <1>8, <1>9, <1>10, <1>11, <1>12, ClientSteps

-----------------------------------------------------------------------------
(* The plain steps: all but those that open a connection, accept one, ask,  *)
(* or answer for the broker.  They end at most what is under way.           *)
PlainControl ==
  /\ state' = "connected" => state = "connected" /\ Declared' = Declared
  /\ UNCHANGED <<todo, broker_subs>>
  /\ pc' = "replay" => pc = "replay"
  /\ pc = "replay" /\ pc' # "replay" => todo = {}
PlainOut ==
  /\ \A x \in Under' : x \in Under \/ ~(Asks(x) \/ x.kind = "connect")
  /\ state' = "connected" /\ Order => Order'
PlainIn ==
  /\ \A a \in Items(to_client') : a \in Items(to_client) \/ ~(Acks(a) \/ a.kind \in Connack)
  /\ ConnackInFront(to_client) => ConnackInFront(to_client')
  /\ (state = "disconnected" => to_client = <<>>) =>
       (state' = "disconnected" => to_client' = <<>>)
PlainAsked ==
  /\ Asked' \subseteq Asked
  /\ state' = "connected" =>
       \A p \in Asked : p \in Asked' \/ \E a \in Items(to_client) : Answers(a, p)
Plain == PlainControl /\ PlainOut /\ PlainIn /\ PlainAsked

LEMMA OutKept ==
  ASSUME UNCHANGED <<to_broker, tx_queue, partial_send>>
  PROVE  PlainOut /\ Under' = Under
  BY DEF PlainOut, Under, Own, Order

LEMMA OutQueued ==
  ASSUME TypeOK, UNCHANGED <<to_broker, partial_send>>,
         NEW x \in OutPackets, ~Asks(x), x.kind # "connect",
         tx_queue' = Append(tx_queue, x) \/ tx_queue' = <<x>> \o tx_queue
  PROVE  PlainOut
<1>1. Own' = Own \cup {x}
  <2>1. PICK q \in Seq(OutPackets) : q = tx_queue
    BY DEF TypeOK
  <2>2. Items(Append(q, x)) = Items(q) \cup {x} /\ Items(<<x>> \o q) = Items(q) \cup {x}
    BY <2>1, ItemsAppend, ItemsCons
  <2>3. QED
    BY <2>1, <2>2 DEF Own
<1>2. \A y : Lower(y, x)
  BY DEF Lower
<1>3. Order => Order'
  BY <1>2, OrderQueued
<1>4. QED
  BY <1>1, <1>3 DEF PlainOut, Under

LEMMA InKept ==
  ASSUME TypeOK, state' = "disconnected" => state = "disconnected",
         \/ UNCHANGED to_client
         \/ to_client # <<>> /\ to_client' = Tail(to_client)
  PROVE  PlainIn
<1>1. PICK q \in Seq(WellFormedPackets) : q = to_client
  BY DEF TypeOK
<1>2. CASE UNCHANGED to_client
  BY <1>2 DEF PlainIn
<1>3. CASE q # <<>> /\ to_client' = Tail(q)
  <2>1. Items(q) = {Head(q)} \cup Items(Tail(q))
    BY <1>3, ItemsTail
  <2>2. ConnackInFront(q) => ConnackInFront(Tail(q))
    BY <1>3, ConnackTail
  <2>3. QED
    BY <1>1, <1>3, <2>1, <2>2 DEF PlainIn
<1>4. QED
  BY <1>1, <1>2, <1>3

LEMMA AskedKept ==
  ASSUME \/ UNCHANGED pending_responses
         \/ \E k \in {"connack", "pingresp"} :
              pending_responses' = pending_responses \cup {Await(k, 0, None)}
         \/ \E k \in {"connack", "pingresp"} :
              pending_responses' = pending_responses \ Awaiting(k)
  PROVE  PlainAsked /\ Asked' = Asked
<1>1. Asked' = Asked
  BY DEF Asked, Awaiting, Await
<1>2. QED
  BY <1>1 DEF PlainAsked

LEMMA AskedAnswered ==
  ASSUME TypeOK, NEW k \in {"suback", "unsuback"}, Incoming({k}), NEW p \in Awaiting(k),
         p.id = Head(to_client).id, pending_responses' = pending_responses \ {p}
  PROVE  PlainAsked
<1>1. PICK q \in Seq(WellFormedPackets) : q = to_client /\ q # <<>> /\ Head(q).kind = k
  BY DEF TypeOK, Incoming
<1>2. Head(q) \in Items(q)
  BY <1>1, ItemsTail
<1>3. Answers(Head(q), p)
  BY <1>1 DEF Answers, Awaiting
<1>4. Asked' = Asked \ {p}
  BY DEF Asked, Awaiting
<1>5. QED
  BY <1>1, <1>2, <1>3, <1>4 DEF PlainAsked

LEMMA PlainMinor ==
  ASSUME TypeOK, Minor, ~ReceiveAccept, UNCHANGED broker_subs
  PROVE  Plain
<1> USE DEF Abort, EnterFailed, control, registry, app
<1>1. PlainOut
  BY MinorStep, OutKept
<1>2. /\ state' \in {state, "failed"} /\ todo' = todo
      /\ pc' # "replay" /\ (pc = "replay" => todo = {})
  BY DEF Minor, TransportLost, TransportPending, Begin, AckTimeout, SendTimeout, AppTurn,
         DeadlinesDone, NoPing, ReadSuppressed, ReadFails, ReceivePublish, ContinueReading,
         ReceiveTooLarge, ReceiveRefusal, OnConnect, ReceiveSubAck, EnterDeadlines,
         ReceiveRejection, ReceiveUnsubAck, ReceiveUnexpectedAck, ReceivePingResp,
         Hold, IoError, Incoming
<1>3. PlainIn
  BY <1>2, MinorStep, InKept
<1>4. CASE ReceiveSubAck
  <2>1. PICK p \in Awaiting("suback") :
          /\ p.id = Head(to_client).id /\ pending_responses' = pending_responses \ {p}
          /\ subscriptions' = [subscriptions EXCEPT
                                 ![p.topic] = IF @ = "armed" THEN "fired" ELSE @]
    BY <1>4 DEF ReceiveSubAck
  <2>2. PlainAsked
    BY <1>4, <2>1, AskedAnswered DEF ReceiveSubAck
  <2>3. Declared' = Declared
    <3>1. \A t \in Topics : subscriptions'[t] = "absent" <=> subscriptions[t] = "absent"
      BY <2>1 DEF TypeOK
    <3>2. QED
      BY <3>1 DEF Declared
  <2>4. QED
    BY <1>1, <1>2, <1>3, <2>2, <2>3 DEF Plain, PlainControl
<1>5. CASE ReceiveUnsubAck
  <2>1. PlainAsked
    BY <1>5, AskedAnswered DEF ReceiveUnsubAck
  <2>2. Declared' = Declared
    BY <1>5 DEF ReceiveUnsubAck, Declared
  <2>3. QED
    BY <1>1, <1>2, <1>3, <2>1, <2>2 DEF Plain, PlainControl
<1>6. ASSUME NEW p \in pending_responses, AckTimeout(p)
      PROVE  Plain
  <2>1. PlainAsked
    BY <1>6 DEF AckTimeout, PlainAsked, Asked, Awaiting
  <2>2. QED
    BY <1>1, <1>2, <1>3, <1>6, <2>1 DEF Plain, PlainControl, AckTimeout
<1>7. CASE ReceiveRejection
  <2>1. PlainAsked
    BY <1>7, AskedKept DEF ReceiveRejection
  <2>2. QED
    BY <1>1, <1>2, <1>3, <1>7, <2>1 DEF Plain, PlainControl, ReceiveRejection
<1>8. ASSUME ~ReceiveSubAck, ~ReceiveUnsubAck, ~ReceiveRejection,
             \A p \in pending_responses : ~AckTimeout(p)
      PROVE  Plain
  <2>1. /\ UNCHANGED subscriptions
        /\ \/ UNCHANGED pending_responses
           \/ \E k \in {"connack", "pingresp"} :
                pending_responses' = pending_responses \ Awaiting(k)
    BY <1>8
       DEF Minor, TransportLost, TransportPending, Begin, SendTimeout,
           DeadlinesDone, NoPing, ReadSuppressed, ReadFails, ReceivePublish,
           ReceiveTooLarge, ReceiveRefusal, OnConnect,
           ReceiveUnexpectedAck, ReceivePingResp, Hold, IoError
  <2>2. PlainAsked /\ Declared' = Declared
    BY <2>1, AskedKept DEF Declared
  <2>3. QED
    BY <1>1, <1>2, <1>3, <2>2 DEF Plain, PlainControl
<1>9. QED
  BY <1>4, <1>5, <1>6, <1>7, <1>8

(* What the client forgets with its transport.                              *)
LEMMA PlainReset ==
  ASSUME TypeOK, SelfHeal \/ Disconnect, UNCHANGED broker_subs
  PROVE  Plain
<1>1. /\ tx_queue' = <<>> /\ partial_send' = None /\ pending_responses' = {}
      /\ to_client' = <<>> /\ state' # "connected" /\ todo' = todo
      /\ pc # "replay" /\ pc' # "replay"
  BY DEF SelfHeal, Disconnect, ResetTransientState, AppTurn
<1>2. PICK x \in OutPackets : x = Packet("disconnect", 0, None) /\ x.kind = "disconnect"
  BY PacketType, IdsType, ArgTypes DEF OutKinds, Packet
<1>3. \/ UNCHANGED to_broker
      \/ to_broker' = Append(to_broker, x)
  BY <1>2 DEF SelfHeal, Disconnect
<1>4. Items(Append(to_broker, x)) = Items(to_broker) \cup {x}
  BY ItemsAppend DEF TypeOK
<1>5. Items(<<>>) = {}
  BY DEF Items
<1>6. Own' = {}
  BY <1>1, <1>5 DEF Own
<1>7. PlainOut
  BY <1>1, <1>2, <1>3, <1>4, <1>6 DEF PlainOut, Under, Asks
<1>8. PlainIn
  BY <1>1, <1>5 DEF PlainIn, ConnackInFront
<1>9. PlainAsked
  BY <1>1 DEF PlainAsked, Asked, Awaiting
<1>10. QED
  BY <1>1, <1>7, <1>8, <1>9 DEF Plain, PlainControl

LEMMA PlainPublish ==
  ASSUME TypeOK, NEW m \in Publications, DoPublish(m) \/ DoPublishRaises(m),
         UNCHANGED <<to_broker, partial_send>>
  PROVE  PlainOut
<1>1. \A k \in {"publish", "callback"}, i \in Ids \cup {0} :
        Packet(k, i, m) \in OutPackets /\ Packet(k, i, m).kind = k
  BY PacketType, IdsType, ArgTypes DEF OutKinds, Packet
<1>2. CASE \E i \in Ids : tx_queue' = Append(tx_queue, Packet("publish", i, m))
  BY <1>1, <1>2, OutQueued DEF Asks
<1>3. CASE UNCHANGED tx_queue
  BY <1>3, OutKept
<1>4. CASE tx_queue' = tx_queue \o WithMarker(m)
  <2>1. PICK x \in OutPackets, y \in OutPackets :
          /\ WithMarker(m) = <<x, y>> /\ x.kind = "publish" /\ y.kind = "callback"
    BY <1>1 DEF WithMarker
  <2>2. PICK q \in Seq(OutPackets) : q = tx_queue
    BY DEF TypeOK
  <2>3. q \o <<x, y>> = Append(Append(q, x), y)
    BY <2>1, <2>2
  <2>4. /\ Append(q, x) \in Seq(OutPackets)
        /\ Items(Append(q, x)) = Items(q) \cup {x}
        /\ Items(Append(Append(q, x), y)) = Items(q) \cup {x} \cup {y}
    <3>1. PICK r : r = Append(q, x)
      OBVIOUS
    <3>2. r \in Seq(OutPackets) /\ Items(r) = Items(q) \cup {x}
      BY <3>1, ItemsAppend, AppendProperties
    <3>3. Items(Append(r, y)) = Items(r) \cup {y}
      BY <3>2, ItemsAppend
    <3>4. QED
      BY <3>1, <3>2, <3>3
  <2>5. \A z : Lower(z, x) /\ Lower(z, y)
    BY <2>1 DEF Lower, Asks
  <2>6. Rising(q) => Rising(Append(Append(q, x), y))
    BY <2>2, <2>4, <2>5, RisingAppend
  <2>7. Own' = Own \cup {x, y}
    BY <1>4, <2>1, <2>2, <2>3, <2>4 DEF Own
  <2>8. Order => Order'
    <3>1. PICK r : r = Append(Append(q, x), y) /\ tx_queue' = r
      BY <1>4, <2>1, <2>2, <2>3
    <3>2. Items(r) = Items(q) \cup {x, y} /\ (Rising(q) => Rising(r))
      BY <2>4, <2>6, <3>1
    <3>3. UNCHANGED <<to_broker, partial_send>>
      BY <1>4
    <3>4. QED
      BY <2>2, <2>5, <2>7, <3>1, <3>2, <3>3 DEF Order
  <2>9. QED
    BY <2>1, <2>7, <2>8 DEF PlainOut, Under, Asks
<1>5. QED
  BY <1>2, <1>3, <1>4 DEF DoPublish, DoPublishRaises

(* The client's other plain steps.                                          *)
Asking == \E t \in Topics : ReplaySubscription(t) \/ Subscribe(t) \/ Unsubscribe(t)
Dials  == TransportReady \/ (Connect /\ state = "disconnected" /\ socket)

LEMMA PlainClient ==
  ASSUME TypeOK, Books, Client, ~Dials, ~ReceiveAccept, ~Asking
  PROVE  Plain
<1> USE DEF Abort, EnterFailed, control, transport, intent, outbox, ids, registry, app, wire
<1>0. UNCHANGED broker_subs
  BY DEF Client
<1>1. CASE Minor
  BY <1>0, <1>1, PlainMinor
<1>2. CASE SelfHeal \/ Disconnect
  BY <1>0, <1>2, PlainReset
<1>3. ASSUME state' \in {state, "failed"} \/ state' \notin {"connected", "disconnected"},
             UNCHANGED <<todo, subscriptions>>,
             pc' # "replay" \/ pc = "replay", pc = "replay" => todo = {},
             PlainOut,
             \/ UNCHANGED to_client
             \/ to_client # <<>> /\ to_client' = Tail(to_client),
             \/ UNCHANGED pending_responses
             \/ \E k \in {"connack", "pingresp"} :
                  pending_responses' = pending_responses \cup {Await(k, 0, None)}
      PROVE  Plain
  <2>1. PlainIn /\ PlainAsked /\ Declared' = Declared
    BY <1>3, InKept, AskedKept DEF Declared
  <2>2. QED
    BY <1>0, <1>3, <2>1 DEF Plain, PlainControl
<1>4. CASE SendPing
  <2>1. PICK x \in OutPackets : x = Packet("pingreq", 0, None) /\ x.kind = "pingreq"
    BY PacketType, IdsType, ArgTypes DEF OutKinds, Packet
  <2>2. PlainOut
    BY <1>4, <2>1, OutQueued DEF SendPing, Asks
  <2>3. QED
    BY <1>3, <1>4, <2>2 DEF SendPing
<1>5. CASE EndRead
  <2>1. PICK x \in OutPackets : x = Packet("puback", 0, pending_pubacks) /\ x.kind = "puback"
    <3>1. pending_pubacks \in OutArgs
      BY ArgTypes DEF TypeOK
    <3>2. QED
      BY <3>1, PacketType, IdsType DEF OutKinds, Packet
  <2>2. tx_queue' \in {tx_queue, <<x>> \o tx_queue} /\ UNCHANGED <<to_broker, partial_send>>
    BY <1>5, <2>1 DEF EndRead
  <2>3. PlainOut
    BY <2>1, <2>2, OutKept, OutQueued DEF Asks
  <2>4. QED
    BY <1>3, <1>5, <2>3 DEF EndRead
<1>6. CASE Connect
  <2>1. /\ UNCHANGED <<tx_queue, partial_send, pending_responses, to_broker, to_client,
                       pc, todo, subscriptions>>
        /\ state' \in {state, "awaiting", "failed"} /\ pc # "replay"
    BY <1>6 DEF Connect, Dials, AppTurn
  <2>2. QED
    BY <1>3, <2>1, OutKept
<1>7. CASE DrainPreConnect
  <2>1. PICK m \in Publications : DoPublish(m) \/ DoPublishRaises(m)
    BY <1>7, ReplayStep
  <2>2. PlainOut
    BY <1>7, <2>1, PlainPublish DEF DrainPreConnect
  <2>3. QED
    BY <1>3, <1>7, <2>2 DEF DrainPreConnect
<1>8. CASE ReceivePubAck
  BY <1>3, <1>8, OutKept DEF ReceivePubAck, Incoming, ContinueReading
<1>9. CASE Send
  <2>1. PlainOut
    <3>1. Under' \subseteq Under
      BY <1>9, SendCarries DEF Under
    <3>2. QED
      BY <1>9, <3>1, OrderSent DEF PlainOut
  <2>2. /\ state' \in {state, "failed"} /\ pc = "drain" /\ pc' # "replay"
        /\ UNCHANGED <<todo, subscriptions, to_client, pending_responses>>
    BY <1>9 DEF Send, DrainPartial, Drain, DrainFails
  <2>3. QED
    BY <1>3, <2>1, <2>2
<1>10. ASSUME NEW i \in Ids, Retransmit(i)
       PROVE  Plain
  <2>1. PICK x \in OutPackets : x = Packet("publish", i, in_flight[i].msg) /\ x.kind = "publish"
    BY <1>10, RetransmitStep DEF Packet
  <2>2. PlainOut
    BY <1>10, <2>1, OutQueued DEF Retransmit, Asks
  <2>3. QED
    BY <1>3, <1>10, <2>2 DEF Retransmit
<1>11. ASSUME NEW i \in Ids, RetriesExhausted(i)
       PROVE  Plain
  BY <1>3, <1>11, OutKept DEF RetriesExhausted
<1>12. ASSUME NEW m \in Publications, Publish(m)
       PROVE  Plain
  <2>1. PlainOut
    BY <1>12, PlainPublish, OutKept DEF Publish
  <2>2. QED
    BY <1>3, <1>12, <2>1 DEF Publish, AppTurn
<1>13. QED
  BY <1>1, <1>2, <1>4, <1>5, <1>6, <1>7, <1>8, <1>9, <1>10, <1>11, <1>12, ClientSteps
     DEF Dials, Asking, Protocol

LEMMA ReplyPacket ==
  ASSUME NEW k \in {"accepted", "resumed", "refused", "banned", "pingresp"}
                   \cup {"puback", "suback", "rejected", "unsuback"},
         NEW id \in 0..MaxPacketId,
         k \in {"accepted", "resumed", "refused", "banned", "pingresp"} => id = 0
  PROVE  \E a \in WellFormedPackets : a = Packet(k, id, None) /\ a.kind = k /\ a.id = id
<1>1. Packet(k, id, None) \in WellFormedPackets
  BY ReplyIsPeer
<1>2. Packet(k, id, None).kind = k /\ Packet(k, id, None).id = id
  BY DEF Packet
<1>3. QED
  BY <1>1, <1>2

(* The broker takes a packet, and may append one to what it sends.          *)
LEMMA PacketTaken ==
  ASSUME TypeOK, to_broker # <<>>, to_broker' = Tail(to_broker),
         UNCHANGED <<tx_queue, partial_send>>
  PROVE  /\ Head(to_broker) \in OutPackets
         /\ Under = {Head(to_broker)} \cup Under'
         /\ Order => Order' /\ \A y \in Under' : Lower(Head(to_broker), y)
<1>1. PICK q \in Seq(OutPackets) : q = to_broker /\ q # <<>>
  BY DEF TypeOK
<1>2. PICK h, r : /\ h \in OutPackets /\ h = Head(q) /\ r = Tail(q)
                  /\ Items(q) = {h} \cup Items(r)
                  /\ Rising(q) => Rising(r) /\ \A y \in Items(r) : Lower(h, y)
  <2>1. PICK h, r : h = Head(q) /\ r = Tail(q)
    OBVIOUS
  <2>2. h \in OutPackets
    BY <1>1, <2>1, HeadTailProperties
  <2>3. Items(q) = {h} \cup Items(r)
    BY <1>1, <2>1, ItemsTail
  <2>4. Rising(q) => Rising(r) /\ \A y \in Items(r) : Lower(h, y)
    BY <1>1, <2>1, RisingTail
  <2>5. QED
    BY <2>1, <2>2, <2>3, <2>4
<1>3. Own' = Own
  BY DEF Own
<1>4. Order => Order' /\ \A y \in Under' : Lower(h, y)
  BY <1>1, <1>2, <1>3 DEF Order, Under
<1>5. QED
  BY <1>1, <1>2, <1>3, <1>4 DEF Under

LEMMA PacketReplied ==
  ASSUME TypeOK, NEW a \in WellFormedPackets,
         to_client' \in {to_client, Append(to_client, a)}
  PROVE  /\ Items(to_client') \subseteq Items(to_client) \cup {a}
         /\ ConnackInFront(to_client) /\ a.kind \notin Connack => ConnackInFront(to_client')
<1>1. PICK q \in Seq(WellFormedPackets) : q = to_client
  BY DEF TypeOK
<1>2. /\ Items(Append(q, a)) = Items(q) \cup {a}
      /\ ConnackInFront(q) /\ a.kind \notin Connack => ConnackInFront(Append(q, a))
  BY <1>1, ItemsAppend, ConnackAppend
<1>3. QED
  BY <1>1, <1>2

LEMMA BrokerKeeps ==
  ASSUME Broker \/ LinkBreaks
  PROVE  /\ UNCHANGED <<pc, todo, state, tx_queue, partial_send, pending_responses,
                        subscriptions, in_flight, next_packet_id>>
         /\ Asked' = Asked /\ Declared' = Declared /\ Own' = Own /\ InFlightIds' = InFlightIds
<1>1. UNCHANGED <<control, state, registry, outbox, ids>>
  BY DEF Broker, LinkBreaks, BrokerAccepts, BrokerRefuses, BrokerStores, BrokerGrants,
         BrokerUnsubscribes, BrokerPongs, BrokerAcked, BrokerCloses, BrokerPublishes,
         clientVars, Take
<1>2. UNCHANGED <<pc, todo, state, tx_queue, partial_send, pending_responses,
                  subscriptions, in_flight, next_packet_id>>
  BY <1>1 DEF control, registry, outbox, ids
<1>3. QED
  BY <1>2 DEF Asked, Awaiting, Declared, Own, InFlightIds

(* A disconnected client has nothing from the broker.                       *)
LEMMA NothingReplied ==
  ASSUME GreetInv, link, session \/ to_broker # <<>>
  PROVE  state # "disconnected"
  BY DEF GreetInv

LEMMA PlainBroker ==
  ASSUME TypeOK, GreetInv, Broker \/ LinkBreaks,
         ~BrokerAccepts, ~BrokerGrants, ~BrokerUnsubscribes
  PROVE  Plain
<1> USE DEF clientVars, Take
<1>1. /\ UNCHANGED <<pc, todo, state, tx_queue, partial_send>>
      /\ Asked' = Asked /\ Declared' = Declared /\ Own' = Own
  BY BrokerKeeps
<1>2. UNCHANGED broker_subs
  BY DEF Broker, LinkBreaks, BrokerRefuses, BrokerStores, BrokerPongs, BrokerAcked,
         BrokerCloses, BrokerPublishes, broker
<1>3. PlainAsked /\ PlainControl
  BY <1>1, <1>2 DEF PlainAsked, PlainControl
<1>4. PlainOut
  <2>1. CASE to_broker # <<>> /\ to_broker' = Tail(to_broker)
    BY <1>1, <2>1, PacketTaken DEF PlainOut
  <2>2. CASE UNCHANGED to_broker
    BY <1>1, <2>2, OutKept
  <2>3. CASE to_broker' = <<>>
    <3>1. Items(<<>>) = {} /\ Rising(<<>>)
      BY DEF Items, Rising
    <3>2. QED
      BY <1>1, <2>3, <3>1 DEF PlainOut, Under, Order
  <2>4. QED
    BY <2>1, <2>2, <2>3
       DEF Broker, LinkBreaks, BrokerRefuses, BrokerStores, BrokerPongs, BrokerAcked,
           BrokerCloses, BrokerPublishes, Packets
<1>5. CASE UNCHANGED to_client
  BY <1>1, <1>3, <1>4, <1>5, InKept DEF Plain
<1>6. ASSUME NEW a \in WellFormedPackets, ~Acks(a), a.kind \notin Connack,
             link, session \/ to_broker # <<>>, to_client' = Append(to_client, a)
      PROVE  Plain
  <2>1. PlainIn
    BY <1>1, <1>6, PacketReplied, NothingReplied DEF PlainIn
  <2>2. QED
    BY <1>3, <1>4, <2>1 DEF Plain
<1>7. CASE LinkBreaks \/ BrokerAcked \/ BrokerCloses
  BY <1>5, <1>7 DEF LinkBreaks, BrokerAcked, BrokerCloses
<1>8. CASE BrokerRefuses
  <2>1. PICK k \in {"refused", "banned"} :
          to_client' = IF link THEN Append(to_client, Packet(k, 0, None)) ELSE to_client
    BY <1>8 DEF BrokerRefuses
  <2>2. PICK a \in WellFormedPackets : a = Packet(k, 0, None) /\ a.kind = k
    BY ReplyPacket, IdsType
  <2>3. QED
    BY <1>5, <1>6, <1>8, <2>1, <2>2 DEF BrokerRefuses, Packets, Acks, Connack
<1>9. CASE BrokerStores
  <2>1. PICK a \in WellFormedPackets : /\ a = Packet("puback", Head(to_broker).id, None)
                                       /\ a.kind = "puback"
    <3>1. Head(to_broker).id \in 0..MaxPacketId
      BY <1>9, HeadType DEF BrokerStores, Packets
    <3>2. QED
      BY <3>1, ReplyPacket
  <2>2. QED
    BY <1>5, <1>6, <1>9, <2>1 DEF BrokerStores, Packets, Reply, Acks, Connack
<1>10. CASE BrokerPongs
  <2>1. PICK a \in WellFormedPackets : a = Packet("pingresp", 0, None) /\ a.kind = "pingresp"
    BY ReplyPacket, IdsType
  <2>2. QED
    BY <1>5, <1>6, <1>10, <2>1 DEF BrokerPongs, Packets, Reply, Acks, Connack
<1>11. ASSUME NEW b \in Inbound, BrokerPublishes(b)
       PROVE  Plain
  <2>1. PICK a \in WellFormedPackets : a = Packet("publish", 0, b) /\ a.kind = "publish"
    <3>1. Packet("publish", 0, b) \in WellFormedPackets /\ Packet("publish", 0, b).kind = "publish"
      BY DEF Packet, WellFormedPackets
    <3>2. QED
      BY <3>1
  <2>2. QED
    BY <1>6, <1>11, <2>1 DEF BrokerPublishes, Acks, Connack
<1>12. QED
  BY <1>7, <1>8, <1>9, <1>10, <1>11 DEF Broker

-----------------------------------------------------------------------------
(* What the client asks: a SUBSCRIBE or an UNSUBSCRIBE, as the application  *)
(* wants of the topic, under the next id; a replay may fail to queue it.    *)
Requests(t) ==
  /\ state = "connected" /\ state' = "connected"
  /\ next_packet_id' = next_packet_id + 1
  /\ pending_responses' = pending_responses \cup {Await(Wanted(t)', next_packet_id, t)}
  /\ \/ UNCHANGED tx_queue
     \/ tx_queue' = Append(tx_queue, Packet(Wanting(t)', next_packet_id, t))
  /\ UNCHANGED <<to_broker, partial_send, to_client, pc>>
  /\ \A u \in Topics \ {t} : u \in Declared' <=> u \in Declared
  /\ todo' = todo \ {t}

LEMMA AskStep ==
  ASSUME TypeOK, ToldTheTruth, OpenInv, NoWrap, SubsInv,
         NEW t \in Topics, ReplaySubscription(t) \/ Subscribe(t) \/ Unsubscribe(t),
         UNCHANGED broker_subs
  PROVE  Plain \/ Requests(t)
<1> USE DEF control, wire
<1>1. ASSUME NEW i \in Ids, IsNextFree(i), next_packet_id' = After(i)
      PROVE  i = next_packet_id /\ next_packet_id' = next_packet_id + 1
  BY <1>1, NextTaken DEF SubsInv
<1>2. CASE ReplaySubscription(t)
  <2>1. state = "connected" /\ state' = "connected" /\ t \in todo
    BY <1>2 DEF ReplaySubscription, ToldTheTruth
  <2>2. t \in Declared /\ Declared' = Declared
    BY <1>2, <2>1 DEF SubsInv, Subscribed, Unsent, ReplaySubscription, Declared
  <2>3. Wanted(t)' = "suback" /\ Wanting(t)' = "subscribe"
    BY <2>2 DEF Wanted, Wanting
  <2>4. PICK i \in Ids :
          /\ IsNextFree(i) /\ next_packet_id' = After(i)
          /\ tx_queue' \in {tx_queue, Append(tx_queue, Packet("subscribe", i, t))}
          /\ pending_responses' = pending_responses \cup {Await("suback", i, t)}
    BY <1>2 DEF ReplaySubscription
  <2>5. QED
    BY <1>1, <1>2, <2>1, <2>2, <2>3, <2>4 DEF ReplaySubscription, Requests
<1>3. ASSUME NEW kind, NEW ack, NEW entry, Declare(kind, ack, t, entry),
             \/ kind = "subscribe" /\ ack = "suback" /\ entry = "armed"
             \/ kind = "unsubscribe" /\ ack = "unsuback" /\ entry = "absent"
      PROVE  Plain \/ Requests(t)
  <2>1. /\ pc # "replay" /\ todo = {}
        /\ UNCHANGED <<pc, todo, state, to_broker, partial_send, to_client>>
    BY <1>3 DEF Declare, AppTurn, OpenInv
  <2>2. CASE UNCHANGED <<tx_queue, pending_responses>> /\ (state = "connected" => UNCHANGED subscriptions)
    <3>1. PlainOut /\ PlainIn /\ PlainAsked
      BY <2>1, <2>2, OutKept, InKept, AskedKept
    <3>2. QED
      BY <2>1, <2>2, <3>1 DEF Plain, PlainControl, Declared
  <2>3. CASE /\ state = "connected" /\ subscriptions' = [subscriptions EXCEPT ![t] = entry]
             /\ \E i \in Ids :
                  /\ IsNextFree(i) /\ next_packet_id' = After(i)
                  /\ tx_queue' = Append(tx_queue, Packet(kind, i, t))
                  /\ pending_responses' = pending_responses \cup {Await(ack, i, t)}
    <3>1. \A u \in Topics : subscriptions'[u] = IF u = t THEN entry ELSE subscriptions[u]
      BY <2>3 DEF TypeOK
    <3>2. \A u \in Topics \ {t} : u \in Declared' <=> u \in Declared
      BY <3>1 DEF Declared
    <3>3. t \in Declared' <=> entry = "armed"
      BY <1>3, <3>1 DEF Declared
    <3>4. ack = Wanted(t)' /\ kind = Wanting(t)'
      BY <1>3, <3>3 DEF Wanted, Wanting
    <3>5. QED
      BY <1>1, <2>1, <2>3, <3>2, <3>4 DEF Requests
  <2>4. QED
    BY <1>3, <2>2, <2>3 DEF Declare
<1>4. QED
  BY <1>2, <1>3 DEF Subscribe, Unsubscribe

-----------------------------------------------------------------------------
(* OpenInv, step by step.                                                   *)
LEMMA OpenPlain ==
  ASSUME OpenInv, Plain
  PROVE  OpenInv'
<1>1. (Greeting' => Greeting) /\ (Welcome' => Welcome)
  BY DEF Plain, PlainOut, PlainIn, Greeting, Welcome
<1>2. Unasked => Unasked'
  BY DEF Plain, PlainOut, PlainIn, PlainAsked, Unasked
<1>3. /\ state' = "connected" => state = "connected"
      /\ broker_subs' = broker_subs
      /\ pc' # "replay" => todo' = {}
  BY DEF Plain, PlainControl, OpenInv
<1>4. /\ ConnackInFront(to_client)' /\ (state' = "disconnected" => to_client' = <<>>)
      /\ \A x \in Under' : Asks(x) => x.arg \in Topics
  BY DEF Plain, PlainOut, PlainIn, OpenInv
<1>5. QED
  BY <1>1, <1>2, <1>3, <1>4 DEF OpenInv

LEMMA OpenDials ==
  ASSUME TypeOK, GreetInv, OpenInv, Dials, UNCHANGED broker_subs
  PROVE  OpenInv'
<1>1. /\ to_broker' = <<>> /\ to_client' = <<>> /\ partial_send' = None
      /\ tx_queue' = Append(<<>>, Packet("connect", 0, None))
      /\ pending_responses' = {Await("connack", 0, None)}
      /\ state' = "connecting" /\ pc # "replay" /\ todo' = todo
  <2>1. CASE TransportReady
    BY <2>1 DEF TransportReady, GreetInv, Bare
  <2>2. CASE Connect /\ state = "disconnected" /\ socket
    <3>1. to_broker = <<>> /\ to_client = <<>> /\ Bare
      BY <2>2 DEF GreetInv, OpenInv
    <3>2. QED
      BY <2>2, <3>1 DEF Connect, Bare, AppTurn, control, wire
  <2>3. QED
    BY <2>1, <2>2 DEF Dials
<1>2. Packet("connect", 0, None) \in OutPackets /\ Packet("connect", 0, None).kind = "connect"
  BY PacketType, IdsType, ArgTypes DEF OutKinds, Packet
<1>3. PICK x \in OutPackets : x = Packet("connect", 0, None) /\ x.kind = "connect"
  BY <1>2
<1>4. Items(<<>>) = {}
  BY DEF Items
<1>5. Items(Append(<<>>, x)) = {x}
  <2>1. PICK e \in Seq(OutPackets) : e = <<>>
    BY EmptySeq
  <2>2. Items(Append(e, x)) = Items(e) \cup {x}
    BY ItemsAppend
  <2>3. QED
    BY <1>4, <2>1, <2>2
<1>6. Under' = {x} /\ Items(to_client)' = {}
  BY <1>1, <1>3, <1>4, <1>5 DEF Under, Own
<1>7. Asked' = {}
  BY <1>1 DEF Asked, Awaiting, Await
<1>8. Unasked' /\ ~Welcome' /\ \A y \in Under' : ~Asks(y)
  BY <1>3, <1>6, <1>7 DEF Unasked, Welcome, Asks
<1>9. ConnackInFront(to_client)'
  BY <1>1 DEF ConnackInFront
<1>10. todo' = {} /\ broker_subs' \subseteq Topics
  BY <1>1 DEF OpenInv
<1>11. QED
  BY <1>1, <1>8, <1>9, <1>10 DEF OpenInv

(* The client reads the CONNACK: it was alone.                              *)
LEMMA AcceptAlone ==
  ASSUME TypeOK, OpenInv, ReceiveAccept
  PROVE  /\ Unasked /\ ~Greeting /\ (CleanSession => broker_subs = {})
         /\ Under' = Under /\ Asked' = Asked /\ Declared' = Declared
         /\ Items(to_client') \subseteq Items(to_client)
         /\ NoConnack(to_client') /\ ConnackInFront(to_client')
<1>1. PICK q \in Seq(WellFormedPackets) :
        /\ q = to_client /\ q # <<>> /\ Head(q).kind \in Connack /\ to_client' = Tail(q)
  BY DEF TypeOK, ReceiveAccept, Incoming, Connack
<1>2. Items(q) = {Head(q)} \cup Items(Tail(q))
  BY <1>1, ItemsTail
<1>3. Welcome
  BY <1>1, <1>2 DEF Welcome
<1>4. NoConnack(Tail(q)) /\ ConnackInFront(Tail(q))
  BY <1>1, ConnackTail DEF OpenInv
<1>5. Under' = Under
  BY DEF ReceiveAccept, Incoming, outbox, Under, Own
<1>6. Asked' = Asked
  BY DEF ReceiveAccept, Asked, Awaiting
<1>7. Declared' = Declared
  BY DEF ReceiveAccept, Declared
<1>8. QED
  BY <1>1, <1>2, <1>3, <1>4, <1>5, <1>6, <1>7 DEF OpenInv

LEMMA OpenAccept ==
  ASSUME TypeOK, OpenInv, ReceiveAccept, UNCHANGED broker_subs
  PROVE  OpenInv'
<1>1. /\ Under' = Under /\ ~Greeting /\ NoConnack(to_client') /\ ConnackInFront(to_client')
  BY AcceptAlone
<1>2. ~Greeting' /\ ~Welcome'
  BY <1>1 DEF Greeting, Welcome, NoConnack, Items
<1>3. pc' = "replay" /\ state' = "connected"
  BY DEF ReceiveAccept
<1>4. QED
  BY <1>1, <1>2, <1>3 DEF OpenInv

(* What asking adds to the packets under way.                               *)
LEMMA RequestAdds ==
  ASSUME TypeOK, NEW t \in Topics, Requests(t)
  PROVE  \E x \in OutPackets :
           /\ x = Packet(Wanting(t)', next_packet_id, t)
           /\ Asks(x) /\ x.kind = Wanting(t)' /\ x.id = next_packet_id /\ x.arg = t
           /\ Under' \subseteq Under \cup {x}
<1>1. Wanting(t)' \in {"subscribe", "unsubscribe"}
  BY DEF Wanting
<1>2. PICK k \in {"subscribe", "unsubscribe"}, i \in Ids : k = Wanting(t)' /\ i = next_packet_id
  BY <1>1 DEF TypeOK
<1>3. Packet(k, i, t) \in OutPackets
  BY PacketType, IdsType, ArgTypes DEF OutKinds
<1>4. Packet(k, i, t).kind = k /\ Packet(k, i, t).id = i /\ Packet(k, i, t).arg = t
  BY DEF Packet
<1>5. PICK x \in OutPackets : x = Packet(k, i, t) /\ x.kind = k /\ x.id = i /\ x.arg = t
  BY <1>3, <1>4
<1>6. Items(Append(tx_queue, x)) = Items(tx_queue) \cup {x}
  BY ItemsAppend DEF TypeOK
<1>7. Under' \subseteq Under \cup {x}
  BY <1>2, <1>5, <1>6 DEF Requests, Under, Own
<1>8. QED
  BY <1>2, <1>5, <1>7 DEF Asks

LEMMA OpenAsks ==
  ASSUME TypeOK, OpenInv, NEW t \in Topics, Requests(t), UNCHANGED broker_subs
  PROVE  OpenInv'
<1>1. PICK x \in OutPackets : Asks(x) /\ x.arg = t /\ Under' \subseteq Under \cup {x}
  BY RequestAdds
<1>2. ~Greeting /\ ~Welcome
  BY DEF OpenInv, Requests
<1>3. ~Greeting' /\ ~Welcome'
  BY <1>1, <1>2 DEF Greeting, Welcome, Requests, Asks
<1>4. /\ state' = "connected" /\ to_client' = to_client
      /\ pc' # "replay" => todo' = {}
  BY DEF Requests, OpenInv
<1>5. QED
  BY <1>1, <1>3, <1>4 DEF OpenInv

LEMMA OpenBroker ==
  ASSUME TypeOK, GreetInv, OpenInv, BrokerAccepts \/ BrokerGrants \/ BrokerUnsubscribes
  PROVE  OpenInv'
<1> USE DEF clientVars, Take
<1>1. /\ UNCHANGED <<pc, todo, state, tx_queue, partial_send>> /\ Asked' = Asked
  BY BrokerKeeps DEF Broker
<1>2. PICK h : /\ h = Head(to_broker) /\ to_broker # <<>> /\ to_broker' = Tail(to_broker)
  BY DEF BrokerAccepts, BrokerGrants, BrokerUnsubscribes, Packets
<1>3. Under = {h} \cup Under' /\ h \in OutPackets
  BY <1>1, <1>2, PacketTaken
<1>4. /\ pc' # "replay" => todo' = {}
      /\ \A x \in Under' : Asks(x) => x.arg \in Topics
  BY <1>1, <1>3 DEF OpenInv
<1>5. CASE BrokerAccepts
  <2>1. Greeting /\ ~Welcome /\ state # "connected" /\ Unasked
    BY <1>2, <1>3, <1>5 DEF BrokerAccepts, Packets, Greeting, OpenInv
  <2>2. PICK k \in Connack : Reply(k, 0)
    BY <1>5 DEF BrokerAccepts, Connack
  <2>3. PICK a \in WellFormedPackets : a = Packet(k, 0, None) /\ a.kind = k
    BY ReplyPacket, IdsType DEF Connack
  <2>4. /\ broker_subs' \subseteq Topics /\ (CleanSession => broker_subs' = {})
    BY <1>5 DEF BrokerAccepts, OpenInv
  <2>5. \A x \in Under' : ~Asks(x)
    BY <1>3, <2>1 DEF Unasked
  <2>6. CASE link
    <3>1. to_client = <<>> /\ state # "disconnected" /\ StreamFirst("connect")
      BY <1>2, <1>5, <2>6, NothingReplied DEF BrokerAccepts, GreetInv, Greeted
    <3>2. StreamNo("connect")'
      BY <1>1, <1>2, <3>1, StreamTaken
    <3>3. ~Greeting'
      BY <3>2 DEF StreamNo, No, PartlyNo, Greeting, Under, Own, Items
    <3>4. to_client' = Append(to_client, a)
      BY <2>2, <2>3, <2>6 DEF Reply
    <3>5. Items(to_client') \subseteq Items(to_client) \cup {a}
      BY <3>4, PacketReplied
    <3>6. Unasked'
      BY <1>1, <2>1, <2>3, <2>5, <3>5 DEF Unasked, Acks, Connack
    <3>7. ConnackInFront(to_client')
      BY <3>1, <3>4, ConnackAppend DEF TypeOK
    <3>8. QED
      BY <1>1, <1>4, <2>1, <2>4, <3>1, <3>3, <3>6, <3>7 DEF OpenInv
  <2>7. CASE ~link
    <3>1. to_client' = to_client
      BY <2>2, <2>7 DEF Reply
    <3>2. ~Welcome' /\ Unasked'
      BY <1>1, <2>1, <2>5, <3>1 DEF Welcome, Unasked
    <3>3. QED
      BY <1>1, <1>4, <2>1, <2>4, <3>1, <3>2 DEF OpenInv
  <2>8. QED
    BY <2>6, <2>7
<1>6. CASE BrokerGrants \/ BrokerUnsubscribes
  <2>1. Asks(h) /\ h \in Under /\ session /\ h.id \in 0..MaxPacketId
    BY <1>2, <1>3, <1>6, HeadType DEF BrokerGrants, BrokerUnsubscribes, Packets, Asks
  <2>2. ~Greeting /\ ~Welcome /\ h.arg \in Topics
    BY <2>1 DEF OpenInv, Unasked
  <2>3. PICK k \in {"suback", "rejected", "unsuback"} : Reply(k, h.id)
    BY <1>2, <1>6 DEF BrokerGrants, BrokerUnsubscribes
  <2>4. PICK a \in WellFormedPackets : a = Packet(k, h.id, None) /\ a.kind = k
    BY <2>1, ReplyPacket
  <2>5. to_client' \in {to_client, Append(to_client, a)}
    BY <2>3, <2>4 DEF Reply
  <2>6. Items(to_client') \subseteq Items(to_client) \cup {a} /\ ConnackInFront(to_client')
    BY <2>4, <2>5, PacketReplied DEF OpenInv, Connack
  <2>7. ~Greeting' /\ ~Welcome'
    BY <1>3, <2>2, <2>4, <2>6 DEF Greeting, Welcome, Connack
  <2>8. broker_subs' \subseteq Topics
    BY <1>2, <1>6, <2>2 DEF BrokerGrants, BrokerUnsubscribes, OpenInv
  <2>9. state' = "disconnected" => to_client' = <<>>
    BY <1>1, <1>2, <2>1, <2>3, NothingReplied DEF Reply, OpenInv
  <2>10. QED
    BY <1>4, <2>6, <2>7, <2>8, <2>9 DEF OpenInv
<1>7. QED
  BY <1>5, <1>6

-----------------------------------------------------------------------------
(* SubsInv, step by step.                                                   *)
LEMMA IdTypes ==
  ASSUME TypeOK
  PROVE  /\ next_packet_id \in Nat
         /\ \A p \in Asked : p.id \in Nat /\ p.awaiting \in {"suback", "unsuback"}
         /\ \A x \in Under : x \in OutPackets /\ x.id \in Nat
         /\ \A a \in Items(to_client) : a \in WellFormedPackets /\ a.id \in Nat
<1>1. \A i \in 0..MaxPacketId : i \in Nat
  OBVIOUS
<1>2. next_packet_id \in Nat
  BY IdsType DEF TypeOK
<1>3. \A p \in Awaits : p.id \in 0..MaxPacketId
  BY DEF Awaits
<1>4. \A x \in OutPackets : x.id \in 0..MaxPacketId
  BY DEF OutPackets
<1>5. \A a \in WellFormedPackets : a.id \in 0..MaxPacketId
  BY IdsType DEF WellFormedPackets, AckPackets
<1>6. Asked \subseteq Awaits /\ \A p \in Asked : p.awaiting \in {"suback", "unsuback"}
  BY DEF TypeOK, Asked, Awaiting
<1>7. Under \subseteq OutPackets /\ Items(to_client) \subseteq WellFormedPackets
  BY DEF TypeOK, Under, Own, Items
<1>8. QED
  BY <1>1, <1>2, <1>3, <1>4, <1>5, <1>6, <1>7

LEMMA SubsPlain ==
  ASSUME TypeOK, TypeOK', Plain, Subscribed, state' = "connected",
         next_packet_id <= next_packet_id'
  PROVE  Subscribed'
<1>1. /\ next_packet_id \in Nat /\ next_packet_id' \in Nat
      /\ \A p \in Asked : p.id \in Nat /\ p.awaiting \in {"suback", "unsuback"}
      /\ \A x \in Under : x.id \in Nat
      /\ \A a \in Items(to_client) : a.id \in Nat
  BY IdTypes, IdsType DEF TypeOK
<1>2. /\ Declared' = Declared /\ todo' = todo /\ broker_subs' = broker_subs
      /\ \A x \in Under' : Asks(x) => x \in Under
      /\ \A a \in Items(to_client') : Acks(a) => a \in Items(to_client)
      /\ Asked' \subseteq Asked
      /\ \A p \in Asked : p \in Asked' \/ \E a \in Items(to_client) : Answers(a, p)
  BY DEF Plain, PlainControl, PlainOut, PlainIn, PlainAsked
<1>3. Order'
  BY DEF Plain, PlainOut, Subscribed
<1>4. Below'
  <2>1. \A i \in Nat : i < next_packet_id => i < next_packet_id'
    BY <1>1
  <2>2. QED
    BY <1>1, <1>2, <2>1 DEF Subscribed, Below
<1>5. ASSUME NEW t \in Topics
      PROVE  IF t \in todo' THEN Unsent(t)' ELSE Settled(t)' \/ Coming(t)'
  <2>1. Clear(t) => Clear(t)'
    BY <1>2 DEF Clear
  <2>2. CASE t \in todo
    <3>1. Unsent(t)
      BY <2>2 DEF Subscribed
    <3>2. QED
      BY <1>2, <2>1, <2>2, <3>1 DEF Unsent
  <2>3. CASE Settled(t)
    BY <1>2, <2>1, <2>3 DEF Settled, Subscribed, Unsent
  <2>4. CASE Coming(t)
    <3>1. PICK p \in Awaiting(Wanted(t)) :
            /\ p.topic = t /\ Due(t, p)
            /\ \A a \in Items(to_client) : ~Answers(a, p)
      BY <2>4 DEF Coming
    <3>2. p \in Asked /\ p.awaiting = Wanted(t)
      BY <3>1 DEF Awaiting, Asked, Wanted
    <3>3. p \in Awaiting(Wanted(t))'
      BY <1>2, <3>1, <3>2 DEF Awaiting, Asked, Wanted
    <3>4. \A a \in Items(to_client') : ~Answers(a, p)
      BY <1>1, <1>2, <3>1, <3>2 DEF Answers, Acks
    <3>5. Due(t, p)'
      BY <1>2, <3>1 DEF Due, Wanting
    <3>6. Coming(t)'
      BY <3>1, <3>3, <3>4, <3>5 DEF Coming
    <3>7. QED
      BY <1>2, <2>2, <3>6
  <2>5. QED
    BY <2>2, <2>3, <2>4 DEF Subscribed
<1>6. QED
  BY <1>3, <1>4, <1>5 DEF Subscribed

LEMMA SubsAccept ==
  ASSUME CleanSession, TypeOK, OpenInv, ReceiveAccept, UNCHANGED broker_subs
  PROVE  Subscribed'
<1>1. /\ Under' = Under /\ Asked' = Asked /\ Declared' = Declared
      /\ broker_subs = {} /\ Unasked /\ Items(to_client') \subseteq Items(to_client)
  BY AcceptAlone
<1>2. /\ Asked' = {} /\ \A x \in Under' : ~Asks(x)
      /\ \A a \in Items(to_client') : ~Acks(a)
  BY <1>1 DEF Unasked
<1>3. Below'
  BY <1>2 DEF Below
<1>4. Order'
  <2>1. \A y : \A x \in Under' : Lower(x, y)
    BY <1>2 DEF Lower
  <2>2. Rising(to_broker)' /\ Rising(tx_queue)'
    BY <2>1 DEF Rising, Under, Own, Items
  <2>3. QED
    BY <2>1, <2>2 DEF Order, Under, Own
<1>5. todo' = Declared
  BY DEF ReceiveAccept, ToReplay, Declared
<1>6. \A t \in Topics : Clear(t)'
  BY <1>2 DEF Clear
<1>7. QED
  BY <1>1, <1>3, <1>4, <1>5, <1>6 DEF Subscribed, Unsent, Settled

LEMMA SubsAsks ==
  ASSUME TypeOK, Subscribed, NEW t \in Topics, Requests(t), UNCHANGED broker_subs
  PROVE  Subscribed'
<1>1. PICK n \in Nat : n = next_packet_id /\ next_packet_id' = n + 1
  BY IdTypes DEF Requests
<1>2. /\ \A p \in Asked : p.id \in Nat /\ p.id < n
      /\ \A x \in Under : Asks(x) => x.id \in Nat /\ x.id < n
      /\ \A a \in Items(to_client) : Acks(a) => a.id \in Nat /\ a.id < n
  BY <1>1, IdTypes DEF Subscribed, Below
<1>3. PICK x \in OutPackets :
        /\ x = Packet(Wanting(t)', n, t)
        /\ Asks(x) /\ x.kind = Wanting(t)' /\ x.id = n /\ x.arg = t
        /\ Under' \subseteq Under \cup {x}
  BY <1>1, RequestAdds
<1>4. PICK k : k = Wanted(t)' /\ k \in {"suback", "unsuback"}
  BY DEF Wanted
<1>5. PICK p : /\ p = Await(k, n, t) /\ p.awaiting = k /\ p.id = n /\ p.topic = t
               /\ pending_responses' = pending_responses \cup {p}
  BY <1>1, <1>4 DEF Requests, Await
<1>6. /\ Asked' = Asked \cup {p} /\ p \in Awaiting(k)'
      /\ \A w : Awaiting(w) \subseteq Awaiting(w)'
  BY <1>4, <1>5 DEF Asked, Awaiting
<1>7. Order'
  <2>1. \A y \in Under : Lower(y, x)
    BY <1>2, <1>3 DEF Lower
  <2>2. CASE UNCHANGED tx_queue
    BY <2>2 DEF Requests, Subscribed, Order, Own
  <2>3. CASE tx_queue' = Append(tx_queue, x)
    BY <2>1, <2>3, OrderQueued DEF Requests, Subscribed
  <2>4. QED
    BY <1>1, <1>3, <2>2, <2>3 DEF Requests
<1>8. Below'
  <2>1. n < n + 1 /\ \A i \in Nat : i < n => i < n + 1
    BY <1>1
  <2>2. to_client' = to_client
    BY DEF Requests
  <2>3. QED
    BY <1>1, <1>2, <1>3, <1>5, <1>6, <2>1, <2>2 DEF Below
<1>9. ASSUME NEW u \in Topics
      PROVE  IF u \in todo' THEN Unsent(u)' ELSE Settled(u)' \/ Coming(u)'
  <2>1. CASE u = t
    <3>1. \A a \in Items(to_client) : ~Answers(a, p)
      BY <1>2, <1>4, <1>5 DEF Answers, Acks
    <3>2. Due(t, p)'
      <4>1. \A y \in Under' : Asks(y) => y = x \/ (y.id \in Nat /\ y.id < n)
        BY <1>2, <1>3
      <4>2. \A y \in Under' : Asks(y) =>
              /\ y.arg = t => y.id <= p.id
              /\ y.id = p.id => y.arg = t /\ y.kind = Wanting(t)'
        BY <1>1, <1>3, <1>5, <4>1
      <4>3. QED
        BY <4>2 DEF Due
    <3>3. Coming(t)'
      BY <1>4, <1>5, <1>6, <3>1, <3>2 DEF Coming, Requests
    <3>4. u \notin todo'
      BY <2>1 DEF Requests
    <3>5. QED
      BY <2>1, <3>3, <3>4
  <2>2. CASE u # t
    <3>1. (u \in Declared' <=> u \in Declared) /\ (u \in todo' <=> u \in todo)
          /\ broker_subs' = broker_subs
      BY <2>2 DEF Requests
    <3>2. Clear(u) => Clear(u)'
      BY <1>3, <2>2 DEF Clear
    <3>3. Wanted(u)' = Wanted(u) /\ Wanting(u)' = Wanting(u)
      BY <3>1 DEF Wanted, Wanting
    <3>4. CASE u \in todo
      BY <3>1, <3>2, <3>4 DEF Subscribed, Unsent
    <3>5. CASE Settled(u) /\ u \notin todo
      BY <3>1, <3>2, <3>5 DEF Settled
    <3>6. CASE Coming(u) /\ u \notin todo
      <4>1. PICK r \in Awaiting(Wanted(u)) :
              /\ r.topic = u /\ Due(u, r)
              /\ \A a \in Items(to_client) : ~Answers(a, r)
        BY <3>6 DEF Coming
      <4>2. r \in Asked
        BY <4>1 DEF Awaiting, Asked, Wanted
      <4>3. r.id \in Nat /\ r.id < n
        BY <1>2, <4>2
      <4>4. \A y \in Under' : Asks(y) =>
              /\ y.arg = u => y.id <= r.id
              /\ y.id = r.id => y.arg = u /\ y.kind = Wanting(u)
        <5>1. \A y \in Under' : y = x \/ y \in Under
          BY <1>3
        <5>2. x.arg # u /\ x.id # r.id
          BY <1>1, <1>3, <2>2, <4>3
        <5>3. QED
          BY <4>1, <5>1, <5>2 DEF Due
      <4>5. Due(u, r)'
        BY <3>3, <4>4 DEF Due
      <4>6. r \in Awaiting(Wanted(u))'
        BY <1>6, <3>3, <4>1
      <4>7. Coming(u)'
        BY <4>1, <4>5, <4>6 DEF Coming, Requests
      <4>8. QED
        BY <3>1, <3>6, <4>7
    <3>7. QED
      BY <3>4, <3>5, <3>6 DEF Subscribed
  <2>3. QED
    BY <2>1, <2>2
<1>10. QED
  BY <1>7, <1>8, <1>9 DEF Subscribed

(* The broker answers what was asked first: the last one asked about a      *)
(* topic settles it, an earlier one leaves its answer to come.              *)
LEMMA SubsGrants ==
  ASSUME TypeOK, OpenInv, Subscribed, BrokerGrants \/ BrokerUnsubscribes
  PROVE  Subscribed'
<1>1. /\ UNCHANGED <<todo, tx_queue, partial_send, pending_responses, next_packet_id>>
      /\ Asked' = Asked /\ Declared' = Declared
  BY BrokerKeeps DEF Broker
<1>2. PICK h : h = Head(to_broker) /\ to_broker # <<>> /\ to_broker' = Tail(to_broker)
  BY DEF BrokerGrants, BrokerUnsubscribes, Packets, Take
<1>3. /\ Under = {h} \cup Under' /\ h \in OutPackets
      /\ Order' /\ \A y \in Under' : Lower(h, y)
  BY <1>1, <1>2, PacketTaken DEF Subscribed
<1>4. Asks(h) /\ h \in Under /\ h.id \in 0..MaxPacketId
  BY <1>2, <1>3, HeadType DEF BrokerGrants, BrokerUnsubscribes, Packets, Asks
<1>5. PICK k \in {"suback", "rejected", "unsuback"} :
        /\ Reply(k, h.id)
        /\ \/ h.kind = "subscribe" /\ k = "suback" /\ broker_subs' = broker_subs \cup {h.arg}
           \/ k = "rejected" /\ broker_subs' = broker_subs
           \/ h.kind = "unsubscribe" /\ k = "unsuback" /\ broker_subs' = broker_subs \ {h.arg}
  BY <1>2 DEF BrokerGrants, BrokerUnsubscribes, Packets
<1>6. PICK a \in WellFormedPackets : a = Packet(k, h.id, None) /\ a.kind = k /\ a.id = h.id
  BY <1>4, ReplyPacket
<1>7. Items(to_client') \subseteq Items(to_client) \cup {a}
  <2>1. to_client' \in {to_client, Append(to_client, a)}
    BY <1>5, <1>6 DEF Reply
  <2>2. QED
    BY <2>1, PacketReplied
<1>8. /\ \A p \in Asked : p.id \in Nat /\ p.awaiting \in {"suback", "unsuback"}
      /\ \A x \in Under : x.id \in Nat
  BY IdTypes
<1>9. Below'
  <2>1. a.id < next_packet_id
    BY <1>4, <1>6 DEF Subscribed, Below
  <2>2. QED
    BY <1>1, <1>3, <1>7, <2>1 DEF Subscribed, Below
<1>10. \A u : Clear(u) => Clear(u)' /\ u # h.arg
  BY <1>3, <1>4 DEF Clear
<1>11. \A u, p : Due(u, p) => Due(u, p)' /\ (h.id = p.id => h.arg = u /\ h.kind = Wanting(u))
  BY <1>1, <1>3, <1>4 DEF Due, Wanting
<1>12. ASSUME NEW u \in Topics, Coming(u)
       PROVE  Settled(u)' \/ Coming(u)'
  <2>1. PICK p \in Awaiting(Wanted(u)) :
          /\ p.topic = u /\ Due(u, p)
          /\ \A x \in Items(to_client) : ~Answers(x, p)
    BY <1>12 DEF Coming
  <2>2. p \in Asked /\ p.awaiting = Wanted(u) /\ p \in Awaiting(Wanted(u))'
    BY <1>1, <2>1 DEF Awaiting, Asked, Wanted
  <2>3. CASE ~Answers(a, p)
    <3>1. \A x \in Items(to_client') : ~Answers(x, p)
      BY <1>7, <2>1, <2>3
    <3>2. QED
      BY <1>11, <2>1, <2>2, <3>1 DEF Coming
  <2>4. CASE Answers(a, p)
    <3>1. /\ p.id = h.id /\ p.awaiting = k
          /\ h.arg = u /\ h.kind = Wanting(u) /\ k = Wanted(u)
      BY <1>6, <1>11, <2>1, <2>2, <2>4 DEF Answers
    <3>2. Clear(u)'
      <4>1. \A y \in Under' : Asks(y) => h.id < y.id /\ (y.arg = u => y.id <= h.id)
        BY <1>3, <1>4, <2>1, <3>1 DEF Lower, Due
      <4>2. \A y \in Under' : y.id \in Nat /\ h.id \in Nat
        BY <1>3, <1>8
      <4>3. \A i, j \in Nat : ~(i < j /\ j <= i)
        OBVIOUS
      <4>4. QED
        BY <4>1, <4>2, <4>3 DEF Clear
    <3>3. u \in broker_subs' <=> u \in Declared'
      <4>1. CASE u \in Declared
        BY <1>1, <1>5, <3>1, <4>1 DEF Wanted
      <4>2. CASE u \notin Declared
        BY <1>1, <1>5, <3>1, <4>2 DEF Wanted
      <4>3. QED
        BY <4>1, <4>2
    <3>4. QED
      BY <3>2, <3>3 DEF Settled
  <2>5. QED
    BY <2>3, <2>4
<1>13. ASSUME NEW u \in Topics
       PROVE  IF u \in todo' THEN Unsent(u)' ELSE Settled(u)' \/ Coming(u)'
  <2>1. Clear(u) => (u \in broker_subs' <=> u \in broker_subs)
    BY <1>5, <1>10
  <2>2. CASE u \in todo
    BY <1>1, <1>10, <2>1, <2>2 DEF Subscribed, Unsent
  <2>3. CASE u \notin todo /\ Settled(u)
    BY <1>1, <1>10, <2>1, <2>3 DEF Settled
  <2>4. CASE u \notin todo /\ Coming(u)
    BY <1>1, <1>12, <2>4
  <2>5. QED
    BY <2>2, <2>3, <2>4 DEF Subscribed
<1>14. QED
  BY <1>3, <1>9, <1>13 DEF Subscribed

-----------------------------------------------------------------------------
SubsStep ==
  /\ OpenInv'
  /\ IdsInOrder'
  /\ state' = "connected" => Subscribed'

LEMMA SubsClient ==
  ASSUME CleanSession, TypeOK, TypeOK', Books, ToldTheTruth, GreetInv, OpenInv,
         NoWrap, SubsInv, Client
  PROVE  SubsStep
<1>1. IdsInOrder' /\ (~SelfHeal => next_packet_id <= next_packet_id')
  BY IdsClient DEF SubsInv
<1>2. UNCHANGED broker_subs
  BY DEF Client
<1>3. CASE Plain
  <2>1. OpenInv'
    BY <1>3, OpenPlain
  <2>2. ASSUME state' = "connected"
        PROVE  Subscribed'
    <3>1. state = "connected"
      BY <1>3, <2>2 DEF Plain, PlainControl
    <3>2. ~SelfHeal
      BY <3>1 DEF SelfHeal
    <3>3. QED
      BY <1>1, <1>3, <2>2, <3>1, <3>2, SubsPlain DEF SubsInv
  <2>3. QED
    BY <1>1, <2>1, <2>2 DEF SubsStep
<1>4. CASE Dials
  <2>1. state' # "connected"
    BY <1>4 DEF Dials, TransportReady, Connect
  <2>2. QED
    BY <1>1, <1>2, <1>4, <2>1, OpenDials DEF SubsStep
<1>5. CASE ReceiveAccept
  BY <1>1, <1>2, <1>5, OpenAccept, SubsAccept DEF SubsStep
<1>6. CASE Asking /\ ~Plain
  <2>1. PICK t \in Topics : Requests(t)
    BY <1>2, <1>6, AskStep DEF Asking
  <2>2. OpenInv'
    BY <1>2, <2>1, OpenAsks
  <2>3. Subscribed'
    BY <1>2, <2>1, SubsAsks DEF SubsInv, Requests
  <2>4. QED
    BY <1>1, <2>2, <2>3 DEF SubsStep
<1>7. QED
  BY <1>3, <1>4, <1>5, <1>6, PlainClient

LEMMA SubsBroker ==
  ASSUME TypeOK, TypeOK', GreetInv, OpenInv, SubsInv, Broker \/ LinkBreaks
  PROVE  SubsStep
<1>1. /\ state' = state /\ next_packet_id' = next_packet_id /\ InFlightIds' = InFlightIds
  BY BrokerKeeps
<1>2. IdsInOrder'
  BY <1>1 DEF SubsInv, IdsInOrder
<1>3. CASE Plain
  <2>1. next_packet_id <= next_packet_id'
    BY <1>1, IdTypes
  <2>2. QED
    BY <1>1, <1>2, <1>3, <2>1, OpenPlain, SubsPlain DEF SubsInv, SubsStep
<1>4. CASE BrokerAccepts
  <2>1. state # "connected"
    <3>1. to_broker # <<>> /\ Head(to_broker).kind = "connect"
      BY <1>4 DEF BrokerAccepts, Packets
    <3>2. Head(to_broker) \in Under
      <4>1. PICK q \in Seq(OutPackets) : q = to_broker
        BY DEF TypeOK
      <4>2. Items(q) = {Head(q)} \cup Items(Tail(q))
        BY <3>1, <4>1, ItemsTail
      <4>3. QED
        BY <4>1, <4>2 DEF Under
    <3>3. QED
      BY <3>1, <3>2 DEF OpenInv, Greeting
  <2>2. QED
    BY <1>1, <1>2, <1>4, <2>1, OpenBroker DEF SubsStep
<1>5. CASE BrokerGrants \/ BrokerUnsubscribes
  BY <1>1, <1>2, <1>5, OpenBroker, SubsGrants DEF SubsInv, SubsStep
<1>6. QED
  BY <1>3, <1>4, <1>5, PlainBroker

LEMMA SubsStutters ==
  ASSUME OpenInv, SubsInv, UNCHANGED sysvars
  PROVE  SubsStep
<1> USE DEF sysvars, vars, broker, control, transport, wire, intent, outbox,
            ids, registry, app
<1>1. /\ Under' = Under /\ Asked' = Asked /\ Declared' = Declared
      /\ InFlightIds' = InFlightIds
      /\ UNCHANGED <<state, pc, todo, to_broker, to_client, tx_queue, partial_send,
                     next_packet_id, pending_responses, broker_subs>>
  BY DEF Under, Own, Asked, Awaiting, Declared, InFlightIds
<1>2. OpenInv'
  BY <1>1 DEF OpenInv, Greeting, Welcome, Unasked
<1>3. IdsInOrder'
  BY <1>1 DEF SubsInv, IdsInOrder
<1>4. Order' = Order /\ Below' = Below
  BY <1>1 DEF Order, Own, Below
<1>5. \A t : Unsent(t)' = Unsent(t) /\ Settled(t)' = Settled(t) /\ Coming(t)' = Coming(t)
  BY <1>1 DEF Unsent, Settled, Clear, Coming, Due, Wanted, Wanting, Awaiting
<1>6. QED
  BY <1>1, <1>2, <1>3, <1>4, <1>5 DEF SubsStep, SubsInv, Subscribed

LEMMA SubsInit ==
  ASSUME SysInit
  PROVE  OpenInv /\ SubsInv
<1>1. /\ to_broker = <<>> /\ to_client = <<>> /\ tx_queue = <<>> /\ partial_send = None
      /\ pending_responses = {} /\ broker_subs = {} /\ todo = {}
      /\ state = "disconnected"
  BY DEF SysInit, Init
<1>2. Items(<<>>) = {}
  BY DEF Items
<1>3. Under = {}
  BY <1>1, <1>2 DEF Under, Own
<1>4. Asked = {}
  BY <1>1 DEF Asked, Awaiting
<1>5. ~Greeting /\ ~Welcome /\ ConnackInFront(to_client)
  BY <1>1, <1>2, <1>3 DEF Greeting, Welcome, ConnackInFront
<1>6. IdsInOrder
  <2>1. InFlightIds = {}
    BY NoneAssumption DEF SysInit, Init, InFlightIds
  <2>2. QED
    BY <2>1 DEF IdsInOrder
<1>7. QED
  BY <1>1, <1>3, <1>5, <1>6 DEF OpenInv, SubsInv

LEMMA SubsHonoured ==
  ASSUME OpenInv, SubsInv
  PROVE  SubscriptionsHonoured
<1>1. SUFFICES ASSUME pc = "idle", state = "connected", Asked = {}
               PROVE  broker_subs = Declared
  BY DEF SubscriptionsHonoured, Asked
<1>2. \A t \in Topics : Settled(t)
  <2>1. todo = {} /\ Subscribed
    BY <1>1 DEF OpenInv, SubsInv
  <2>2. \A t \in Topics : ~Coming(t)
    BY <1>1 DEF Coming, Asked, Wanted
  <2>3. QED
    BY <2>1, <2>2 DEF Subscribed
<1>3. broker_subs \subseteq Topics /\ Declared \subseteq Topics
  BY DEF OpenInv, Declared
<1>4. QED
  BY <1>2, <1>3 DEF Settled

(* Once every SUBSCRIBE and UNSUBSCRIBE is answered, the broker's           *)
(* subscriptions are the declared ones: in clean sessions, the only ones    *)
(* in which the client replays what it declared, and as long as the packet  *)
(* ids of a session have not come round.  (The code keeps the awaited acks  *)
(* in a list; pending_responses is a set, which stands for it as long as no *)
(* two of them are equal.)                                                  *)
THEOREM SubscriptionsCorrect ==
  ASSUME CleanSession
  PROVE  SysSpec /\ []NoWrap => []SubscriptionsHonoured
<1>1. SysInit => OpenInv /\ SubsInv
  BY SubsInit
<1>2. /\ TypeOK /\ TypeOK' /\ Books /\ ToldTheTruth /\ GreetInv /\ NoWrap
      /\ OpenInv /\ SubsInv /\ [SysNext]_sysvars
      => OpenInv' /\ SubsInv'
  <2>1. SUFFICES ASSUME TypeOK, TypeOK', Books, ToldTheTruth, GreetInv, NoWrap,
                        OpenInv, SubsInv, [SysNext]_sysvars
                 PROVE  SubsStep
    BY DEF SubsStep, SubsInv
  <2>2. CASE Client
    BY <2>1, <2>2, SubsClient
  <2>3. CASE Broker \/ LinkBreaks
    BY <2>1, <2>3, SubsBroker
  <2>4. CASE UNCHANGED sysvars
    BY <2>1, <2>4, SubsStutters
  <2>5. QED
    BY <2>1, <2>2, <2>3, <2>4 DEF SysNext
<1>3. OpenInv /\ SubsInv => SubscriptionsHonoured
  BY SubsHonoured
<1>4. QED
  BY <1>1, <1>2, <1>3, SystemIsClient, TypeCorrect, ToldCorrect, BooksCorrect, GreetCorrect, PTL
     DEF SysSpec
=============================================================================

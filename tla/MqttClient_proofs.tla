------------------------- MODULE MqttClient_proofs -------------------------
(***************************************************************************)
(* Invariants of the client for every value of the constants and against   *)
(* every peer: MqttClient's Spec lets the peer send any well-formed packet *)
(* at any time and lets the transport break at any time.                   *)
(***************************************************************************)
EXTENDS MqttClient, SequenceTheorems, TLAPS

-----------------------------------------------------------------------------
(* What the operators of the model return.                                  *)

LEMMA PacketType ==
  ASSUME NEW k \in OutKinds, NEW id \in 0..MaxPacketId, NEW a \in OutArgs
  PROVE  Packet(k, id, a) \in OutPackets
  BY DEF Packet, OutPackets

LEMMA IdsType == /\ Ids \subseteq Nat \ {0} /\ Ids \subseteq 0..MaxPacketId
                 /\ 0 \in 0..MaxPacketId /\ 1 \in Ids
  BY ClientAssumption DEF Ids, ClientAssumption

LEMMA ModBound ==
  ASSUME NEW i \in Nat, NEW n \in Nat \ {0}
  PROVE  i % n \in 0..(n - 1)
  BY SMT

LEMMA AfterType ==
  ASSUME NEW i \in Ids
  PROVE  After(i) \in Ids
<1>1. i \in Nat /\ MaxPacketId \in Nat \ {0}
  BY ClientAssumption DEF Ids, ClientAssumption
<1>2. i % MaxPacketId \in 0..(MaxPacketId - 1)
  BY <1>1, ModBound
<1>3. QED
  BY <1>1, <1>2 DEF After, Ids

LEMMA AwaitType ==
  ASSUME NEW k \in {"connack", "pingresp", "suback", "unsuback"},
         NEW id \in 0..MaxPacketId, NEW t \in Topics \cup {None}
  PROVE  Await(k, id, t) \in Awaits
  BY DEF Await, Awaits

LEMMA ArgTypes == /\ None \in OutArgs /\ Publications \subseteq OutArgs
                  /\ Topics \subseteq OutArgs /\ SUBSET Inbound \subseteq OutArgs
  BY DEF OutArgs

(* Rest(q, n) is q without its first n elements.                            *)
LEMMA RestProperties ==
  ASSUME NEW S, NEW q \in Seq(S), NEW n \in 0..Len(q)
  PROVE  /\ Rest(q, n) \in Seq(S)
         /\ Len(Rest(q, n)) = Len(q) - n
         /\ \A i \in 1..(Len(q) - n) : Rest(q, n)[i] = q[i + n]
<1>1. q \in [1..Len(q) -> S] /\ Len(q) \in Nat
  BY LenProperties
<1>2. Len(q) - n \in Nat
  BY <1>1
<1>3. Rest(q, n) \in [1..(Len(q) - n) -> S]
  BY <1>1, <1>2 DEF Rest
<1>4. Rest(q, n) \in Seq(S)
  BY <1>2, <1>3, SeqDef
<1>5. DOMAIN Rest(q, n) = 1..(Len(q) - n)
  BY DEF Rest
<1>6. Len(Rest(q, n)) = Len(q) - n
  BY <1>2, <1>4, <1>5, LenProperties
<1>7. QED
  BY <1>4, <1>6 DEF Rest


LEMMA EnqueueType ==
  ASSUME tx_queue \in Seq(OutPackets),
         NEW k \in OutKinds, NEW id \in 0..MaxPacketId, NEW a \in OutArgs
  PROVE  Append(tx_queue, Packet(k, id, a)) \in Seq(OutPackets)
  BY PacketType, AppendProperties

LEMMA InFlightType ==
  ASSUME TypeOK
  PROVE  /\ InFlightMsgs \subseteq Messages /\ InFlightIds \subseteq Ids
         /\ \A i \in Ids : in_flight[i] # None =>
              in_flight[i].msg \in Messages /\ in_flight[i].retries \in 0..RetryMax
  BY DEF TypeOK, InFlightMsgs, InFlightIds, InFlightRecords

LEMMA StatusType ==
  ASSUME TypeOK, NEW S, Drop(S) \/ Acknowledge(S)
  PROVE  status' \in [Publications -> {"new", "accepted", "acked", "dropped"}]
  BY DEF TypeOK, Drop, Acknowledge

LEMMA FailedType ==
  ASSUME TypeOK, EnterFailed
  PROVE  state' \in States /\ told' \in {"up", "down"}
  BY DEF TypeOK, EnterFailed, States

LEMMA ResetType ==
  ASSUME TypeOK, ResetTransientState
  PROVE  /\ tx_queue' \in Seq(OutPackets)
         /\ partial_send' \in OutPackets \cup {None}
         /\ puback_batch_queued' \in BOOLEAN /\ send_armed' \in BOOLEAN
         /\ pending_responses' \subseteq Awaits
  BY EmptySeq DEF TypeOK, ResetTransientState

LEMMA DeadlinesType ==
  ASSUME TypeOK, EnterDeadlines
  PROVE  pc' \in Phases /\ scan' \subseteq Ids
  BY DEF TypeOK, EnterDeadlines, Phases, InFlightIds

LEMMA IncomingType ==
  ASSUME TypeOK, NEW kinds, Incoming(kinds)
  PROVE  /\ Head(to_client) \in WellFormedPackets
         /\ Head(to_client).kind \in kinds
         /\ to_client' \in Seq(WellFormedPackets)
         /\ link' = link /\ to_broker' = to_broker
  BY HeadTailProperties DEF TypeOK, Incoming

LEMMA ContinueType ==
  ASSUME ContinueReading
  PROVE  pc' \in Phases
  BY DEF ContinueReading, Phases

(* An id allocated, whether or not the packet it was for is queued.         *)
LEMMA BurnType ==
  ASSUME TypeOK, BurnId
  PROVE  next_packet_id' \in Ids
  BY AfterType DEF BurnId

LEMMA DoPublishType ==
  ASSUME TypeOK, NEW m \in Publications, DoPublish(m) \/ DoPublishRaises(m)
  PROVE  /\ tx_queue' \in Seq(OutPackets)
         /\ in_flight' \in [Ids -> InFlightRecords \cup {None}]
         /\ next_packet_id' \in Ids
<1>1. CASE DoPublishRaises(m)
  BY <1>1, BurnType DEF DoPublishRaises, TypeOK
<1>2. CASE m \in Events /\ DoPublish(m)
  <2>1. Packet("publish", 0, m) \in OutPackets /\ Packet("callback", 0, m) \in OutPackets
    BY PacketType, IdsType, ArgTypes DEF OutKinds
  <2>2. WithMarker(m) \in Seq(OutPackets)
    BY <2>1 DEF WithMarker
  <2>3. tx_queue \o WithMarker(m) \in Seq(OutPackets)
    BY <2>2, ConcatProperties DEF TypeOK
  <2>4. m \notin Messages
    BY <1>2, ClientAssumption DEF ClientAssumption
  <2>5. QED
    BY <1>2, <2>3, <2>4 DEF DoPublish, TypeOK, ids
<1>3. CASE m \in Messages /\ DoPublish(m)
  <2>1. m \notin Events
    BY <1>3, ClientAssumption DEF ClientAssumption
  <2>2. PICK i \in Ids :
          /\ tx_queue' = Append(tx_queue, Packet("publish", i, m))
          /\ in_flight' = [in_flight EXCEPT ![i] = [msg |-> m, retries |-> 0]]
          /\ next_packet_id' = After(i)
    BY <1>3, <2>1 DEF DoPublish
  <2>3. tx_queue' \in Seq(OutPackets)
    BY <2>2, EnqueueType, IdsType, ArgTypes DEF TypeOK, OutKinds
  <2>4. [msg |-> m, retries |-> 0] \in InFlightRecords
    BY <1>3, ClientAssumption DEF ClientAssumption, InFlightRecords
  <2>5. QED
    BY <2>2, <2>3, <2>4, AfterType DEF TypeOK
<1>4. QED
  BY <1>1, <1>2, <1>3 DEF Publications

-----------------------------------------------------------------------------
(* Type correctness.                                                        *)

LEMMA TypeInit == Init => TypeOK
<1>1. \A S : <<>> \in Seq(S)
  BY EmptySeq
<1>2. 0 \in 0..BackoffSteps /\ StartsWithSocket \in BOOLEAN
  BY ClientAssumption DEF ClientAssumption
<1>3. QED
  BY <1>1, <1>2, IdsType DEF Init, TypeOK, Phases, States

(* One step per action; under it, the variables it gives a new value whose  *)
(* type takes an argument.                                                  *)
LEMMA TypeNext == TypeOK /\ [Next]_vars => TypeOK'
<1> SUFFICES ASSUME TypeOK, [Next]_vars
             PROVE  TypeOK'
  OBVIOUS
<1> USE DEF Phases, States, control, transport, intent, outbox, ids, registry, app, wire
<1>1. CASE SelfHeal
  <2>1. self_heal_attempts' \in 0..BackoffSteps
    BY <1>1, ClientAssumption DEF SelfHeal, ArmSelfHealBackoff, TypeOK, ClientAssumption
  <2>2. /\ tx_queue' \in Seq(OutPackets)
        /\ partial_send' \in OutPackets \cup {None}
        /\ puback_batch_queued' \in BOOLEAN /\ send_armed' \in BOOLEAN
        /\ pending_responses' \subseteq Awaits
    BY <1>1, ResetType DEF SelfHeal
  <2>3. /\ in_flight' \in [Ids -> InFlightRecords \cup {None}]
        /\ next_packet_id' \in Ids
        /\ status' \in [Publications -> {"new", "accepted", "acked", "dropped"}]
    BY <1>1, StatusType, IdsType DEF SelfHeal, TypeOK
  <2>4. to_client' \in Seq(WellFormedPackets)
    BY <1>1, EmptySeq DEF SelfHeal
  <2>5. /\ connector' \in BOOLEAN /\ transport_armed' \in BOOLEAN
        /\ state' \in States /\ pc' \in Phases
    BY <1>1 DEF SelfHeal, TypeOK
  <2>6. QED
    BY <1>1, <2>1, <2>2, <2>3, <2>4, <2>5 DEF SelfHeal, TypeOK
<1>2. CASE TransportLost
  BY <1>2, FailedType DEF TransportLost, TypeOK
<1>3. CASE TransportPending
  BY <1>3 DEF TransportPending, TypeOK
<1>4. CASE TransportReady
  <2>1. tx_queue' \in Seq(OutPackets)
    BY <1>4, EnqueueType, IdsType, ArgTypes DEF TransportReady, TypeOK, OutKinds
  <2>2. pending_responses' \subseteq Awaits
    BY <1>4, AwaitType, IdsType DEF TransportReady, TypeOK
  <2>3. pc' \in Phases /\ scan' \subseteq Ids
    BY <1>4, DeadlinesType DEF TransportReady
  <2>4. to_broker' \in Seq(OutPackets) /\ to_client' \in Seq(WellFormedPackets)
    BY <1>4, EmptySeq DEF TransportReady
  <2>5. QED
    BY <1>4, <2>1, <2>2, <2>3, <2>4 DEF TransportReady, TypeOK
<1>5. CASE Begin
  BY <1>5, DeadlinesType DEF Begin, TypeOK
<1>6. ASSUME NEW i \in Ids, Retransmit(i) PROVE TypeOK'
  <2>1. in_flight[i].msg \in Messages /\ in_flight[i].retries \in 0..RetryMax
    BY <1>6, InFlightType DEF Retransmit
  <2>2. [msg |-> in_flight[i].msg, retries |-> in_flight[i].retries + 1] \in InFlightRecords
    BY <1>6, <2>1, ClientAssumption DEF Retransmit, InFlightRecords, ClientAssumption
  <2>3. tx_queue' \in Seq(OutPackets)
    BY <1>6, <2>1, EnqueueType, IdsType, ArgTypes
       DEF Retransmit, TypeOK, OutKinds, Publications
  <2>4. QED
    BY <1>6, <2>2, <2>3 DEF Retransmit, TypeOK
<1>7. ASSUME NEW i \in Ids, RetriesExhausted(i) PROVE TypeOK'
  BY <1>7, StatusType, FailedType DEF RetriesExhausted, TypeOK
<1>8. ASSUME NEW p \in pending_responses, AckTimeout(p) PROVE TypeOK'
  BY <1>8, FailedType DEF AckTimeout, TypeOK
<1>9. CASE SendTimeout
  BY <1>9, FailedType DEF SendTimeout, TypeOK
<1>10. CASE DeadlinesDone
  BY <1>10 DEF DeadlinesDone, TypeOK
<1>11. CASE SendPing
  <2>1. tx_queue' \in Seq(OutPackets)
    BY <1>11, EnqueueType, IdsType, ArgTypes DEF SendPing, TypeOK, OutKinds
  <2>2. pending_responses' \subseteq Awaits
    BY <1>11, AwaitType, IdsType DEF SendPing, TypeOK
  <2>3. QED
    BY <1>11, <2>1, <2>2 DEF SendPing, TypeOK
<1>12. CASE NoPing
  BY <1>12 DEF NoPing, TypeOK
<1>13. CASE ReadSuppressed
  BY <1>13 DEF ReadSuppressed, TypeOK
<1>14. CASE ReadFails
  BY <1>14, FailedType DEF ReadFails, Abort, TypeOK
<1>15. CASE ReceivePublish
  <2>1. to_client' \in Seq(WellFormedPackets) /\ Head(to_client) \in WellFormedPackets
         /\ link' = link /\ to_broker' = to_broker
    BY <1>15, IncomingType DEF ReceivePublish
  <2>2. Head(to_client).arg \in Inbound
    BY <1>15, <2>1, IncomingType DEF ReceivePublish, WellFormedPackets, AckPackets
  <2>3. QED
    BY <1>15, <2>1, <2>2, ContinueType DEF ReceivePublish, TypeOK
<1>16. CASE ReceiveTooLarge
  BY <1>16, IncomingType, FailedType DEF ReceiveTooLarge, Abort, TypeOK
<1>17. CASE ReceiveRefusal
  BY <1>17, IncomingType, FailedType DEF ReceiveRefusal, TypeOK
<1>18. CASE ReceiveAccept
  <2>1. self_heal_attempts' \in 0..BackoffSteps
    BY <1>18, ClientAssumption DEF ReceiveAccept, ClientAssumption
  <2>2. todo' \subseteq Topics
    BY <1>18 DEF ReceiveAccept, ToReplay
  <2>3. QED
    BY <1>18, <2>1, <2>2, IncomingType DEF ReceiveAccept, TypeOK
<1>19. ASSUME NEW t \in Topics, ReplaySubscription(t) PROVE TypeOK'
  <2>1. PICK i \in Ids :
          /\ next_packet_id' = After(i)
          /\ tx_queue' = IF InternalRoom
                           THEN Append(tx_queue, Packet("subscribe", i, t))
                           ELSE tx_queue
          /\ pending_responses' = pending_responses \cup {Await("suback", i, t)}
    BY <1>19 DEF ReplaySubscription
  <2>2. tx_queue' \in Seq(OutPackets)
    BY <2>1, EnqueueType, IdsType, ArgTypes DEF TypeOK, OutKinds
  <2>3. pending_responses' \subseteq Awaits
    BY <2>1, AwaitType, IdsType DEF TypeOK
  <2>4. next_packet_id' \in Ids
    BY <2>1, AfterType
  <2>5. QED
    BY <1>19, <2>2, <2>3, <2>4 DEF ReplaySubscription, TypeOK
<1>20. CASE DrainPreConnect
  <2>1. /\ Head(pre_connect_queue) \in Publications
        /\ Tail(pre_connect_queue) \in Seq(Publications)
    BY <1>20, HeadTailProperties DEF DrainPreConnect, TypeOK
  <2>2. /\ tx_queue' \in Seq(OutPackets)
        /\ in_flight' \in [Ids -> InFlightRecords \cup {None}]
        /\ next_packet_id' \in Ids
    BY <1>20, <2>1, DoPublishType DEF DrainPreConnect
  <2>3. QED
    BY <1>20, <2>1, <2>2, FailedType DEF DrainPreConnect, Abort, TypeOK
<1>21. CASE OnConnect
  BY <1>21 DEF OnConnect, TypeOK
<1>22. CASE ReceivePubAck
  <2>1. \A i \in InFlightIds : in_flight[i].msg \in Publications /\ i \in Ids
    BY InFlightType DEF InFlightIds, Publications
  <2>2. in_flight' \in [Ids -> InFlightRecords \cup {None}]
    BY <1>22 DEF ReceivePubAck, TypeOK
  <2>3. status' \in [Publications -> {"new", "accepted", "acked", "dropped"}]
    BY <1>22, <2>1 DEF ReceivePubAck, TypeOK
  <2>4. QED
    BY <1>22, <2>2, <2>3, IncomingType, ContinueType DEF ReceivePubAck, TypeOK
<1>23. CASE ReceiveSubAck
  <2>1. subscriptions' \in [Topics -> {"absent", "armed", "fired"}]
    BY <1>23 DEF ReceiveSubAck, TypeOK
  <2>2. QED
    BY <1>23, <2>1, IncomingType, ContinueType DEF ReceiveSubAck, TypeOK
<1>24. CASE ReceiveRejection
  BY <1>24, IncomingType, FailedType DEF ReceiveRejection, Abort, TypeOK
<1>25. CASE ReceiveUnsubAck
  BY <1>25, IncomingType, ContinueType DEF ReceiveUnsubAck, TypeOK
<1>26. CASE ReceiveUnexpectedAck
  BY <1>26, IncomingType, FailedType DEF ReceiveUnexpectedAck, Abort, TypeOK
<1>27. CASE ReceivePingResp
  BY <1>27, IncomingType DEF ReceivePingResp, TypeOK
<1>28. CASE EndRead
  <2>1. Packet("puback", 0, pending_pubacks) \in OutPackets
    BY PacketType, IdsType, ArgTypes DEF OutKinds, TypeOK
  <2>2. <<Packet("puback", 0, pending_pubacks)>> \o tx_queue \in Seq(OutPackets)
    BY <2>1, ConcatProperties DEF TypeOK
  <2>3. tx_queue' \in Seq(OutPackets)
    BY <1>28, <2>2 DEF EndRead, TypeOK
  <2>4. /\ state' \in States /\ told' \in {"up", "down"} /\ pc' \in Phases
        /\ puback_batch_queued' \in BOOLEAN
    BY <1>28, FailedType DEF EndRead, Abort, TypeOK
  <2>5. pending_pubacks' \subseteq Inbound
    BY <1>28 DEF EndRead, TypeOK
  <2>6. QED
    BY <1>28, <2>3, <2>4, <2>5 DEF EndRead, TypeOK
<1>29. CASE DrainPartial
  <2>1. to_broker' \in Seq(OutPackets)
    <3>1. CASE to_broker' = to_broker
      BY <3>1 DEF TypeOK
    <3>2. CASE to_broker' = Append(to_broker, partial_send)
      BY <1>29, <3>2, AppendProperties DEF DrainPartial, TypeOK
    <3>3. QED
      BY <1>29, <3>1, <3>2 DEF DrainPartial, Sent
  <2>2. partial_send' \in OutPackets \cup {None}
    BY <1>29 DEF DrainPartial, TypeOK
  <2>3. QED
    BY <1>29, <2>1, <2>2 DEF DrainPartial, UpdateSendDeadline, TypeOK
<1>30. ASSUME NEW n \in 0..Len(tx_queue), Drain(n) PROVE TypeOK'
  <2>1. Rest(tx_queue, n) \in Seq(OutPackets)
    BY RestProperties DEF TypeOK
  <2>2. Rest(tx_queue, n) # <<>> =>
          /\ Head(Rest(tx_queue, n)) \in OutPackets
          /\ Tail(Rest(tx_queue, n)) \in Seq(OutPackets)
    BY <2>1, HeadTailProperties
  <2>3. tx_queue' \in Seq(OutPackets)
    BY <1>30, <2>1, <2>2, RestProperties DEF Drain
  <2>4. to_broker' \in Seq(OutPackets)
    <3>1. CASE to_broker' = to_broker
      BY <3>1 DEF TypeOK
    <3>2. CASE /\ Rest(tx_queue, n) # <<>>
               /\ to_broker' = Append(to_broker, Head(Rest(tx_queue, n)))
      BY <2>2, <3>2, AppendProperties DEF TypeOK
    <3>3. QED
      BY <1>30, <3>1, <3>2 DEF Drain, Sent
  <2>5. status' \in [Publications -> {"new", "accepted", "acked", "dropped"}]
    BY <1>30, StatusType DEF Drain
  <2>6. partial_send' \in OutPackets \cup {None}
    BY <1>30, <2>2 DEF Drain, TypeOK
  <2>7. puback_batch_queued' \in BOOLEAN /\ send_armed' \in BOOLEAN /\ pc' \in Phases
    BY <1>30 DEF Drain, UpdateSendDeadline, TypeOK
  <2>8. QED
    BY <1>30, <2>3, <2>4, <2>5, <2>6, <2>7 DEF Drain, TypeOK
<1>31. ASSUME NEW n \in 0..Len(tx_queue), DrainFails(n) PROVE TypeOK'
  <2>1. tx_queue' \in Seq(OutPackets)
    BY <1>31, RestProperties DEF DrainFails, TypeOK
  <2>2. QED
    BY <1>31, <2>1, StatusType, FailedType DEF DrainFails, Abort, TypeOK
<1>32. CASE Connect
  <2>1. tx_queue' \in Seq(OutPackets)
    <3>1. Append(tx_queue, Packet("connect", 0, None)) \in Seq(OutPackets)
      BY EnqueueType, IdsType, ArgTypes DEF TypeOK, OutKinds
    <3>2. QED
      BY <1>32, <3>1 DEF Connect, TypeOK
  <2>2. pending_responses' \subseteq Awaits
    BY <1>32, AwaitType, IdsType DEF Connect, TypeOK
  <2>3. self_heal_attempts' \in 0..BackoffSteps
    BY <1>32, ClientAssumption DEF Connect, ClientAssumption, TypeOK
  <2>4. state' \in States /\ connector' \in BOOLEAN /\ transport_armed' \in BOOLEAN
        /\ socket' \in BOOLEAN /\ permanent_failure' \in BOOLEAN
    BY <1>32 DEF Connect, TypeOK
  <2>5. QED
    BY <1>32, <2>1, <2>2, <2>3, <2>4 DEF Connect, TypeOK
<1>33. CASE Disconnect
  <2>1. to_broker' \in Seq(OutPackets)
    <3>1. Packet("disconnect", 0, None) \in OutPackets
      BY PacketType, IdsType, ArgTypes DEF OutKinds
    <3>2. Append(to_broker, Packet("disconnect", 0, None)) \in Seq(OutPackets)
      BY <3>1, AppendProperties DEF TypeOK
    <3>3. QED
      BY <1>33, <3>2 DEF Disconnect, TypeOK
  <2>2. pre_connect_queue' \in Seq(Publications) /\ to_client' \in Seq(WellFormedPackets)
    BY <1>33, EmptySeq DEF Disconnect
  <2>3. QED
    BY <1>33, <2>1, <2>2, ResetType, StatusType DEF Disconnect, TypeOK
<1>34. CASE Hold
  BY <1>34 DEF Hold, TypeOK
<1>35. CASE IoError
  <2>1. connector' \in BOOLEAN /\ transport_armed' \in BOOLEAN
    BY <1>35 DEF IoError, GiveUpConnector, TypeOK
  <2>2. state' \in States /\ told' \in {"up", "down"}
    BY <1>35, FailedType DEF IoError
  <2>3. QED
    BY <1>35, <2>1, <2>2 DEF IoError, TypeOK
<1>36. ASSUME NEW m \in Publications, Publish(m) PROVE TypeOK'
  <2>1. /\ tx_queue' \in Seq(OutPackets)
        /\ in_flight' \in [Ids -> InFlightRecords \cup {None}]
        /\ next_packet_id' \in Ids
    BY <1>36, DoPublishType DEF Publish, TypeOK
  <2>2. pre_connect_queue' \in Seq(Publications)
    <3>1. Append(pre_connect_queue, m) \in Seq(Publications)
      BY <1>36, AppendProperties DEF TypeOK
    <3>2. QED
      BY <1>36, <3>1 DEF Publish, TypeOK
  <2>3. status' \in [Publications -> {"new", "accepted", "acked", "dropped"}]
    BY <1>36 DEF Publish, TypeOK
  <2>4. QED
    BY <1>36, <2>1, <2>2, <2>3 DEF Publish, TypeOK
<1>37. ASSUME NEW t \in Topics, Subscribe(t) \/ Unsubscribe(t) PROVE TypeOK'
  <2>1. PICK kind \in {"subscribe", "unsubscribe"}, ack \in {"suback", "unsuback"},
             entry \in {"armed", "absent"} : Declare(kind, ack, t, entry)
    BY <1>37 DEF Subscribe, Unsubscribe
  <2>2. tx_queue' \in Seq(OutPackets)
    <3>1. \A i \in Ids : Append(tx_queue, Packet(kind, i, t)) \in Seq(OutPackets)
      BY EnqueueType, IdsType, ArgTypes DEF TypeOK, OutKinds
    <3>2. QED
      BY <2>1, <3>1 DEF Declare, TypeOK
  <2>3. pending_responses' \subseteq Awaits
    BY <2>1, AwaitType, IdsType DEF Declare, TypeOK
  <2>4. next_packet_id' \in Ids
    BY <2>1, AfterType, BurnType DEF Declare, TypeOK
  <2>5. subscriptions' \in [Topics -> {"absent", "armed", "fired"}]
    BY <2>1 DEF Declare, TypeOK
  <2>6. QED
    BY <2>1, <2>2, <2>3, <2>4, <2>5 DEF Declare, TypeOK
<1>38. CASE Peer
  <2>1. to_broker' \in Seq(OutPackets)
    <3>1. to_broker # <<>> => Tail(to_broker) \in Seq(OutPackets)
      BY HeadTailProperties DEF TypeOK
    <3>2. QED
      BY <1>38, <3>1, EmptySeq DEF Peer, TypeOK
  <2>2. to_client' \in Seq(WellFormedPackets)
    <3>1. \A q \in WellFormedPackets : Append(to_client, q) \in Seq(WellFormedPackets)
      BY AppendProperties DEF TypeOK
    <3>2. QED
      BY <1>38, <3>1 DEF Peer, TypeOK
  <2>3. link' \in BOOLEAN
    BY <1>38 DEF Peer, TypeOK
  <2>4. UNCHANGED <<control, state, transport, intent, outbox, pending_pubacks,
                    ids, registry, app>>
    BY <1>38 DEF Peer
  <2>5. QED
    BY <2>1, <2>2, <2>3, <2>4 DEF TypeOK
<1>39. CASE UNCHANGED vars
  BY <1>39 DEF vars, TypeOK
<1>40. QED
  BY <1>1, <1>2, <1>3, <1>4, <1>5, <1>6, <1>7, <1>8, <1>9, <1>10, <1>11, <1>12,
     <1>13, <1>14, <1>15, <1>16, <1>17, <1>18, <1>19, <1>20, <1>21, <1>22, <1>23, <1>24,
     <1>25, <1>26, <1>27, <1>28, <1>29, <1>30, <1>31, <1>32, <1>33, <1>34, <1>35, <1>36,
     <1>37, <1>38, <1>39
     DEF Next, Handle, Transport, Deadlines, Receive, Send, Api

(* TypeOK is inductive on its own.                                          *)
THEOREM TypeCorrect == Spec => []TypeOK
<1>1. QED
  BY TypeInit, TypeNext, PTL DEF Spec

-----------------------------------------------------------------------------
(* The transport and the application's view of it.                         *)

LEMMA TransportNext == OneTransport /\ [Next]_vars => OneTransport'
<1> SUFFICES ASSUME OneTransport, [Next]_vars
             PROVE  OneTransport'
  OBVIOUS
<1> USE DEF control, transport, intent, outbox, ids, registry, app, wire
<1>1. CASE SelfHeal
  BY <1>1 DEF SelfHeal, OneTransport
<1>2. CASE TransportLost
  BY <1>2 DEF TransportLost, EnterFailed, OneTransport
<1>3. CASE TransportPending
  BY <1>3 DEF TransportPending, OneTransport
<1>4. CASE TransportReady
  BY <1>4 DEF TransportReady, EnterDeadlines, OneTransport
<1>5. CASE Begin
  BY <1>5 DEF Begin, EnterDeadlines, OneTransport
<1>6. ASSUME NEW i \in Ids, Retransmit(i) PROVE OneTransport'
  BY <1>6 DEF Retransmit, OneTransport
<1>7. ASSUME NEW i \in Ids, RetriesExhausted(i) PROVE OneTransport'
  BY <1>7 DEF RetriesExhausted, EnterFailed, OneTransport
<1>8. ASSUME NEW p \in pending_responses, AckTimeout(p) PROVE OneTransport'
  BY <1>8 DEF AckTimeout, EnterFailed, OneTransport
<1>9. CASE SendTimeout
  BY <1>9 DEF SendTimeout, EnterFailed, OneTransport
<1>10. CASE DeadlinesDone
  BY <1>10 DEF DeadlinesDone, OneTransport
<1>11. CASE SendPing
  BY <1>11 DEF SendPing, OneTransport
<1>12. CASE NoPing
  BY <1>12 DEF NoPing, OneTransport
<1>13. CASE ReadSuppressed
  BY <1>13 DEF ReadSuppressed, OneTransport
<1>14. CASE ReadFails
  BY <1>14 DEF ReadFails, Abort, EnterFailed, OneTransport
<1>15. CASE ReceivePublish
  BY <1>15 DEF ReceivePublish, Incoming, ContinueReading, OneTransport
<1>16. CASE ReceiveTooLarge
  BY <1>16 DEF ReceiveTooLarge, Incoming, Abort, EnterFailed, OneTransport
<1>17. CASE ReceiveRefusal
  BY <1>17 DEF ReceiveRefusal, Incoming, EnterFailed, OneTransport
<1>18. CASE ReceiveAccept
  BY <1>18 DEF ReceiveAccept, Incoming, OneTransport
<1>19. ASSUME NEW t \in Topics, ReplaySubscription(t) PROVE OneTransport'
  BY <1>19 DEF ReplaySubscription, OneTransport
<1>20. CASE DrainPreConnect
  BY <1>20 DEF DrainPreConnect, Abort, EnterFailed, OneTransport
<1>21. CASE OnConnect
  BY <1>21 DEF OnConnect, OneTransport
<1>22. CASE ReceivePubAck
  BY <1>22 DEF ReceivePubAck, Incoming, ContinueReading, OneTransport
<1>23. CASE ReceiveSubAck
  BY <1>23 DEF ReceiveSubAck, Incoming, ContinueReading, OneTransport
<1>24. CASE ReceiveRejection
  BY <1>24 DEF ReceiveRejection, Incoming, Abort, EnterFailed, OneTransport
<1>25. CASE ReceiveUnsubAck
  BY <1>25 DEF ReceiveUnsubAck, Incoming, ContinueReading, OneTransport
<1>26. CASE ReceiveUnexpectedAck
  BY <1>26 DEF ReceiveUnexpectedAck, Incoming, Abort, EnterFailed, OneTransport
<1>27. CASE ReceivePingResp
  BY <1>27 DEF ReceivePingResp, Incoming, OneTransport
<1>28. CASE EndRead
  BY <1>28 DEF EndRead, Abort, EnterFailed, OneTransport
<1>29. CASE DrainPartial
  BY <1>29 DEF DrainPartial, OneTransport
<1>30. ASSUME NEW n \in 0..Len(tx_queue), Drain(n) PROVE OneTransport'
  BY <1>30 DEF Drain, OneTransport
<1>31. ASSUME NEW n \in 0..Len(tx_queue), DrainFails(n) PROVE OneTransport'
  BY <1>31 DEF DrainFails, Abort, EnterFailed, OneTransport
<1>32. CASE Connect
  BY <1>32 DEF Connect, AppTurn, OneTransport
<1>33. CASE Disconnect
  BY <1>33 DEF Disconnect, AppTurn, OneTransport
<1>34. CASE Hold
  BY <1>34 DEF Hold, AppTurn, OneTransport
<1>35. CASE IoError
  BY <1>35 DEF IoError, EnterFailed, GiveUpConnector, OneTransport
<1>36. ASSUME NEW m \in Publications, Publish(m) PROVE OneTransport'
  BY <1>36 DEF Publish, AppTurn, OneTransport
<1>37. ASSUME NEW t \in Topics, Subscribe(t) \/ Unsubscribe(t) PROVE OneTransport'
  BY <1>37 DEF Subscribe, Unsubscribe, Declare, AppTurn, OneTransport
<1>38. CASE Peer
  BY <1>38 DEF Peer, OneTransport
<1>39. CASE UNCHANGED vars
  BY <1>39 DEF vars, OneTransport
<1>40. QED
  BY <1>1, <1>2, <1>3, <1>4, <1>5, <1>6, <1>7, <1>8, <1>9, <1>10, <1>11, <1>12,
     <1>13, <1>14, <1>15, <1>16, <1>17, <1>18, <1>19, <1>20, <1>21, <1>22, <1>23, <1>24,
     <1>25, <1>26, <1>27, <1>28, <1>29, <1>30, <1>31, <1>32, <1>33, <1>34, <1>35, <1>36,
     <1>37, <1>38, <1>39
     DEF Next, Handle, Transport, Deadlines, Receive, Send, Api

LEMMA ToldNext == ToldTheTruth /\ [Next]_vars => ToldTheTruth'
<1> SUFFICES ASSUME ToldTheTruth, [Next]_vars
             PROVE  ToldTheTruth'
  OBVIOUS
<1> USE DEF control, transport, intent, outbox, ids, registry, app, wire
<1>1. CASE SelfHeal
  BY <1>1 DEF SelfHeal, ToldTheTruth
<1>2. CASE TransportLost
  BY <1>2 DEF TransportLost, EnterFailed, ToldTheTruth
<1>3. CASE TransportPending
  BY <1>3 DEF TransportPending, ToldTheTruth
<1>4. CASE TransportReady
  BY <1>4 DEF TransportReady, EnterDeadlines, ToldTheTruth
<1>5. CASE Begin
  BY <1>5 DEF Begin, EnterDeadlines, ToldTheTruth
<1>6. ASSUME NEW i \in Ids, Retransmit(i) PROVE ToldTheTruth'
  BY <1>6 DEF Retransmit, ToldTheTruth
<1>7. ASSUME NEW i \in Ids, RetriesExhausted(i) PROVE ToldTheTruth'
  BY <1>7 DEF RetriesExhausted, EnterFailed, ToldTheTruth
<1>8. ASSUME NEW p \in pending_responses, AckTimeout(p) PROVE ToldTheTruth'
  BY <1>8 DEF AckTimeout, EnterFailed, ToldTheTruth
<1>9. CASE SendTimeout
  BY <1>9 DEF SendTimeout, EnterFailed, ToldTheTruth
<1>10. CASE DeadlinesDone
  BY <1>10 DEF DeadlinesDone, ToldTheTruth
<1>11. CASE SendPing
  BY <1>11 DEF SendPing, ToldTheTruth
<1>12. CASE NoPing
  BY <1>12 DEF NoPing, ToldTheTruth
<1>13. CASE ReadSuppressed
  BY <1>13 DEF ReadSuppressed, ToldTheTruth
<1>14. CASE ReadFails
  BY <1>14 DEF ReadFails, Abort, EnterFailed, ToldTheTruth
<1>15. CASE ReceivePublish
  BY <1>15 DEF ReceivePublish, Incoming, ContinueReading, ToldTheTruth
<1>16. CASE ReceiveTooLarge
  BY <1>16 DEF ReceiveTooLarge, Incoming, Abort, EnterFailed, ToldTheTruth
<1>17. CASE ReceiveRefusal
  BY <1>17 DEF ReceiveRefusal, Incoming, EnterFailed, ToldTheTruth
<1>18. CASE ReceiveAccept
  BY <1>18 DEF ReceiveAccept, Incoming, ToldTheTruth
<1>19. ASSUME NEW t \in Topics, ReplaySubscription(t) PROVE ToldTheTruth'
  BY <1>19 DEF ReplaySubscription, ToldTheTruth
<1>20. CASE DrainPreConnect
  BY <1>20 DEF DrainPreConnect, Abort, EnterFailed, ToldTheTruth
<1>21. CASE OnConnect
  BY <1>21 DEF OnConnect, ToldTheTruth
<1>22. CASE ReceivePubAck
  BY <1>22 DEF ReceivePubAck, Incoming, ContinueReading, ToldTheTruth
<1>23. CASE ReceiveSubAck
  BY <1>23 DEF ReceiveSubAck, Incoming, ContinueReading, ToldTheTruth
<1>24. CASE ReceiveRejection
  BY <1>24 DEF ReceiveRejection, Incoming, Abort, EnterFailed, ToldTheTruth
<1>25. CASE ReceiveUnsubAck
  BY <1>25 DEF ReceiveUnsubAck, Incoming, ContinueReading, ToldTheTruth
<1>26. CASE ReceiveUnexpectedAck
  BY <1>26 DEF ReceiveUnexpectedAck, Incoming, Abort, EnterFailed, ToldTheTruth
<1>27. CASE ReceivePingResp
  BY <1>27 DEF ReceivePingResp, Incoming, ToldTheTruth
<1>28. CASE EndRead
  BY <1>28 DEF EndRead, Abort, EnterFailed, ToldTheTruth
<1>29. CASE DrainPartial
  BY <1>29 DEF DrainPartial, ToldTheTruth
<1>30. ASSUME NEW n \in 0..Len(tx_queue), Drain(n) PROVE ToldTheTruth'
  BY <1>30 DEF Drain, ToldTheTruth
<1>31. ASSUME NEW n \in 0..Len(tx_queue), DrainFails(n) PROVE ToldTheTruth'
  BY <1>31 DEF DrainFails, Abort, EnterFailed, ToldTheTruth
<1>32. CASE Connect
  BY <1>32 DEF Connect, AppTurn, ToldTheTruth
<1>33. CASE Disconnect
  BY <1>33 DEF Disconnect, AppTurn, ToldTheTruth
<1>34. CASE Hold
  BY <1>34 DEF Hold, AppTurn, ToldTheTruth
<1>35. CASE IoError
  BY <1>35 DEF IoError, EnterFailed, GiveUpConnector, ToldTheTruth
<1>36. ASSUME NEW m \in Publications, Publish(m) PROVE ToldTheTruth'
  BY <1>36 DEF Publish, AppTurn, ToldTheTruth
<1>37. ASSUME NEW t \in Topics, Subscribe(t) \/ Unsubscribe(t) PROVE ToldTheTruth'
  BY <1>37 DEF Subscribe, Unsubscribe, Declare, AppTurn, ToldTheTruth
<1>38. CASE Peer
  BY <1>38 DEF Peer, ToldTheTruth
<1>39. CASE UNCHANGED vars
  BY <1>39 DEF vars, ToldTheTruth
<1>40. QED
  BY <1>1, <1>2, <1>3, <1>4, <1>5, <1>6, <1>7, <1>8, <1>9, <1>10, <1>11, <1>12,
     <1>13, <1>14, <1>15, <1>16, <1>17, <1>18, <1>19, <1>20, <1>21, <1>22, <1>23, <1>24,
     <1>25, <1>26, <1>27, <1>28, <1>29, <1>30, <1>31, <1>32, <1>33, <1>34, <1>35, <1>36,
     <1>37, <1>38, <1>39
     DEF Next, Handle, Transport, Deadlines, Receive, Send, Api

(* However the peer behaves, there is one transport at a time.              *)
THEOREM TransportCorrect == Spec => []OneTransport
<1>1. Init => OneTransport
  BY DEF Init, OneTransport
<1>2. QED
  BY <1>1, TransportNext, PTL DEF Spec

(* However the peer behaves, on_connect and on_disconnect tell the truth.   *)
THEOREM ToldCorrect == Spec => []ToldTheTruth
<1>1. Init => ToldTheTruth
  BY DEF Init, ToldTheTruth
<1>2. QED
  BY <1>1, ToldNext, PTL DEF Spec

-----------------------------------------------------------------------------
(* The outbound queue.  OneBatchInFront says two things: BatchShape of the  *)
(* queue and its flag, and BatchPhase, when the flag may be set.            *)

BatchShape(q, flag) ==
  /\ flag <=> (q # <<>> /\ IsBatch(q[1]))
  /\ \A i \in DOMAIN q : IsBatch(q[i]) => i = 1

BatchPhase ==
  puback_batch_queued => partial_send = None /\ pc \notin {"dispatch", "replay"}

QueueInv == /\ tx_queue \in Seq(OutPackets)
            /\ BatchShape(tx_queue, puback_batch_queued)
            /\ BatchPhase
            /\ WithinHardCap

LEMMA QueueInvDef ==
  ASSUME TypeOK
  PROVE  QueueInv <=> OneBatchInFront /\ WithinHardCap
  BY DEF TypeOK, QueueInv, BatchShape, BatchPhase, OneBatchInFront

LEMMA AppendShape ==
  ASSUME NEW q \in Seq(OutPackets), NEW p \in OutPackets, ~IsBatch(p),
         NEW flag \in BOOLEAN, BatchShape(q, flag)
  PROVE  BatchShape(Append(q, p), flag)
<1>1. /\ Append(q, p) # <<>> /\ Len(Append(q, p)) = Len(q) + 1
      /\ Append(q, p)[Len(q) + 1] = p
      /\ \A i \in 1..Len(q) : Append(q, p)[i] = q[i]
      /\ DOMAIN Append(q, p) = 1..(Len(q) + 1)
  BY AppendProperties, LenProperties
<1>2. Len(q) \in Nat /\ DOMAIN q = 1..Len(q) /\ (q # <<>> => Len(q) > 0)
      /\ (q = <<>> => Len(q) = 0)
  BY EmptySeq, LenProperties
<1>3. IsBatch(Append(q, p)[1]) <=> q # <<>> /\ IsBatch(q[1])
  BY <1>1, <1>2
<1>4. ASSUME NEW i \in 1..(Len(q) + 1), IsBatch(Append(q, p)[i])
      PROVE  i = 1
  BY <1>1, <1>2, <1>4 DEF BatchShape
<1>5. QED
  BY <1>1, <1>3, <1>4 DEF BatchShape

LEMMA RestShape ==
  ASSUME NEW q \in Seq(OutPackets), NEW n \in 0..Len(q), MarkerPrefix(q, n),
         NEW flag \in BOOLEAN, BatchShape(q, flag)
  PROVE  BatchShape(Rest(q, n), flag)
<1>1. /\ Rest(q, n) \in Seq(OutPackets) /\ Len(Rest(q, n)) = Len(q) - n
      /\ \A i \in 1..(Len(q) - n) : Rest(q, n)[i] = q[i + n]
  BY RestProperties
<1>2. /\ Len(q) \in Nat /\ DOMAIN q = 1..Len(q) /\ (q # <<>> <=> Len(q) > 0)
      /\ DOMAIN Rest(q, n) = 1..(Len(q) - n)
      /\ (Rest(q, n) # <<>> <=> Len(q) - n > 0)
  BY <1>1, EmptySeq, LenProperties
<1>3. CASE n = 0
  BY <1>1, <1>2, <1>3 DEF BatchShape
<1>4. CASE n > 0
  <2>1. ~IsBatch(q[1]) /\ q # <<>>
    BY <1>2, <1>4 DEF MarkerPrefix, IsMarker, IsBatch
  <2>2. ~flag /\ \A i \in DOMAIN q : ~IsBatch(q[i])
    BY <2>1 DEF BatchShape
  <2>3. ASSUME NEW i \in 1..(Len(q) - n)
        PROVE  ~IsBatch(Rest(q, n)[i])
    <3>1. i + n \in 1..Len(q) /\ Rest(q, n)[i] = q[i + n]
      BY <1>1, <1>2
    <3>2. QED
      BY <3>1, <1>2, <2>2
  <2>4. Rest(q, n) # <<>> => 1 \in DOMAIN Rest(q, n)
    BY <1>2
  <2>5. QED
    BY <1>2, <2>2, <2>3, <2>4 DEF BatchShape
<1>5. QED
  BY <1>3, <1>4, <1>2

LEMMA TailShape ==
  ASSUME NEW q \in Seq(OutPackets), q # <<>>,
         NEW flag \in BOOLEAN, BatchShape(q, flag)
  PROVE  /\ BatchShape(Tail(q), FALSE)
         /\ flag <=> IsBatch(Head(q))
<1>1. /\ Head(q) = q[1] /\ Tail(q) \in Seq(OutPackets) /\ Len(Tail(q)) = Len(q) - 1
      /\ \A i \in 1..Len(Tail(q)) : Tail(q)[i] = q[i + 1]
  BY HeadTailProperties
<1>2. /\ Len(q) \in Nat /\ Len(q) > 0 /\ DOMAIN q = 1..Len(q)
      /\ DOMAIN Tail(q) = 1..(Len(q) - 1)
      /\ (Tail(q) # <<>> => Len(Tail(q)) > 0)
  BY <1>1, EmptySeq, LenProperties
<1>3. \A i \in DOMAIN Tail(q) : ~IsBatch(Tail(q)[i])
  BY <1>1, <1>2 DEF BatchShape
<1>4. Tail(q) # <<>> => 1 \in DOMAIN Tail(q)
  BY <1>1, <1>2
<1>5. QED
  BY <1>1, <1>3, <1>4 DEF BatchShape

(* The three ways a step leaves the queue in order: it is untouched, it     *)
(* loses its front, or it gets one more packet at the end.                  *)
SamePhase == pc' \in {"dispatch", "replay"} => pc \in {"dispatch", "replay"} \/ ~RecvSuppressed

LEMMA QueueUntouched ==
  ASSUME QueueInv, SamePhase, UNCHANGED outbox
  PROVE  QueueInv'
<1>1. UNCHANGED <<tx_queue, puback_batch_queued, partial_send>>
  BY DEF outbox
<1>2. BatchPhase'
  BY <1>1 DEF QueueInv, SamePhase, BatchPhase, RecvSuppressed
<1>3. BatchShape(tx_queue, puback_batch_queued)'
  BY <1>1 DEF QueueInv, BatchShape
<1>4. QED
  BY <1>1, <1>2, <1>3 DEF QueueInv, WithinHardCap

LEMMA QueueReset ==
  ASSUME ResetTransientState
  PROVE  QueueInv'
<1>1. tx_queue' = <<>> /\ puback_batch_queued' = FALSE
  BY DEF ResetTransientState
<1>2. tx_queue' \in Seq(OutPackets) /\ Len(tx_queue') = 0
  BY <1>1, EmptySeq
<1>3. 0 <= HardCap
  BY ClientAssumption DEF ClientAssumption, HardCap
<1>4. BatchShape(tx_queue, puback_batch_queued)'
  BY <1>1 DEF BatchShape
<1>5. QED
  BY <1>1, <1>2, <1>3, <1>4 DEF QueueInv, BatchPhase, WithinHardCap

LEMMA QueueEnqueue ==
  ASSUME TypeOK, QueueInv, SamePhase,
         NEW p \in OutPackets, ~IsBatch(p), Len(tx_queue) < HardCap,
         tx_queue' = Append(tx_queue, p),
         UNCHANGED <<puback_batch_queued, partial_send>>
  PROVE  QueueInv'
<1>1. tx_queue' \in Seq(OutPackets) /\ Len(tx_queue') = Len(tx_queue) + 1
  BY AppendProperties DEF QueueInv
<1>2. BatchShape(tx_queue, puback_batch_queued)'
  BY AppendShape DEF QueueInv, TypeOK, BatchShape
<1>3. BatchPhase'
  BY DEF QueueInv, SamePhase, BatchPhase, RecvSuppressed
<1>4. Len(tx_queue) \in Nat /\ HardCap \in Nat
  BY ClientAssumption, LenProperties DEF ClientAssumption, HardCap, QueueInv
<1>5. QED
  BY <1>1, <1>2, <1>3, <1>4 DEF QueueInv, WithinHardCap

(* User traffic stops short of the hard cap by the headroom.                *)
LEMMA UserRoomFits ==
  ASSUME QueueInv, NEW n \in 1..2, UserRoom(n)
  PROVE  Len(tx_queue) + n <= HardCap /\ Len(tx_queue) \in Nat /\ HardCap \in Nat
  BY ClientAssumption, LenProperties
     DEF ClientAssumption, HardCap, QueueInv, UserRoom
LEMMA QueuePublish ==
  ASSUME TypeOK, QueueInv, SamePhase, NEW m \in Publications,
         DoPublish(m) \/ DoPublishRaises(m),
         UNCHANGED <<puback_batch_queued, partial_send>>
  PROVE  QueueInv'
<1>1. CASE DoPublishRaises(m)
  <2>1. UNCHANGED tx_queue
    BY <1>1 DEF DoPublishRaises
  <2>2. BatchPhase'
    BY DEF QueueInv, SamePhase, BatchPhase, RecvSuppressed
  <2>3. QED
    BY <2>1, <2>2 DEF QueueInv, BatchShape, WithinHardCap
<1>2. CASE m \in Messages /\ DoPublish(m)
  <2>1. m \notin Events
    BY <1>2, ClientAssumption DEF ClientAssumption
  <2>2. PICK i \in Ids : tx_queue' = Append(tx_queue, Packet("publish", i, m))
    BY <1>2, <2>1 DEF DoPublish
  <2>3. Packet("publish", i, m) \in OutPackets /\ ~IsBatch(Packet("publish", i, m))
    BY PacketType, IdsType, ArgTypes DEF OutKinds, IsBatch, Packet
  <2>4. Len(tx_queue) < HardCap
    BY <1>2, <2>1, UserRoomFits DEF DoPublish, PublishRoom
  <2>5. QED
    BY <2>2, <2>3, <2>4, QueueEnqueue
<1>3. CASE m \in Events /\ DoPublish(m)
  <2> DEFINE p == Packet("publish", 0, m)
             c == Packet("callback", 0, m)
  <2>1. /\ p \in OutPackets /\ ~IsBatch(p)
        /\ c \in OutPackets /\ ~IsBatch(c)
    BY PacketType, IdsType, ArgTypes DEF OutKinds, IsBatch, Packet
  <2>2. UserRoom(2) /\ tx_queue' = tx_queue \o <<p, c>>
    BY <1>3, ClientAssumption DEF DoPublish, PublishRoom, WithMarker, ClientAssumption
  <2> HIDE DEF p, c
  <2>3. tx_queue' = Append(Append(tx_queue, p), c)
    BY <2>1, <2>2 DEF QueueInv
  <2>4. /\ Append(tx_queue, p) \in Seq(OutPackets)
        /\ Len(Append(tx_queue, p)) = Len(tx_queue) + 1
    BY <2>1, AppendProperties DEF QueueInv
  <2>5. /\ tx_queue' \in Seq(OutPackets)
        /\ Len(tx_queue') = Len(tx_queue) + 1 + 1
    BY <2>1, <2>3, <2>4, AppendProperties
  <2>6. BatchShape(tx_queue, puback_batch_queued)'
    <3>1. BatchShape(Append(tx_queue, p), puback_batch_queued)
      BY <2>1, AppendShape DEF QueueInv, TypeOK
    <3>2. BatchShape(tx_queue', puback_batch_queued)
      BY <2>1, <2>3, <2>4, <3>1, AppendShape DEF TypeOK
    <3>3. QED
      BY <3>2 DEF BatchShape
  <2>7. BatchPhase'
    BY DEF QueueInv, SamePhase, BatchPhase, RecvSuppressed
  <2>8. Len(tx_queue') <= HardCap
    BY <2>2, <2>5, UserRoomFits
  <2>9. QED
    BY <2>5, <2>6, <2>7, <2>8 DEF QueueInv, WithinHardCap
<1>4. QED
  BY <1>1, <1>2, <1>3 DEF Publications

LEMMA QueueNext == TypeOK /\ QueueInv /\ [Next]_vars => QueueInv'
<1> SUFFICES ASSUME TypeOK, QueueInv, [Next]_vars
             PROVE  QueueInv'
  OBVIOUS
<1> USE DEF control, outbox
<1>1. CASE SelfHeal
  BY <1>1, QueueReset DEF SelfHeal
<1>2. CASE TransportLost
  BY <1>2, QueueUntouched DEF TransportLost, SamePhase
<1>3. CASE TransportPending
  BY <1>3, QueueUntouched DEF TransportPending, SamePhase
<1>4. CASE TransportReady
  <2>1. Packet("connect", 0, None) \in OutPackets /\ ~IsBatch(Packet("connect", 0, None))
    BY PacketType, IdsType, ArgTypes DEF OutKinds, IsBatch, Packet
  <2>2. Len(tx_queue) < HardCap
    BY <1>4, UserRoomFits DEF TransportReady
  <2>3. QED
    BY <1>4, <2>1, <2>2, QueueEnqueue DEF TransportReady, EnterDeadlines, SamePhase
<1>5. CASE Begin
  BY <1>5, QueueUntouched DEF Begin, EnterDeadlines, SamePhase
<1>6. ASSUME NEW i \in Ids, Retransmit(i) PROVE QueueInv'
  <2>1. Packet("publish", i, in_flight[i].msg) \in OutPackets /\ ~IsBatch(Packet("publish", i, in_flight[i].msg))
    BY <1>6, InFlightType, PacketType, IdsType, ArgTypes DEF Retransmit, OutKinds, IsBatch, Packet, Publications
  <2>2. Len(tx_queue) < HardCap
    BY <1>6 DEF Retransmit, InternalRoom
  <2>3. QED
    BY <1>6, <2>1, <2>2, QueueEnqueue DEF Retransmit, SamePhase
<1>7. ASSUME NEW i \in Ids, RetriesExhausted(i) PROVE QueueInv'
  BY <1>7, QueueUntouched DEF RetriesExhausted, SamePhase
<1>8. ASSUME NEW p \in pending_responses, AckTimeout(p) PROVE QueueInv'
  BY <1>8, QueueUntouched DEF AckTimeout, SamePhase
<1>9. CASE SendTimeout
  BY <1>9, QueueUntouched DEF SendTimeout, SamePhase
<1>10. CASE DeadlinesDone
  BY <1>10, QueueUntouched DEF DeadlinesDone, SamePhase
<1>11. CASE SendPing
  <2>1. Packet("pingreq", 0, None) \in OutPackets /\ ~IsBatch(Packet("pingreq", 0, None))
    BY PacketType, IdsType, ArgTypes DEF OutKinds, IsBatch, Packet
  <2>2. Len(tx_queue) < HardCap
    BY <1>11 DEF SendPing, InternalRoom
  <2>3. QED
    BY <1>11, <2>1, <2>2, QueueEnqueue DEF SendPing, SamePhase
<1>12. CASE NoPing
  BY <1>12, QueueUntouched DEF NoPing, SamePhase
<1>13. CASE ReadSuppressed
  BY <1>13, QueueUntouched DEF ReadSuppressed, SamePhase
<1>14. CASE ReadFails
  BY <1>14, QueueUntouched DEF ReadFails, Abort, SamePhase
<1>15. CASE ReceivePublish
  BY <1>15, QueueUntouched DEF ReceivePublish, Incoming, ContinueReading, SamePhase
<1>16. CASE ReceiveTooLarge
  BY <1>16, QueueUntouched DEF ReceiveTooLarge, Incoming, Abort, SamePhase
<1>17. CASE ReceiveRefusal
  BY <1>17, QueueUntouched DEF ReceiveRefusal, Incoming, SamePhase
<1>18. CASE ReceiveAccept
  BY <1>18, QueueUntouched DEF ReceiveAccept, Incoming, SamePhase
<1>19. ASSUME NEW t \in Topics, ReplaySubscription(t) PROVE QueueInv'
  <2>1. CASE tx_queue' = tx_queue
    BY <1>19, <2>1, QueueUntouched DEF ReplaySubscription, SamePhase
  <2>2. CASE \E i \in Ids : /\ InternalRoom
                            /\ tx_queue' = Append(tx_queue, Packet("subscribe", i, t))
    <3>1. PICK i \in Ids : tx_queue' = Append(tx_queue, Packet("subscribe", i, t))
      BY <2>2
    <3>2. /\ Packet("subscribe", i, t) \in OutPackets
          /\ ~IsBatch(Packet("subscribe", i, t))
      BY PacketType, IdsType, ArgTypes DEF OutKinds, IsBatch, Packet
    <3>3. Len(tx_queue) < HardCap
      BY <2>2 DEF InternalRoom
    <3>4. UNCHANGED <<pc, puback_batch_queued, partial_send>>
      BY <1>19 DEF ReplaySubscription
    <3>5. QED
      BY <3>1, <3>2, <3>3, <3>4, QueueEnqueue DEF SamePhase
  <2>3. QED
    BY <1>19, <2>1, <2>2 DEF ReplaySubscription
<1>20. CASE DrainPreConnect
  <2>1. Head(pre_connect_queue) \in Publications
    BY <1>20, HeadTailProperties DEF DrainPreConnect, TypeOK
  <2>2. UNCHANGED <<puback_batch_queued, partial_send>> /\ SamePhase
    BY <1>20 DEF DrainPreConnect, SamePhase
  <2>3. QED
    BY <1>20, <2>1, <2>2, QueuePublish DEF DrainPreConnect
<1>21. CASE OnConnect
  BY <1>21, QueueUntouched DEF OnConnect, SamePhase
<1>22. CASE ReceivePubAck
  BY <1>22, QueueUntouched DEF ReceivePubAck, Incoming, ContinueReading, SamePhase
<1>23. CASE ReceiveSubAck
  BY <1>23, QueueUntouched DEF ReceiveSubAck, Incoming, ContinueReading, SamePhase
<1>24. CASE ReceiveRejection
  BY <1>24, QueueUntouched DEF ReceiveRejection, Incoming, Abort, SamePhase
<1>25. CASE ReceiveUnsubAck
  BY <1>25, QueueUntouched DEF ReceiveUnsubAck, Incoming, ContinueReading, SamePhase
<1>26. CASE ReceiveUnexpectedAck
  BY <1>26, QueueUntouched DEF ReceiveUnexpectedAck, Incoming, Abort, SamePhase
<1>27. CASE ReceivePingResp
  BY <1>27, QueueUntouched DEF ReceivePingResp, Incoming, SamePhase
<1>28. CASE EndRead
  <2>1. UNCHANGED partial_send /\ SamePhase /\ ~RecvSuppressed
    BY <1>28 DEF EndRead, SamePhase, Abort
  <2>2. CASE UNCHANGED <<tx_queue, puback_batch_queued>>
    BY <1>28, <2>1, <2>2, QueueUntouched DEF EndRead
  <2>3. CASE /\ InternalRoom /\ puback_batch_queued' = TRUE /\ pc' = "drain"
             /\ tx_queue' = <<Packet("puback", 0, pending_pubacks)>> \o tx_queue
    <3> DEFINE batch == Packet("puback", 0, pending_pubacks)
    <3>1. batch \in OutPackets /\ IsBatch(batch)
      BY PacketType, IdsType, ArgTypes DEF OutKinds, TypeOK, IsBatch, Packet
    <3>2. /\ <<batch>> \in Seq(OutPackets) /\ Len(<<batch>>) = 1 /\ <<batch>>[1] = batch
      BY <3>1
    <3> HIDE DEF batch
    <3>3. /\ tx_queue' \in Seq(OutPackets) /\ Len(tx_queue') = 1 + Len(tx_queue)
          /\ \A i \in 1..Len(tx_queue') :
               tx_queue'[i] = IF i <= 1 THEN batch ELSE tx_queue[i - 1]
      BY <2>3, <3>2, ConcatProperties DEF QueueInv, batch
    <3>4. /\ Len(tx_queue) \in Nat /\ DOMAIN tx_queue = 1..Len(tx_queue)
          /\ DOMAIN tx_queue' = 1..(1 + Len(tx_queue))
      BY <3>3, LenProperties DEF QueueInv
    <3>5. \A i \in DOMAIN tx_queue : ~IsBatch(tx_queue[i])
      BY <2>1, <3>4 DEF QueueInv, BatchShape, RecvSuppressed
    <3>6. tx_queue' # <<>> /\ tx_queue'[1] = batch
      BY <3>3, <3>4, EmptySeq
    <3>7. ASSUME NEW i \in 1..(1 + Len(tx_queue)), i # 1
          PROVE  ~IsBatch(tx_queue'[i])
      <4>1. i - 1 \in 1..Len(tx_queue) /\ tx_queue'[i] = tx_queue[i - 1]
        BY <3>3, <3>4, <3>7
      <4>2. QED
        BY <3>4, <3>5, <4>1
    <3>8. BatchShape(tx_queue, puback_batch_queued)'
      BY <2>3, <3>1, <3>4, <3>6, <3>7 DEF BatchShape
    <3>9. BatchPhase'
      BY <2>1, <2>3 DEF BatchPhase, RecvSuppressed
    <3>10. HardCap \in Nat /\ Len(tx_queue) < HardCap
      BY <2>3, ClientAssumption DEF ClientAssumption, HardCap, InternalRoom
    <3>11. QED
      BY <3>3, <3>4, <3>8, <3>9, <3>10 DEF QueueInv, WithinHardCap
  <2>4. QED
    BY <1>28, <2>2, <2>3 DEF EndRead
<1>29. CASE DrainPartial
  <2>1. /\ UNCHANGED <<tx_queue, puback_batch_queued>> /\ pc' = "idle"
        /\ partial_send # None
    BY <1>29 DEF DrainPartial
  <2>2. BatchPhase'
    BY <2>1 DEF QueueInv, BatchPhase
  <2>3. QED
    BY <2>1, <2>2 DEF QueueInv, BatchShape, WithinHardCap
<1>30. ASSUME NEW n \in 0..Len(tx_queue), Drain(n) PROVE QueueInv'
  <2> DEFINE q == Rest(tx_queue, n)
  <2>1. /\ q \in Seq(OutPackets) /\ Len(q) <= HardCap
        /\ BatchShape(q, puback_batch_queued) /\ partial_send = None
        /\ puback_batch_queued \in BOOLEAN
    <3>1. Len(tx_queue) \in Nat /\ Len(tx_queue) <= HardCap /\ HardCap \in Nat
      BY LenProperties, ClientAssumption
         DEF QueueInv, WithinHardCap, ClientAssumption, HardCap
    <3>2. QED
      BY <1>30, <3>1, RestProperties, RestShape DEF QueueInv, Drain, TypeOK
  <2> HIDE DEF q
  <2>2. ASSUME q # <<>>
        PROVE  /\ Tail(q) \in Seq(OutPackets) /\ Len(Tail(q)) <= HardCap
               /\ BatchShape(Tail(q), FALSE)
               /\ puback_batch_queued <=> IsBatch(Head(q))
    <3>1. Len(q) \in Nat /\ HardCap \in Nat
      BY <2>1, LenProperties, ClientAssumption DEF ClientAssumption, HardCap
    <3>2. Tail(q) \in Seq(OutPackets) /\ Len(Tail(q)) = Len(q) - 1
      BY <2>1, <2>2, HeadTailProperties
    <3>3. BatchShape(Tail(q), FALSE) /\ (puback_batch_queued <=> IsBatch(Head(q)))
      BY <2>1, <2>2, TailShape
    <3>4. Len(Tail(q)) <= HardCap
      BY <2>1, <3>1, <3>2
    <3>5. QED
      BY <3>2, <3>3, <3>4
  <2>3. CASE /\ tx_queue' = q /\ pc' = "idle"
             /\ UNCHANGED <<partial_send, puback_batch_queued>>
    BY <2>1, <2>3 DEF QueueInv, BatchPhase, WithinHardCap, BatchShape
  <2>4. CASE /\ q # <<>> /\ tx_queue' = Tail(q) /\ pc' \in {"idle", "drain"}
             /\ puback_batch_queued' = FALSE
    BY <2>2, <2>4 DEF QueueInv, BatchPhase, WithinHardCap, BatchShape
  <2>5. CASE /\ q # <<>> /\ ~IsBatch(Head(q)) /\ pc' = "idle"
             /\ UNCHANGED <<partial_send, puback_batch_queued>>
             /\ \E k \in 0..Len(Tail(q)) :
                  MarkerPrefix(Tail(q), k) /\ tx_queue' = Rest(Tail(q), k)
    <3>1. PICK k \in 0..Len(Tail(q)) :
            MarkerPrefix(Tail(q), k) /\ tx_queue' = Rest(Tail(q), k)
      BY <2>5
    <3>2. /\ BatchShape(tx_queue', FALSE) /\ tx_queue' \in Seq(OutPackets)
          /\ Len(tx_queue') = Len(Tail(q)) - k
      BY <2>2, <2>5, <3>1, RestShape, RestProperties
    <3>3. Len(tx_queue') <= HardCap
      <4>1. Len(Tail(q)) \in Nat /\ HardCap \in Nat
        BY <2>2, <2>5, LenProperties, ClientAssumption DEF ClientAssumption, HardCap
      <4>2. QED
        BY <2>2, <2>5, <3>2, <4>1
    <3>4. puback_batch_queued' = FALSE
      BY <2>1, <2>2, <2>5
    <3>5. QED
      BY <3>2, <3>3, <3>4 DEF QueueInv, BatchPhase, WithinHardCap, BatchShape
  <2>6. CASE /\ q # <<>> /\ tx_queue' = Tail(q) /\ pc' = "idle"
             /\ puback_batch_queued' = (puback_batch_queued /\ ~IsBatch(Head(q)))
    <3>1. puback_batch_queued' = FALSE
      BY <2>1, <2>2, <2>6
    <3>2. QED
      BY <2>4, <2>6, <3>1
  <2>7. QED
    BY <1>30, <2>3, <2>4, <2>5, <2>6 DEF Drain, q
<1>31. ASSUME NEW n \in 0..Len(tx_queue), DrainFails(n) PROVE QueueInv'
  <2>1. CASE n = 0
    <3>1. tx_queue' = tx_queue
      <4>1. /\ tx_queue' \in Seq(OutPackets) /\ Len(tx_queue') = Len(tx_queue)
            /\ \A i \in 1..Len(tx_queue) : tx_queue'[i] = tx_queue[i]
            /\ Len(tx_queue) \in Nat
        BY <1>31, <2>1, RestProperties, LenProperties DEF DrainFails, QueueInv
      <4>2. QED
        BY <4>1, SeqEqual DEF QueueInv
    <3>2. QED
      BY <1>31, <3>1, QueueUntouched DEF DrainFails, Abort, SamePhase
  <2>2. CASE MarkerPrefix(tx_queue, n)
    <3>1. /\ tx_queue' \in Seq(OutPackets) /\ Len(tx_queue') <= HardCap
          /\ BatchShape(tx_queue', puback_batch_queued)
      <4>1. Len(tx_queue) \in Nat /\ Len(tx_queue) <= HardCap /\ HardCap \in Nat
        BY LenProperties, ClientAssumption
           DEF QueueInv, WithinHardCap, ClientAssumption, HardCap
      <4>2. QED
        BY <1>31, <2>2, <4>1, RestProperties, RestShape DEF QueueInv, DrainFails, TypeOK
    <3>2. UNCHANGED <<puback_batch_queued, partial_send>> /\ pc' = "idle"
      BY <1>31 DEF DrainFails, Abort
    <3>3. QED
      BY <3>1, <3>2 DEF QueueInv, BatchPhase, WithinHardCap, BatchShape
  <2>3. QED
    BY <1>31, <2>1, <2>2 DEF DrainFails
<1>32. CASE Connect
  <2>1. UNCHANGED <<puback_batch_queued, partial_send, send_armed, pc>>
    BY <1>32 DEF Connect
  <2>2. CASE tx_queue' = tx_queue
    BY <2>1, <2>2, QueueUntouched DEF SamePhase
  <2>3. CASE UserRoom(1) /\ tx_queue' = Append(tx_queue, Packet("connect", 0, None))
    <3>1. /\ Packet("connect", 0, None) \in OutPackets
          /\ ~IsBatch(Packet("connect", 0, None))
      BY PacketType, IdsType, ArgTypes DEF OutKinds, IsBatch, Packet
    <3>2. QED
      BY <2>1, <2>3, <3>1, UserRoomFits, QueueEnqueue DEF SamePhase
  <2>4. QED
    BY <1>32, <2>2, <2>3 DEF Connect
<1>33. CASE Disconnect
  BY <1>33, QueueReset DEF Disconnect
<1>34. CASE Hold
  BY <1>34, QueueUntouched DEF Hold, AppTurn, SamePhase
<1>35. CASE IoError
  BY <1>35, QueueUntouched DEF IoError, SamePhase
<1>36. ASSUME NEW m \in Publications, Publish(m) PROVE QueueInv'
  <2>1. UNCHANGED <<puback_batch_queued, partial_send>> /\ SamePhase
    BY <1>36 DEF Publish, SamePhase
  <2>2. CASE tx_queue' = tx_queue
    BY <2>1, <2>2, QueueUntouched, <1>36 DEF Publish
  <2>3. CASE DoPublish(m) \/ DoPublishRaises(m)
    BY <2>1, <2>3, QueuePublish
  <2>4. QED
    BY <1>36, <2>2, <2>3 DEF Publish
<1>37. ASSUME NEW t \in Topics, Subscribe(t) \/ Unsubscribe(t) PROVE QueueInv'
  <2>1. PICK kind \in {"subscribe", "unsubscribe"}, ack \in {"suback", "unsuback"},
             entry \in {"armed", "absent"} : Declare(kind, ack, t, entry)
    BY <1>37 DEF Subscribe, Unsubscribe
  <2>2. UNCHANGED <<puback_batch_queued, partial_send, send_armed, pc>>
    BY <2>1 DEF Declare
  <2>3. CASE tx_queue' = tx_queue
    BY <2>2, <2>3, QueueUntouched DEF SamePhase
  <2>4. CASE UserRoom(1) /\ \E i \in Ids : tx_queue' = Append(tx_queue, Packet(kind, i, t))
    <3>1. PICK i \in Ids : tx_queue' = Append(tx_queue, Packet(kind, i, t))
      BY <2>4
    <3>2. Packet(kind, i, t) \in OutPackets /\ ~IsBatch(Packet(kind, i, t))
      BY PacketType, IdsType, ArgTypes DEF OutKinds, IsBatch, Packet
    <3>3. Len(tx_queue) < HardCap
      BY <2>4, UserRoomFits
    <3>4. QED
      BY <2>2, <3>1, <3>2, <3>3, QueueEnqueue DEF SamePhase
  <2>5. QED
    BY <2>1, <2>3, <2>4 DEF Declare
<1>38. CASE Peer
  BY <1>38, QueueUntouched DEF Peer, SamePhase
<1>39. CASE UNCHANGED vars
  BY <1>39, QueueUntouched DEF vars, control, SamePhase
<1>40. QED
  BY <1>1, <1>2, <1>3, <1>4, <1>5, <1>6, <1>7, <1>8, <1>9, <1>10, <1>11, <1>12,
     <1>13, <1>14, <1>15, <1>16, <1>17, <1>18, <1>19, <1>20, <1>21, <1>22, <1>23, <1>24,
     <1>25, <1>26, <1>27, <1>28, <1>29, <1>30, <1>31, <1>32, <1>33, <1>34, <1>35, <1>36,
     <1>37, <1>38, <1>39
     DEF Next, Handle, Transport, Deadlines, Receive, Send, Api

LEMMA QueueCorrect == Spec => [](TypeOK /\ QueueInv)
<1>1. Init => QueueInv
  <2>1. \A S : <<>> \in Seq(S) /\ Len(<<>>) = 0
    BY EmptySeq
  <2>2. HardCap >= 0
    BY ClientAssumption DEF ClientAssumption, HardCap
  <2>3. QED
    BY <2>1, <2>2 DEF Init, QueueInv, BatchShape, BatchPhase, WithinHardCap
<1>2. QED
  BY <1>1, QueueNext, TypeInit, TypeNext, PTL DEF Spec

(* At most one PUBACK batch, at the front, known to its flag: what holding  *)
(* reads back in _read_inbound is for.  The phase part makes it inductive.  *)
THEOREM BatchCorrect == Spec => []OneBatchInFront
<1>1. TypeOK /\ QueueInv => OneBatchInFront
  BY QueueInvDef
<1>2. QED
  BY <1>1, QueueCorrect, PTL

(* No mix of traffic overruns the deque: _max_tx_queue_size + 64 is enough. *)
THEOREM CapCorrect == Spec => []WithinHardCap
<1>1. QueueInv => WithinHardCap
  BY DEF QueueInv
<1>2. QED
  BY <1>1, QueueCorrect, PTL

-----------------------------------------------------------------------------
(* The books.  Where a publication is: waiting for a connection, in flight, *)
(* or in a packet the client still holds, with what the application knows.  *)

Items(q) == {q[i] : i \in 1..Len(q)}
Waiting == Items(pre_connect_queue)
Own == Items(tx_queue) \cup ({partial_send} \ {None})
Carries(p, m) == p.kind \in {"publish", "callback"} /\ p.arg = m

(* A callback marker comes after the publication it reports.                *)
Paired(q) == \A i, j \in 1..Len(q) :
               q[i].kind = "publish" /\ q[j].kind = "callback" /\ q[i].arg = q[j].arg
               => i < j

InFlightKept == \A i \in InFlightIds : status[in_flight[i].msg] = "accepted"
InFlightOnce == \A i, j \in InFlightIds : in_flight[i].msg = in_flight[j].msg => i = j
WaitingKept == \A m \in Waiting : status[m] = "accepted"
WaitingOnce == \A i, j \in 1..Len(pre_connect_queue) :
                 pre_connect_queue[i] = pre_connect_queue[j] => i = j
OneHome == Waiting \cap InFlightMsgs = {}
MarkersOfEvents == \A p \in Items(tx_queue) : IsMarker(p) => p.arg \in Events
Unused == \A e \in Events : status[e] = "new" \/ e \in Waiting =>
            \A p \in Own : ~Carries(p, e)
AckedSent == \A e \in Events : status[e] = "acked" => Packet("publish", 0, e) \notin Own

Books == /\ InFlightKept /\ InFlightOnce /\ WaitingKept /\ WaitingOnce /\ OneHome
         /\ MarkersOfEvents /\ Unused /\ AckedSent /\ Paired(tx_queue)

LEMMA ItemsAppend ==
  ASSUME NEW S, NEW q \in Seq(S), NEW p \in S
  PROVE  Items(Append(q, p)) = Items(q) \cup {p}
<1>1. /\ Len(Append(q, p)) = Len(q) + 1 /\ Append(q, p)[Len(q) + 1] = p
      /\ \A i \in 1..Len(q) : Append(q, p)[i] = q[i]
      /\ Len(q) \in Nat
  BY AppendProperties, LenProperties
<1>2. 1..(Len(q) + 1) = 1..Len(q) \cup {Len(q) + 1}
  BY <1>1
<1>3. QED
  BY <1>1, <1>2 DEF Items

LEMMA ItemsCons ==
  ASSUME NEW S, NEW q \in Seq(S), NEW p \in S
  PROVE  /\ Items(<<p>> \o q) = {p} \cup Items(q)
         /\ <<p>> \o q \in Seq(S) /\ Len(<<p>> \o q) = Len(q) + 1
         /\ (<<p>> \o q)[1] = p
         /\ \A i \in 1..Len(q) : (<<p>> \o q)[i + 1] = q[i]
<1>1. <<p>> \in Seq(S) /\ Len(<<p>>) = 1 /\ <<p>>[1] = p
  OBVIOUS
<1> DEFINE c == <<p>> \o q
<1>2. /\ c \in Seq(S) /\ Len(c) = 1 + Len(q)
      /\ \A i \in 1..Len(c) : c[i] = IF i <= 1 THEN p ELSE q[i - 1]
      /\ Len(q) \in Nat
  BY <1>1, ConcatProperties, LenProperties
<1> HIDE DEF c
<1>3. PICK l \in Nat : l = Len(q)
  BY <1>2
<1>4. c[1] = p /\ \A i \in 1..l : c[i + 1] = q[i]
  BY <1>2, <1>3
<1>5. \A i \in 1..(l + 1) : i = 1 \/ (i - 1 \in 1..l /\ i = (i - 1) + 1)
  OBVIOUS
<1>6. ASSUME NEW x \in Items(c)
      PROVE  x \in {p} \cup Items(q)
  <2>1. PICK i \in 1..(l + 1) : x = c[i]
    BY <1>2, <1>3 DEF Items
  <2>2. CASE i = 1
    BY <1>4, <2>1, <2>2
  <2>3. CASE i - 1 \in 1..l
    BY <1>2, <1>3, <2>1, <2>3 DEF Items
  <2>4. QED
    BY <1>5, <2>2, <2>3
<1>7. ASSUME NEW x \in {p} \cup Items(q)
      PROVE  x \in Items(c)
  <2>1. Len(c) = l + 1 /\ 1 \in 1..(l + 1) /\ \A i \in 1..l : i + 1 \in 1..(l + 1)
    BY <1>2, <1>3
  <2>2. CASE x = p
    BY <1>4, <2>1, <2>2 DEF Items
  <2>3. CASE x \in Items(q)
    BY <1>3, <1>4, <2>1, <2>3 DEF Items
  <2>4. QED
    BY <2>2, <2>3
<1>8. Items(c) = {p} \cup Items(q)
  BY <1>6, <1>7
<1>9. QED
  BY <1>2, <1>3, <1>4, <1>8 DEF c

LEMMA ItemsTail ==
  ASSUME NEW S, NEW q \in Seq(S), q # <<>>
  PROVE  Items(q) = {Head(q)} \cup Items(Tail(q))
<1>1. /\ Head(q) = q[1] /\ Tail(q) \in Seq(S) /\ Len(Tail(q)) = Len(q) - 1
      /\ \A i \in 1..Len(Tail(q)) : Tail(q)[i] = q[i + 1]
      /\ Len(q) \in Nat /\ Len(q) > 0
  BY HeadTailProperties, LenProperties, EmptySeq
<1>2. PICK l \in Nat : l = Len(q)
  BY <1>1
<1>3. PICK t : t = Tail(q)
  OBVIOUS
<1>4. ASSUME NEW x \in Items(q)
      PROVE  x \in {q[1]} \cup Items(t)
  <2>1. PICK i \in 1..l : x = q[i]
    BY <1>2 DEF Items
  <2>2. CASE i # 1
    <3>1. i - 1 \in 1..(l - 1) /\ (i - 1) + 1 = i
      BY <2>2
    <3>2. t[i - 1] = x
      BY <1>1, <1>2, <1>3, <2>1, <3>1
    <3>3. QED
      BY <1>1, <1>2, <1>3, <3>1, <3>2 DEF Items
  <2>3. QED
    BY <2>1, <2>2
<1>5. ASSUME NEW x \in {q[1]} \cup Items(t)
      PROVE  x \in Items(q)
  <2>1. CASE x = q[1]
    BY <1>1, <2>1 DEF Items
  <2>2. CASE x \in Items(t)
    <3>1. PICK i \in 1..(l - 1) : x = t[i]
      BY <1>1, <1>2, <1>3, <2>2 DEF Items
    <3>2. i + 1 \in 1..l /\ x = q[i + 1]
      BY <1>1, <1>2, <1>3, <3>1
    <3>3. QED
      BY <1>2, <3>2 DEF Items
  <2>3. QED
    BY <2>1, <2>2
<1>6. QED
  BY <1>1, <1>3, <1>4, <1>5

LEMMA ItemsRest ==
  ASSUME NEW S, NEW q \in Seq(S), NEW n \in 0..Len(q)
  PROVE  Items(Rest(q, n)) \subseteq Items(q)
<1>1. /\ Len(Rest(q, n)) = Len(q) - n
      /\ \A i \in 1..(Len(q) - n) : Rest(q, n)[i] = q[i + n]
      /\ Len(q) \in Nat
  BY RestProperties, LenProperties
<1>2. \A i \in 1..(Len(q) - n) : i + n \in 1..Len(q)
  BY <1>1
<1>3. QED
  BY <1>1, <1>2 DEF Items

LEMMA PairedAppend ==
  ASSUME NEW S, NEW q \in Seq(S), NEW p \in S, Paired(q),
         p.kind = "publish" => \A x \in Items(q) : x.kind = "callback" => x.arg # p.arg
  PROVE  Paired(Append(q, p))
<1>1. /\ Len(Append(q, p)) = Len(q) + 1 /\ Append(q, p)[Len(q) + 1] = p
      /\ \A i \in 1..Len(q) : Append(q, p)[i] = q[i]
      /\ Len(q) \in Nat
  BY AppendProperties, LenProperties
<1>2. PICK l \in Nat : l = Len(q)
  BY <1>1
<1>a. PICK a : a = Append(q, p)
  OBVIOUS
<1>3. ASSUME NEW i \in 1..(l + 1), NEW j \in 1..(l + 1),
             a[i].kind = "publish", a[j].kind = "callback", a[i].arg = a[j].arg
      PROVE  i < j
  <2>1. CASE i \in 1..l /\ j \in 1..l
    BY <1>1, <1>2, <1>a, <1>3, <2>1 DEF Paired
  <2>2. CASE j = l + 1 /\ i # l + 1
    BY <2>2
  <2>3. CASE i = l + 1 /\ j \in 1..l
    BY <1>1, <1>2, <1>a, <1>3, <2>3 DEF Items
  <2>4. CASE i = l + 1 /\ j = l + 1
    BY <1>3, <2>4
  <2>5. QED
    BY <2>1, <2>2, <2>3, <2>4
<1>4. QED
  BY <1>1, <1>2, <1>a, <1>3 DEF Paired

LEMMA PairedCons ==
  ASSUME NEW S, NEW q \in Seq(S), NEW p \in S, Paired(q),
         p.kind \notin {"publish", "callback"}
  PROVE  Paired(<<p>> \o q)
<1>1. PICK l \in Nat : l = Len(q)
  BY LenProperties
<1>a. PICK a : a = <<p>> \o q
  OBVIOUS
<1>2. Len(a) = l + 1 /\ a[1] = p /\ \A i \in 1..l : a[i + 1] = q[i]
  BY <1>1, <1>a, ItemsCons
<1>3. ASSUME NEW i \in 1..(l + 1), NEW j \in 1..(l + 1),
             a[i].kind = "publish", a[j].kind = "callback", a[i].arg = a[j].arg
      PROVE  i < j
  <2>1. i # 1 /\ j # 1
    BY <1>2, <1>3
  <2>2. /\ i - 1 \in 1..l /\ j - 1 \in 1..l /\ (i - 1) + 1 = i /\ (j - 1) + 1 = j
    BY <2>1
  <2>3. a[i] = q[i - 1] /\ a[j] = q[j - 1]
    BY <1>2, <2>2
  <2>4. i - 1 < j - 1
    BY <1>1, <1>a, <1>3, <2>2, <2>3 DEF Paired
  <2>5. QED
    BY <2>4
<1>4. QED
  BY <1>1, <1>a, <1>2, <1>3 DEF Paired

LEMMA PairedTail ==
  ASSUME NEW S, NEW q \in Seq(S), q # <<>>, Paired(q)
  PROVE  Paired(Tail(q))
<1>1. /\ Len(Tail(q)) = Len(q) - 1 /\ Len(q) \in Nat
      /\ \A i \in 1..Len(Tail(q)) : Tail(q)[i] = q[i + 1]
  BY HeadTailProperties, LenProperties
<1>2. PICK l \in Nat : l = Len(q)
  BY <1>1
<1>a. PICK a : a = Tail(q)
  OBVIOUS
<1>3. ASSUME NEW i \in 1..(l - 1), NEW j \in 1..(l - 1),
             a[i].kind = "publish", a[j].kind = "callback", a[i].arg = a[j].arg
      PROVE  i < j
  <2>1. a[i] = q[i + 1] /\ a[j] = q[j + 1] /\ i + 1 \in 1..l /\ j + 1 \in 1..l
    BY <1>1, <1>2, <1>a
  <2>2. i + 1 < j + 1
    BY <1>2, <1>a, <1>3, <2>1 DEF Paired
  <2>3. QED
    BY <2>2
<1>4. QED
  BY <1>1, <1>2, <1>a, <1>3 DEF Paired

LEMMA PairedRest ==
  ASSUME NEW S, NEW q \in Seq(S), NEW n \in 0..Len(q), Paired(q)
  PROVE  Paired(Rest(q, n))
<1>1. /\ Len(Rest(q, n)) = Len(q) - n /\ Len(q) \in Nat
      /\ \A i \in 1..(Len(q) - n) : Rest(q, n)[i] = q[i + n]
  BY RestProperties, LenProperties
<1>2. PICK l \in Nat : l = Len(q)
  BY <1>1
<1>a. PICK a : a = Rest(q, n)
  OBVIOUS
<1>3. ASSUME NEW i \in 1..(l - n), NEW j \in 1..(l - n),
             a[i].kind = "publish", a[j].kind = "callback", a[i].arg = a[j].arg
      PROVE  i < j
  <2>1. a[i] = q[i + n] /\ a[j] = q[j + n] /\ i + n \in 1..l /\ j + n \in 1..l
    BY <1>1, <1>2, <1>a
  <2>2. i + n < j + n
    BY <1>2, <1>a, <1>3, <2>1 DEF Paired
  <2>3. QED
    BY <2>2
<1>4. QED
  BY <1>1, <1>2, <1>a, <1>3 DEF Paired

(* Once its marker is at the front of a queue, no publication follows.      *)
LEMMA MarkedIsSent ==
  ASSUME NEW S, NEW q \in Seq(S), NEW n \in 0..Len(q), MarkerPrefix(q, n), Paired(q),
         NEW e \in MarkedIn(q, n)
  PROVE  /\ Packet("publish", 0, e) \notin Items(q)
         /\ \E p \in Items(q) : IsMarker(p) /\ p.arg = e
<1>1. PICK j \in 1..n : e = q[j].arg
  BY DEF MarkedIn
<1>2. Len(q) \in Nat /\ j \in 1..Len(q)
  BY LenProperties
<1>3. IsMarker(q[j])
  BY DEF MarkerPrefix
<1>4. ASSUME NEW i \in 1..Len(q), q[i] = Packet("publish", 0, e)
      PROVE  FALSE
  <2>1. q[i].kind = "publish" /\ q[i].arg = e
    BY <1>4 DEF Packet
  <2>2. i < j
    BY <1>1, <1>2, <1>3, <2>1 DEF Paired, IsMarker
  <2>3. i \in 1..n
    BY <1>2, <2>2
  <2>4. IsMarker(q[i])
    BY <2>3 DEF MarkerPrefix
  <2>5. QED
    BY <2>1, <2>4 DEF IsMarker
<1>5. QED
  BY <1>1, <1>2, <1>3, <1>4 DEF Items

-----------------------------------------------------------------------------
(* A step that settles the publications of S, or of none, and adds nothing  *)
(* to what waits, is in flight or is held.                                  *)
LEMMA BooksSettle ==
  ASSUME TypeOK, Books, NEW S, NEW v \in {"acked", "dropped"},
         status' = [m \in Publications |-> IF m \in S THEN v ELSE status[m]],
         \A i \in InFlightIds' :
           i \in InFlightIds /\ in_flight'[i] = in_flight[i] /\ in_flight[i].msg \notin S,
         Waiting' \subseteq Waiting, Waiting' \cap S = {}, WaitingOnce',
         Items(tx_queue') \subseteq Items(tx_queue), Own' \subseteq Own,
         Paired(tx_queue'),
         v = "acked" => \A e \in S \cap Events : Packet("publish", 0, e) \notin Own'
  PROVE  Books'
<1>1. \A m \in Publications : status'[m] = IF m \in S THEN v ELSE status[m]
  OBVIOUS
<1>2. Messages \subseteq Publications /\ Events \subseteq Publications
  BY DEF Publications
<1>3. \A i \in InFlightIds : in_flight[i].msg \in Messages
  BY InFlightType DEF InFlightIds
<1>4. Waiting \subseteq Publications
  BY DEF TypeOK, Waiting, Items
<1>5. InFlightKept'
  BY <1>1, <1>2, <1>3 DEF Books, InFlightKept
<1>6. InFlightOnce'
  BY DEF Books, InFlightOnce
<1>7. WaitingKept'
  BY <1>1, <1>4 DEF Books, WaitingKept
<1>8. OneHome'
  <2>1. InFlightMsgs' \subseteq InFlightMsgs
    BY DEF InFlightMsgs
  <2>2. QED
    BY <2>1 DEF Books, OneHome
<1>9. MarkersOfEvents'
  BY DEF Books, MarkersOfEvents
<1>10. Unused'
  BY <1>1, <1>2 DEF Books, Unused
<1>11. AckedSent'
  BY <1>1, <1>2 DEF Books, AckedSent
<1>12. Paired(tx_queue)'
  BY DEF Paired
<1>13. QED
  BY <1>5, <1>6, <1>7, <1>8, <1>9, <1>10, <1>11, <1>12 DEF Books

(* A step that leaves every publication where it is.                        *)
Quiet == UNCHANGED <<in_flight, pre_connect_queue, status>>

LEMMA BooksFewer ==
  ASSUME TypeOK, Books, Quiet,
         Items(tx_queue') \subseteq Items(tx_queue), Own' \subseteq Own,
         Paired(tx_queue')
  PROVE  Books'
<1>1. status' = [m \in Publications |-> IF m \in {} THEN "dropped" ELSE status[m]]
  BY DEF Quiet, TypeOK
<1>2. Waiting' \subseteq Waiting /\ Waiting' \cap {} = {} /\ WaitingOnce'
  BY DEF Quiet, Waiting, Books, WaitingOnce
<1>3. \A i \in InFlightIds' :
        i \in InFlightIds /\ in_flight'[i] = in_flight[i] /\ in_flight[i].msg \notin {}
  BY DEF Quiet, InFlightIds
<1>4. "dropped" \in {"acked", "dropped"} /\ "dropped" # "acked"
  OBVIOUS
<1>5. QED
  BY <1>1, <1>2, <1>3, <1>4, BooksSettle

LEMMA BooksKept ==
  ASSUME TypeOK, Books, Quiet, UNCHANGED <<tx_queue, partial_send>>
  PROVE  Books'
<1>1. Items(tx_queue') = Items(tx_queue) /\ Own' = Own /\ Paired(tx_queue')
  BY DEF Own, Books
<1>2. QED
  BY <1>1, BooksFewer

(* A packet of neither kind joins the queue at its end or at its front.     *)
LEMMA BooksEnqueue ==
  ASSUME TypeOK, Books, Quiet, UNCHANGED partial_send,
         NEW p \in OutPackets, p.kind \notin {"publish", "callback"},
         \/ tx_queue' = Append(tx_queue, p)
         \/ tx_queue' = <<p>> \o tx_queue
  PROVE  Books'
<1>1. Items(tx_queue') = Items(tx_queue) \cup {p} /\ Paired(tx_queue')
  <2>1. tx_queue \in Seq(OutPackets) /\ Paired(tx_queue)
    BY DEF TypeOK, Books
  <2>2. CASE tx_queue' = Append(tx_queue, p)
    BY <2>1, <2>2, ItemsAppend, PairedAppend
  <2>3. CASE tx_queue' = <<p>> \o tx_queue
    BY <2>1, <2>3, ItemsCons, PairedCons
  <2>4. QED
    BY <2>2, <2>3
<1>2. Own' = Own \cup {p}
  BY <1>1 DEF Own
<1>3. \A e : ~Carries(p, e) /\ p # Packet("publish", 0, e) /\ ~IsMarker(p)
  BY DEF Carries, Packet, IsMarker
<1>4. InFlightIds' = InFlightIds /\ InFlightMsgs' = InFlightMsgs /\ Waiting' = Waiting
  BY DEF Quiet, InFlightIds, InFlightMsgs, Waiting
<1>5. InFlightKept' /\ InFlightOnce' /\ WaitingKept' /\ WaitingOnce' /\ OneHome'
  BY <1>4 DEF Quiet, Books, InFlightKept, InFlightOnce, WaitingKept, WaitingOnce, OneHome
<1>6. MarkersOfEvents'
  BY <1>1, <1>3 DEF Books, MarkersOfEvents
<1>7. Unused' /\ AckedSent'
  BY <1>2, <1>3, <1>4 DEF Quiet, Books, Unused, AckedSent
<1>8. QED
  BY <1>1, <1>5, <1>6, <1>7 DEF Books, Paired

(* What Publish and _drain_pre_connect_queue have in common: publication m, *)
(* new or waiting until now, is published.                                  *)
LEMMA BooksPublish ==
  ASSUME TypeOK, Books, NEW m \in Publications, DoPublish(m),
         status[m] = "new" \/ m \in Waiting,
         status' = [status EXCEPT ![m] = "accepted"],
         Waiting' \subseteq Waiting \ {m}, WaitingOnce', UNCHANGED partial_send
  PROVE  Books'
<1>1. \A x \in Publications : status'[x] = IF x = m THEN "accepted" ELSE status[x]
  BY DEF TypeOK
<1>2. Messages \subseteq Publications /\ Events \subseteq Publications
      /\ Messages \cap Events = {}
  BY ClientAssumption DEF Publications, ClientAssumption
<1>3. \A i \in InFlightIds : in_flight[i].msg \in Messages
  BY InFlightType DEF InFlightIds
<1>4. Waiting \subseteq Publications
  BY DEF TypeOK, Waiting, Items
<1>5. m \notin InFlightMsgs
  BY DEF Books, InFlightKept, OneHome, InFlightMsgs
<1>6. WaitingKept'
  BY <1>1, <1>4 DEF Books, WaitingKept
<1>7. CASE m \in Events
  <2> DEFINE p == Packet("publish", 0, m)
             c == Packet("callback", 0, m)
  <2>1. p \in OutPackets /\ c \in OutPackets
    BY PacketType, IdsType, ArgTypes DEF OutKinds
  <2>2. tx_queue' = tx_queue \o <<p, c>> /\ UNCHANGED in_flight
    BY <1>2, <1>7 DEF DoPublish, WithMarker, ids
  <2>3. /\ p.kind = "publish" /\ p.arg = m /\ c.kind = "callback" /\ c.arg = m
        /\ \A e : Carries(p, e) \/ Carries(c, e) \/ p = Packet("publish", 0, e) => e = m
        /\ \A e : c # Packet("publish", 0, e)
        /\ ~IsMarker(p)
    BY DEF Carries, Packet, IsMarker
  <2> HIDE DEF p, c
  <2>4. tx_queue' = Append(Append(tx_queue, p), c)
    BY <2>1, <2>2 DEF TypeOK
  <2>5. Append(tx_queue, p) \in Seq(OutPackets)
    BY <2>1, AppendProperties DEF TypeOK
  <2>6. Items(tx_queue') = Items(tx_queue) \cup {p, c}
    <3>1. Items(Append(tx_queue, p)) = Items(tx_queue) \cup {p}
      BY <2>1, ItemsAppend DEF TypeOK
    <3>2. PICK r : r = Append(tx_queue, p)
      OBVIOUS
    <3>3. Items(Append(r, c)) = Items(r) \cup {c}
      <4>1. r \in Seq(OutPackets) /\ c \in OutPackets
        BY <2>1, <2>5, <3>2
      <4>2. QED
        BY <4>1, ItemsAppend
    <3>4. QED
      BY <2>4, <3>1, <3>2, <3>3
  <2>7. \A x \in Own : ~Carries(x, m)
    BY <1>7 DEF Books, Unused
  <2>8. Paired(tx_queue')
    <3>1. \A x \in Items(tx_queue) : x.kind = "callback" => x.arg # m
      BY <2>7 DEF Own, Carries
    <3>2. Paired(Append(tx_queue, p))
      BY <2>1, <2>3, <3>1, PairedAppend DEF Books, TypeOK
    <3>3. QED
      BY <2>1, <2>3, <2>4, <2>5, <3>2, PairedAppend
  <2>9. Own' = Own \cup {p, c}
    BY <2>6 DEF Own
  <2>10. MarkersOfEvents'
    BY <1>7, <2>3, <2>6 DEF Books, MarkersOfEvents
  <2>11. Unused'
    BY <1>1, <1>2, <2>3, <2>9 DEF Books, Unused
  <2>12. AckedSent'
    BY <1>1, <1>2, <2>3, <2>9 DEF Books, AckedSent
  <2>13. InFlightIds' = InFlightIds /\ InFlightMsgs' = InFlightMsgs
    BY <2>2 DEF InFlightIds, InFlightMsgs
  <2>14. InFlightKept' /\ InFlightOnce' /\ OneHome'
    BY <1>1, <1>2, <1>3, <1>7, <2>2, <2>13 DEF Books, InFlightKept, InFlightOnce, OneHome
  <2>15. QED
    BY <1>6, <2>8, <2>10, <2>11, <2>12, <2>14 DEF Books, Paired
<1>8. CASE m \in Messages
  <2>1. PICK i \in Ids :
          /\ IsNextFree(i)
          /\ tx_queue' = Append(tx_queue, Packet("publish", i, m))
          /\ in_flight' = [in_flight EXCEPT ![i] = [msg |-> m, retries |-> 0]]
    BY <1>2, <1>8 DEF DoPublish
  <2>2. PICK p : p = Packet("publish", i, m)
    OBVIOUS
  <2>3. p \in OutPackets
    BY <2>2, PacketType, IdsType, ArgTypes DEF OutKinds
  <2>4. /\ p.kind = "publish" /\ p.arg = m /\ ~IsMarker(p)
        /\ \A e \in Events : ~Carries(p, e) /\ p # Packet("publish", 0, e)
    BY <1>2, <1>8, <2>2 DEF Carries, Packet, IsMarker
  <2>5. Items(tx_queue') = Items(tx_queue) \cup {p}
    BY <2>1, <2>2, <2>3, ItemsAppend DEF TypeOK
  <2>6. \A x \in Items(tx_queue) : x.kind = "callback" => x.arg # m
    BY <1>2, <1>8 DEF Books, MarkersOfEvents, IsMarker
  <2>7. Paired(tx_queue')
    BY <2>1, <2>2, <2>3, <2>4, <2>6, PairedAppend DEF Books, TypeOK
  <2>8. Own' = Own \cup {p}
    BY <2>5 DEF Own
  <2>9. MarkersOfEvents'
    BY <2>4, <2>5 DEF Books, MarkersOfEvents
  <2>10. Unused' /\ AckedSent'
    BY <1>1, <1>2, <1>8, <2>4, <2>8 DEF Books, Unused, AckedSent
  <2>11. /\ \A j \in Ids : in_flight'[j] = IF j = i THEN [msg |-> m, retries |-> 0]
                                                     ELSE in_flight[j]
         /\ i \notin InFlightIds
    BY <2>1 DEF TypeOK, IsNextFree, InFlightIds
  <2>12. /\ InFlightIds' \subseteq InFlightIds \cup {i}
         /\ InFlightMsgs' \subseteq InFlightMsgs \cup {m}
         /\ in_flight'[i].msg = m
         /\ \A j \in InFlightIds' \ {i} : j \in InFlightIds /\ in_flight'[j] = in_flight[j]
    BY <2>11 DEF InFlightIds, InFlightMsgs
  <2>13. InFlightKept'
    BY <1>1, <1>2, <1>3, <1>8, <2>12 DEF Books, InFlightKept
  <2>14. InFlightOnce'
    BY <1>5, <2>12 DEF Books, InFlightOnce, InFlightMsgs
  <2>15. OneHome'
    BY <1>5, <2>12 DEF Books, OneHome
  <2>16. QED
    BY <1>6, <2>7, <2>9, <2>10, <2>13, <2>14, <2>15 DEF Books, Paired
<1>9. QED
  BY <1>7, <1>8 DEF Publications

LEMMA BooksReset ==
  ASSUME TypeOK, Books, ResetTransientState, NEW S,
         status' = [m \in Publications |-> IF m \in S THEN "dropped" ELSE status[m]],
         \A i \in InFlightIds' :
           i \in InFlightIds /\ in_flight'[i] = in_flight[i] /\ in_flight[i].msg \notin S,
         Waiting' \subseteq Waiting, Waiting' \cap S = {}, WaitingOnce'
  PROVE  Books'
<1>1. tx_queue' = <<>> /\ partial_send' = None
  BY DEF ResetTransientState
<1>2. Items(tx_queue') = {} /\ Own' = {} /\ Paired(tx_queue')
  BY <1>1 DEF Items, Own, Paired
<1>3. "dropped" \in {"acked", "dropped"} /\ "dropped" # "acked"
  OBVIOUS
<1>4. QED
  BY <1>2, <1>3, BooksSettle

(* The callbacks of S run, and the queue loses its front.                   *)
LEMMA BooksAcknowledge ==
  ASSUME TypeOK, Books, UNCHANGED <<in_flight, pre_connect_queue>>,
         NEW S, Acknowledge(S),
         \A e \in S : /\ \E p \in Items(tx_queue) : IsMarker(p) /\ p.arg = e
                      /\ Packet("publish", 0, e) \notin Own',
         Items(tx_queue') \subseteq Items(tx_queue), Own' \subseteq Own,
         Paired(tx_queue')
  PROVE  Books'
<1>1. \A e \in S : e \in Events /\ e \notin Waiting
  BY DEF Books, MarkersOfEvents, Unused, Own, Carries, IsMarker
<1>2. \A i \in InFlightIds : in_flight[i].msg \notin S
  BY <1>1, InFlightType, ClientAssumption DEF InFlightIds, ClientAssumption
<1>3. Waiting' = Waiting /\ WaitingOnce' /\ InFlightIds' = InFlightIds
  BY DEF Waiting, Books, WaitingOnce, InFlightIds
<1>4. status' = [m \in Publications |-> IF m \in S THEN "acked" ELSE status[m]]
  BY DEF Acknowledge
<1>5. QED
  BY <1>1, <1>2, <1>3, <1>4, BooksSettle

LEMMA DrainBooks ==
  ASSUME TypeOK, Books, NEW n \in 0..Len(tx_queue), Drain(n)
  PROVE  Books'
<1>1. PICK q : q = Rest(tx_queue, n)
  OBVIOUS
<1>2. /\ q \in Seq(OutPackets) /\ Items(q) \subseteq Items(tx_queue) /\ Paired(q)
      /\ tx_queue \in Seq(OutPackets)
  BY <1>1, RestProperties, ItemsRest, PairedRest DEF TypeOK, Books
<1>3. MarkerPrefix(tx_queue, n) /\ partial_send = None
      /\ UNCHANGED <<in_flight, pre_connect_queue>>
  BY DEF Drain, ids, registry
<1>4. \A e \in MarkedIn(tx_queue, n) :
        /\ Packet("publish", 0, e) \notin Items(tx_queue)
        /\ \E p \in Items(tx_queue) : IsMarker(p) /\ p.arg = e
  BY <1>2, <1>3, MarkedIsSent DEF Books
<1>5. Own = Items(tx_queue)
  BY <1>3 DEF Own
<1>6. ASSUME tx_queue' = q, UNCHANGED partial_send, Acknowledge(MarkedIn(tx_queue, n))
      PROVE  Books'
  <2>1. Own' = Items(q)
    BY <1>3, <1>6 DEF Own
  <2>2. QED
    BY <1>2, <1>3, <1>4, <1>5, <1>6, <2>1, BooksAcknowledge
<1>7. ASSUME q # <<>>
      PROVE  /\ Tail(q) \in Seq(OutPackets) /\ Paired(Tail(q))
             /\ Items(q) = {Head(q)} \cup Items(Tail(q))
  BY <1>2, <1>7, HeadTailProperties, PairedTail, ItemsTail
<1>8. ASSUME q # <<>>, tx_queue' = Tail(q), partial_send' \in {None, Head(q)},
             Acknowledge(MarkedIn(tx_queue, n))
      PROVE  Books'
  <2>1. Items(tx_queue') \subseteq Items(tx_queue) /\ Own' \subseteq Items(q)
    BY <1>2, <1>7, <1>8 DEF Own
  <2>2. Own' \subseteq Own
    BY <1>2, <1>5, <2>1
  <2>3. QED
    BY <1>3, <1>4, <1>5, <1>7, <1>8, <2>1, <2>2, BooksAcknowledge
<1>9. ASSUME q # <<>>, UNCHANGED partial_send,
             NEW k \in 0..Len(Tail(q)), MarkerPrefix(Tail(q), k), tx_queue' = Rest(Tail(q), k),
             Acknowledge(MarkedIn(tx_queue, n) \cup MarkedIn(Tail(q), k))
      PROVE  Books'
  <2>1. PICK t : t = Tail(q)
    OBVIOUS
  <2>2. t \in Seq(OutPackets) /\ Paired(t) /\ Items(t) \subseteq Items(tx_queue)
    BY <1>2, <1>7, <1>9, <2>1
  <2>3. Items(tx_queue') \subseteq Items(t) /\ Paired(tx_queue')
    BY <1>9, <2>1, <2>2, ItemsRest, PairedRest
  <2>4. \A e \in MarkedIn(t, k) :
          /\ Packet("publish", 0, e) \notin Items(t)
          /\ \E p \in Items(t) : IsMarker(p) /\ p.arg = e
    BY <1>9, <2>1, <2>2, MarkedIsSent
  <2>5. Own' = Items(tx_queue')
    BY <1>3, <1>9 DEF Own
  <2>6. PICK A : A = MarkedIn(tx_queue, n) \cup MarkedIn(t, k)
    OBVIOUS
  <2>7. \A e \in A : /\ \E p \in Items(tx_queue) : IsMarker(p) /\ p.arg = e
                     /\ Packet("publish", 0, e) \notin Own'
    BY <1>4, <2>2, <2>3, <2>4, <2>5, <2>6
  <2>8. Acknowledge(A)
    BY <1>9, <2>1, <2>6
  <2>9. Items(tx_queue') \subseteq Items(tx_queue) /\ Own' \subseteq Own
    BY <1>5, <2>2, <2>3, <2>5
  <2>10. QED
    BY <1>3, <2>3, <2>7, <2>8, <2>9, BooksAcknowledge
<1>10. QED
  BY <1>1, <1>3, <1>6, <1>8, <1>9 DEF Drain

LEMMA DrainFailsBooks ==
  ASSUME TypeOK, Books, NEW n \in 0..Len(tx_queue), DrainFails(n)
  PROVE  Books'
<1>1. /\ tx_queue' \in Seq(OutPackets) /\ Items(tx_queue') \subseteq Items(tx_queue)
      /\ Paired(tx_queue')
  BY RestProperties, ItemsRest, PairedRest DEF TypeOK, Books, DrainFails
<1>2. UNCHANGED <<in_flight, pre_connect_queue, partial_send>>
      /\ Acknowledge(MarkedIn(tx_queue, n))
  BY DEF DrainFails, ids, registry
<1>3. Own' \subseteq Own
  BY <1>1, <1>2 DEF Own
<1>4. \A e \in MarkedIn(tx_queue, n) :
        /\ \E p \in Items(tx_queue) : IsMarker(p) /\ p.arg = e
        /\ Packet("publish", 0, e) \notin Own'
  <2>1. CASE n = 0
    BY <2>1 DEF MarkedIn
  <2>2. CASE n # 0
    <3>1. MarkerPrefix(tx_queue, n) /\ partial_send = None
      BY <2>2 DEF DrainFails
    <3>2. Own' \subseteq Items(tx_queue)
      BY <1>1, <1>2, <3>1 DEF Own
    <3>3. \A e \in MarkedIn(tx_queue, n) :
             /\ Packet("publish", 0, e) \notin Items(tx_queue)
             /\ \E p \in Items(tx_queue) : IsMarker(p) /\ p.arg = e
      BY <3>1, MarkedIsSent DEF Books, TypeOK
    <3>4. QED
      BY <3>2, <3>3
  <2>3. QED
    BY <2>1, <2>2
<1>5. QED
  BY <1>1, <1>2, <1>3, <1>4, BooksAcknowledge

(* Popping the head of the pre-connect queue.                               *)
LEMMA PopWaiting ==
  ASSUME TypeOK, Books, pre_connect_queue # <<>>,
         pre_connect_queue' = Tail(pre_connect_queue)
  PROVE  /\ Head(pre_connect_queue) \in Waiting /\ Head(pre_connect_queue) \in Publications
         /\ Waiting' = Waiting \ {Head(pre_connect_queue)}
         /\ WaitingOnce'
<1>1. PICK q : q = pre_connect_queue
  OBVIOUS
<1>2. PICK t : t = Tail(q)
  OBVIOUS
<1>3. PICK l \in Nat : l = Len(q)
  BY <1>1, LenProperties DEF TypeOK
<1>4. /\ q \in Seq(Publications) /\ t \in Seq(Publications) /\ Len(t) = l - 1
      /\ \A i \in 1..(l - 1) : t[i] = q[i + 1]
      /\ Head(q) = q[1] /\ l > 0
  BY <1>1, <1>2, <1>3, HeadTailProperties, EmptySeq, LenProperties DEF TypeOK
<1>5. \A i, j \in 1..l : q[i] = q[j] => i = j
  BY <1>1, <1>3 DEF Books, WaitingOnce
<1>6. \A i, j \in 1..(l - 1) : t[i] = t[j] => i = j
  <2>1. \A i \in 1..(l - 1) : i + 1 \in 1..l
    OBVIOUS
  <2>2. QED
    BY <1>4, <1>5, <2>1
<1>7. q[1] \notin Items(t)
  <2>1. \A i \in 1..(l - 1) : i + 1 \in 1..l /\ i + 1 # 1
    OBVIOUS
  <2>2. 1 \in 1..l
    BY <1>4
  <2>3. QED
    BY <1>4, <1>5, <2>1, <2>2 DEF Items
<1>8. Items(q) = {q[1]} \cup Items(t)
  BY <1>1, <1>2, <1>4, ItemsTail
<1>9. q[1] \in Publications
  BY <1>3, <1>4
<1>10. Waiting = Items(q) /\ Waiting' = Items(t)
  BY <1>1, <1>2 DEF Waiting
<1>11. WaitingOnce'
  BY <1>1, <1>2, <1>4, <1>6 DEF WaitingOnce
<1>12. QED
  BY <1>1, <1>4, <1>7, <1>8, <1>9, <1>10, <1>11

LEMMA PushWaiting ==
  ASSUME TypeOK, Books, NEW m \in Publications, m \notin Waiting,
         pre_connect_queue' = Append(pre_connect_queue, m)
  PROVE  Waiting' = Waiting \cup {m} /\ WaitingOnce'
<1>1. Waiting' = Waiting \cup {m}
  BY ItemsAppend DEF TypeOK, Waiting
<1>2. /\ Len(pre_connect_queue') = Len(pre_connect_queue) + 1
      /\ pre_connect_queue'[Len(pre_connect_queue) + 1] = m
      /\ \A i \in 1..Len(pre_connect_queue) : pre_connect_queue'[i] = pre_connect_queue[i]
      /\ Len(pre_connect_queue) \in Nat
  BY AppendProperties, LenProperties DEF TypeOK
<1>3. 1..(Len(pre_connect_queue) + 1)
        = 1..Len(pre_connect_queue) \cup {Len(pre_connect_queue) + 1}
  BY <1>2
<1>4. \A i \in 1..Len(pre_connect_queue) : pre_connect_queue[i] # m
  BY DEF Waiting, Items
<1>5. WaitingOnce'
  BY <1>2, <1>3, <1>4 DEF Books, WaitingOnce
<1>6. QED
  BY <1>1, <1>5

LEMMA PublishBooks ==
  ASSUME TypeOK, Books, NEW m \in Publications, Publish(m)
  PROVE  Books'
<1>1. status[m] = "new" /\ UNCHANGED partial_send
  BY DEF Publish
<1>2. m \notin Waiting /\ m \notin InFlightMsgs
  BY <1>1 DEF Books, WaitingKept, InFlightKept, InFlightMsgs
<1>3. \A x \in Publications :
        [status EXCEPT ![m] = "accepted"][x] = IF x = m THEN "accepted" ELSE status[x]
  BY DEF TypeOK
<1>4. CASE /\ DoPublish(m) /\ status' = [status EXCEPT ![m] = "accepted"]
           /\ UNCHANGED pre_connect_queue
  <2>1. Waiting' \subseteq Waiting \ {m} /\ WaitingOnce'
    BY <1>2, <1>4 DEF Waiting, Books, WaitingOnce
  <2>2. QED
    BY <1>1, <1>4, <2>1, BooksPublish
<1>5. CASE DoPublishRaises(m) /\ UNCHANGED <<status, pre_connect_queue>>
  BY <1>1, <1>5, BooksKept DEF DoPublishRaises, Quiet
<1>6. CASE /\ pre_connect_queue' = Append(pre_connect_queue, m)
           /\ status' = [status EXCEPT ![m] = "accepted"]
           /\ UNCHANGED <<tx_queue, ids>>
  <2>1. Waiting' = Waiting \cup {m} /\ WaitingOnce'
    BY <1>2, <1>6, PushWaiting
  <2>2. /\ Items(tx_queue') = Items(tx_queue) /\ Own' = Own /\ UNCHANGED in_flight
        /\ InFlightIds' = InFlightIds /\ InFlightMsgs' = InFlightMsgs
    BY <1>1, <1>6 DEF Own, ids, InFlightIds, InFlightMsgs
  <2>3. InFlightMsgs \subseteq Publications /\ Waiting \subseteq Publications
    BY InFlightType DEF Publications, TypeOK, Waiting, Items
  <2>4. Events \subseteq Publications
    BY DEF Publications
  <2>5. InFlightKept'
    BY <1>2, <1>3, <1>6, <2>2, <2>3 DEF Books, InFlightKept, InFlightMsgs
  <2>6. InFlightOnce' /\ OneHome' /\ MarkersOfEvents'
    BY <1>2, <2>1, <2>2 DEF Books, InFlightOnce, OneHome, MarkersOfEvents
  <2>7. WaitingKept'
    BY <1>3, <1>6, <2>1, <2>3 DEF Books, WaitingKept
  <2>8. Unused' /\ AckedSent'
    BY <1>1, <1>3, <1>6, <2>1, <2>2, <2>4 DEF Books, Unused, AckedSent
  <2>9. QED
    BY <1>6, <2>1, <2>5, <2>6, <2>7, <2>8 DEF Books, Paired
<1>7. QED
  BY <1>4, <1>5, <1>6 DEF Publish

LEMMA BooksNext == TypeOK /\ Books /\ [Next]_vars => Books'
<1> SUFFICES ASSUME TypeOK, Books, [Next]_vars
             PROVE  Books'
  OBVIOUS
<1> USE DEF control, outbox, ids, registry, app, Quiet
<1>1. CASE SelfHeal
  <2>1. WaitingOnce' /\ Waiting' = Waiting
    BY <1>1 DEF SelfHeal, Books, WaitingOnce, Waiting
  <2>2. CASE CleanSession
    <3>1. InFlightIds' = {}
      BY <1>1, <2>2 DEF SelfHeal, InFlightIds
    <3>2. Waiting' \cap InFlightMsgs = {}
      BY <2>1 DEF Books, OneHome
    <3>3. QED
      BY <1>1, <2>1, <2>2, <3>1, <3>2, BooksReset DEF SelfHeal, Drop
  <2>3. CASE ~CleanSession
    <3>1. status' = [m \in Publications |-> IF m \in {} THEN "dropped" ELSE status[m]]
      BY <1>1, <2>3 DEF SelfHeal, TypeOK
    <3>2. \A i \in InFlightIds' : i \in InFlightIds /\ in_flight'[i] = in_flight[i]
                                 /\ in_flight[i].msg \notin {}
      BY <1>1, <2>3 DEF SelfHeal, InFlightIds
    <3>3. Waiting' \cap {} = {} /\ Waiting' \subseteq Waiting /\ ResetTransientState
      BY <1>1, <2>1 DEF SelfHeal
    <3>4. QED
      BY <2>1, <3>1, <3>2, <3>3, BooksReset
  <2>4. QED
    BY <2>2, <2>3
<1>2. CASE TransportLost
  BY <1>2, BooksKept DEF TransportLost
<1>3. CASE TransportPending
  BY <1>3, BooksKept DEF TransportPending
<1>4. CASE TransportReady
  <2>1. /\ Packet("connect", 0, None) \in OutPackets
        /\ Packet("connect", 0, None).kind \notin {"publish", "callback"}
    BY PacketType, IdsType, ArgTypes DEF OutKinds, Packet
  <2>2. QED
    BY <1>4, <2>1, BooksEnqueue DEF TransportReady
<1>5. CASE Begin
  BY <1>5, BooksKept DEF Begin
<1>6. ASSUME NEW i \in Ids, Retransmit(i) PROVE Books'
  <2>1. PICK m \in Messages : m = in_flight[i].msg
    BY <1>6, InFlightType DEF Retransmit
  <2>2. PICK p : p = Packet("publish", i, m)
    OBVIOUS
  <2>3. /\ p \in OutPackets /\ p.kind = "publish" /\ p.arg = m /\ ~IsMarker(p)
        /\ m \notin Events
    BY <2>2, PacketType, IdsType, ArgTypes, ClientAssumption
       DEF OutKinds, Packet, IsMarker, Publications, ClientAssumption
  <2>4. tx_queue' = Append(tx_queue, p) /\ UNCHANGED <<partial_send, pre_connect_queue, status>>
    BY <1>6, <2>1, <2>2 DEF Retransmit
  <2>5. \A x \in Items(tx_queue) : x.kind = "callback" => x.arg # m
    BY <2>3 DEF Books, MarkersOfEvents, IsMarker
  <2>6. Items(tx_queue') = Items(tx_queue) \cup {p} /\ Paired(tx_queue')
    <3>1. tx_queue \in Seq(OutPackets) /\ Paired(tx_queue)
      BY DEF TypeOK, Books
    <3>2. Items(tx_queue') = Items(tx_queue) \cup {p}
      BY <2>3, <2>4, <3>1, ItemsAppend
    <3>3. QED
      BY <2>3, <2>4, <2>5, <3>1, <3>2, PairedAppend
  <2>7. Own' = Own \cup {p}
    BY <2>4, <2>6 DEF Own
  <2>8. \A e \in Events : ~Carries(p, e) /\ p # Packet("publish", 0, e)
    BY <2>3 DEF Carries, Packet
  <2>9. \A j \in Ids : /\ in_flight'[j] # None <=> in_flight[j] # None
                       /\ in_flight[j] # None => in_flight'[j].msg = in_flight[j].msg
    <3>1. [msg |-> in_flight[i].msg, retries |-> in_flight[i].retries + 1] \in InFlightRecords
      <4>1. in_flight[i].retries \in 0..RetryMax /\ RetryMax \in Nat
        BY <1>6, InFlightType, ClientAssumption DEF Retransmit, ClientAssumption
      <4>2. QED
        BY <1>6, <2>1, <4>1 DEF Retransmit, InFlightRecords
    <3>2. in_flight' = [in_flight EXCEPT ![i] =
                     [msg |-> in_flight[i].msg, retries |-> in_flight[i].retries + 1]]
      BY <1>6 DEF Retransmit
    <3>3. QED
      BY <1>6, <3>1, <3>2, NoneAssumption DEF TypeOK, Retransmit
  <2>10. InFlightIds' = InFlightIds /\ InFlightMsgs' = InFlightMsgs /\ Waiting' = Waiting
    BY <2>4, <2>9 DEF InFlightIds, InFlightMsgs, Waiting
  <2>11. InFlightKept' /\ InFlightOnce'
    BY <2>4, <2>9, <2>10 DEF Books, InFlightKept, InFlightOnce, InFlightIds
  <2>12. WaitingKept' /\ WaitingOnce' /\ OneHome' /\ MarkersOfEvents'
    BY <2>3, <2>4, <2>6, <2>10
       DEF Books, WaitingKept, WaitingOnce, OneHome, MarkersOfEvents
  <2>13. Unused' /\ AckedSent'
    BY <2>4, <2>7, <2>8, <2>10 DEF Books, Unused, AckedSent
  <2>14. QED
    BY <2>6, <2>11, <2>12, <2>13 DEF Books, Paired
<1>7. ASSUME NEW i \in Ids, RetriesExhausted(i) PROVE Books'
  <2>1. PICK S : S = {in_flight[i].msg}
    OBVIOUS
  <2>2. i \in InFlightIds /\ Waiting' = Waiting /\ WaitingOnce' /\ Waiting' \cap S = {}
    BY <1>7, <2>1 DEF RetriesExhausted, InFlightIds, InFlightMsgs, Waiting, Books, OneHome,
                    WaitingOnce
  <2>3. \A j \in InFlightIds' :
          j \in InFlightIds /\ in_flight'[j] = in_flight[j] /\ in_flight[j].msg \notin S
    BY <1>7, <2>1, <2>2 DEF RetriesExhausted, InFlightIds, TypeOK, Books, InFlightOnce
  <2>4. Items(tx_queue') = Items(tx_queue) /\ Own' = Own /\ Paired(tx_queue')
    BY <1>7 DEF RetriesExhausted, Own, Books
  <2>5. status' = [m \in Publications |-> IF m \in S THEN "dropped" ELSE status[m]]
    BY <1>7, <2>1 DEF RetriesExhausted, Drop
  <2>6. "dropped" \in {"acked", "dropped"} /\ "dropped" # "acked"
    OBVIOUS
  <2>7. QED
    BY <2>2, <2>3, <2>4, <2>5, <2>6, BooksSettle
<1>8. ASSUME NEW p \in pending_responses, AckTimeout(p) PROVE Books'
  BY <1>8, BooksKept DEF AckTimeout
<1>9. CASE SendTimeout
  BY <1>9, BooksKept DEF SendTimeout
<1>10. CASE DeadlinesDone
  BY <1>10, BooksKept DEF DeadlinesDone
<1>11. CASE SendPing
  <2>1. /\ Packet("pingreq", 0, None) \in OutPackets
        /\ Packet("pingreq", 0, None).kind \notin {"publish", "callback"}
    BY PacketType, IdsType, ArgTypes DEF OutKinds, Packet
  <2>2. QED
    BY <1>11, <2>1, BooksEnqueue DEF SendPing
<1>12. CASE NoPing
  BY <1>12, BooksKept DEF NoPing
<1>13. CASE ReadSuppressed
  BY <1>13, BooksKept DEF ReadSuppressed
<1>14. CASE ReadFails
  BY <1>14, BooksKept DEF ReadFails
<1>15. CASE ReceivePublish
  BY <1>15, BooksKept DEF ReceivePublish
<1>16. CASE ReceiveTooLarge
  BY <1>16, BooksKept DEF ReceiveTooLarge
<1>17. CASE ReceiveRefusal
  BY <1>17, BooksKept DEF ReceiveRefusal
<1>18. CASE ReceiveAccept
  BY <1>18, BooksKept DEF ReceiveAccept
<1>19. ASSUME NEW t \in Topics, ReplaySubscription(t) PROVE Books'
  <2>1. PICK i \in Ids :
          tx_queue' = IF InternalRoom THEN Append(tx_queue, Packet("subscribe", i, t))
                                      ELSE tx_queue
    BY <1>19 DEF ReplaySubscription
  <2>2. /\ Packet("subscribe", i, t) \in OutPackets
        /\ Packet("subscribe", i, t).kind \notin {"publish", "callback"}
    BY PacketType, IdsType, ArgTypes DEF OutKinds, Packet
  <2>3. Quiet /\ UNCHANGED partial_send
    BY <1>19 DEF ReplaySubscription
  <2>4. QED
    BY <2>1, <2>2, <2>3, BooksEnqueue, BooksKept
<1>20. CASE DrainPreConnect
  <2>1. /\ pre_connect_queue # <<>> /\ pre_connect_queue' = Tail(pre_connect_queue)
        /\ UNCHANGED <<partial_send, status>>
    BY <1>20 DEF DrainPreConnect
  <2>2. PICK m : m = Head(pre_connect_queue)
    OBVIOUS
  <2>3. m \in Waiting /\ m \in Publications /\ Waiting' = Waiting \ {m} /\ WaitingOnce'
    BY <2>1, <2>2, PopWaiting
  <2>4. CASE DoPublish(m)
    <3>1. status' = [status EXCEPT ![m] = "accepted"]
      BY <2>1, <2>3 DEF Books, WaitingKept, TypeOK
    <3>2. QED
      BY <2>1, <2>3, <2>4, <3>1, BooksPublish
  <2>5. CASE DoPublishRaises(m)
    <3>1. UNCHANGED <<tx_queue, in_flight>>
      BY <2>5 DEF DoPublishRaises
    <3>2. PICK S : S = {}
      OBVIOUS
    <3>3. status' = [x \in Publications |-> IF x \in S THEN "dropped" ELSE status[x]]
      BY <2>1, <3>2 DEF TypeOK
    <3>4. \A j \in InFlightIds' :
            j \in InFlightIds /\ in_flight'[j] = in_flight[j] /\ in_flight[j].msg \notin S
      BY <3>1, <3>2 DEF InFlightIds
    <3>5. Items(tx_queue') = Items(tx_queue) /\ Own' = Own /\ Paired(tx_queue')
      BY <2>1, <3>1 DEF Own, Books
    <3>6. "dropped" \in {"acked", "dropped"} /\ "dropped" # "acked" /\ Waiting' \cap S = {}
      BY <3>2
    <3>7. QED
      BY <2>3, <3>3, <3>4, <3>5, <3>6, BooksSettle
  <2>6. QED
    BY <1>20, <2>2, <2>4, <2>5 DEF DrainPreConnect
<1>21. CASE OnConnect
  BY <1>21, BooksKept DEF OnConnect
<1>22. CASE ReceivePubAck
  <2>1. UNCHANGED <<tx_queue, partial_send, pre_connect_queue>>
    BY <1>22 DEF ReceivePubAck
  <2>2. PICK i : i = Head(to_client).id
    OBVIOUS
  <2>3. CASE i \notin InFlightIds /\ UNCHANGED <<in_flight, status>>
    BY <2>1, <2>3, BooksKept
  <2>4. CASE /\ i \in InFlightIds
             /\ in_flight' = [in_flight EXCEPT ![i] = None]
             /\ status' = [status EXCEPT ![in_flight[i].msg] = "acked"]
    <3>1. PICK m \in Messages : m = in_flight[i].msg
      BY <2>4, InFlightType DEF InFlightIds
    <3>2. PICK S : S = {m}
      OBVIOUS
    <3>3. status' = [x \in Publications |-> IF x \in S THEN "acked" ELSE status[x]]
      BY <2>4, <3>1, <3>2 DEF TypeOK, Publications
    <3>4. \A j \in InFlightIds' :
            j \in InFlightIds /\ in_flight'[j] = in_flight[j] /\ in_flight[j].msg \notin S
      BY <2>4, <3>1, <3>2 DEF InFlightIds, TypeOK, Books, InFlightOnce
    <3>5. Items(tx_queue') = Items(tx_queue) /\ Own' = Own /\ Paired(tx_queue')
      BY <2>1 DEF Own, Books
    <3>6. "acked" \in {"acked", "dropped"} /\ S \cap Events = {}
      BY <3>2, ClientAssumption DEF ClientAssumption
    <3>7. Waiting' = Waiting /\ WaitingOnce' /\ Waiting' \cap S = {}
      BY <2>1, <2>4, <3>1, <3>2
         DEF Waiting, WaitingOnce, Books, OneHome, InFlightMsgs
    <3>8. QED
      BY <3>3, <3>4, <3>5, <3>6, <3>7, BooksSettle
  <2>5. QED
    BY <1>22, <2>2, <2>3, <2>4 DEF ReceivePubAck
<1>23. CASE ReceiveSubAck
  BY <1>23, BooksKept DEF ReceiveSubAck
<1>24. CASE ReceiveRejection
  BY <1>24, BooksKept DEF ReceiveRejection
<1>25. CASE ReceiveUnsubAck
  BY <1>25, BooksKept DEF ReceiveUnsubAck
<1>26. CASE ReceiveUnexpectedAck
  BY <1>26, BooksKept DEF ReceiveUnexpectedAck
<1>27. CASE ReceivePingResp
  BY <1>27, BooksKept DEF ReceivePingResp
<1>28. CASE EndRead
  <2>1. /\ Packet("puback", 0, pending_pubacks) \in OutPackets
        /\ Packet("puback", 0, pending_pubacks).kind \notin {"publish", "callback"}
    BY PacketType, IdsType, ArgTypes DEF OutKinds, Packet, TypeOK
  <2>2. Quiet /\ UNCHANGED partial_send
    BY <1>28 DEF EndRead
  <2>3. \/ UNCHANGED tx_queue
        \/ tx_queue' = <<Packet("puback", 0, pending_pubacks)>> \o tx_queue
    BY <1>28 DEF EndRead
  <2>4. QED
    BY <2>1, <2>2, <2>3, BooksEnqueue, BooksKept
<1>29. CASE DrainPartial
  <2>1. Quiet /\ UNCHANGED tx_queue /\ partial_send' \in {partial_send, None}
    BY <1>29 DEF DrainPartial
  <2>2. /\ Items(tx_queue') \subseteq Items(tx_queue) /\ Own' \subseteq Own
        /\ Paired(tx_queue')
    BY <2>1 DEF Own, Books
  <2>3. QED
    BY <2>1, <2>2, BooksFewer
<1>30. ASSUME NEW n \in 0..Len(tx_queue), Drain(n) PROVE Books'
  BY <1>30, DrainBooks
<1>31. ASSUME NEW n \in 0..Len(tx_queue), DrainFails(n) PROVE Books'
  BY <1>31, DrainFailsBooks
<1>32. CASE Connect
  <2>1. /\ Packet("connect", 0, None) \in OutPackets
        /\ Packet("connect", 0, None).kind \notin {"publish", "callback"}
    BY PacketType, IdsType, ArgTypes DEF OutKinds, Packet
  <2>2. Quiet /\ UNCHANGED partial_send
    BY <1>32 DEF Connect
  <2>3. UNCHANGED tx_queue \/ tx_queue' = Append(tx_queue, Packet("connect", 0, None))
    BY <1>32 DEF Connect
  <2>4. QED
    BY <2>1, <2>2, <2>3, BooksEnqueue, BooksKept
<1>33. CASE Disconnect
  <2>1. UNCHANGED in_flight /\ pre_connect_queue' = <<>> /\ ResetTransientState
    BY <1>33 DEF Disconnect
  <2>2. status' = [m \in Publications |-> IF m \in Waiting THEN "dropped" ELSE status[m]]
    <3>1. {pre_connect_queue[i] : i \in DOMAIN pre_connect_queue} = Waiting
      BY LenProperties DEF Waiting, Items, TypeOK
    <3>2. QED
      BY <1>33, <3>1 DEF Disconnect, Drop
  <2>3. Waiting' = {} /\ WaitingOnce'
    BY <2>1 DEF Waiting, Items, WaitingOnce
  <2>4. \A i \in InFlightIds' :
          i \in InFlightIds /\ in_flight'[i] = in_flight[i] /\ in_flight[i].msg \notin Waiting
    BY <2>1 DEF InFlightIds, Books, OneHome, InFlightMsgs
  <2>5. QED
    BY <2>1, <2>2, <2>3, <2>4, BooksReset
<1>34. CASE Hold
  BY <1>34, BooksKept DEF Hold
<1>35. CASE IoError
  BY <1>35, BooksKept DEF IoError
<1>36. ASSUME NEW m \in Publications, Publish(m) PROVE Books'
  BY <1>36, PublishBooks
<1>37. ASSUME NEW t \in Topics, Subscribe(t) \/ Unsubscribe(t) PROVE Books'
  <2>1. PICK kind \in {"subscribe", "unsubscribe"}, ack \in {"suback", "unsuback"},
             entry \in {"armed", "absent"} : Declare(kind, ack, t, entry)
    BY <1>37 DEF Subscribe, Unsubscribe
  <2>2. Quiet /\ UNCHANGED partial_send
    BY <2>1 DEF Declare
  <2>3. UNCHANGED tx_queue \/ \E i \in Ids : tx_queue' = Append(tx_queue, Packet(kind, i, t))
    BY <2>1 DEF Declare
  <2>4. \A i \in Ids : /\ Packet(kind, i, t) \in OutPackets
                       /\ Packet(kind, i, t).kind \notin {"publish", "callback"}
    BY PacketType, IdsType, ArgTypes DEF OutKinds, Packet
  <2>5. QED
    BY <2>2, <2>3, <2>4, BooksEnqueue, BooksKept
<1>38. CASE Peer
  BY <1>38, BooksKept DEF Peer
<1>39. CASE UNCHANGED vars
  BY <1>39, BooksKept DEF vars
<1>40. QED
  BY <1>1, <1>2, <1>3, <1>4, <1>5, <1>6, <1>7, <1>8, <1>9, <1>10, <1>11, <1>12,
     <1>13, <1>14, <1>15, <1>16, <1>17, <1>18, <1>19, <1>20, <1>21, <1>22, <1>23, <1>24,
     <1>25, <1>26, <1>27, <1>28, <1>29, <1>30, <1>31, <1>32, <1>33, <1>34, <1>35, <1>36,
     <1>37, <1>38, <1>39
     DEF Next, Handle, Transport, Deadlines, Receive, Send, Api

LEMMA BooksInit == Init => Books
<1> SUFFICES ASSUME Init PROVE Books
  OBVIOUS
<1>1. Items(<<>>) = {} /\ Paired(<<>>)
  BY DEF Items, Paired
<1>2. tx_queue = <<>> /\ partial_send = None /\ pre_connect_queue = <<>>
  BY DEF Init
<1>3. Own = {} /\ Waiting = {} /\ Items(tx_queue) = {} /\ Paired(tx_queue)
  BY <1>1, <1>2 DEF Own, Waiting
<1>4. InFlightIds = {} /\ InFlightMsgs = {}
  BY DEF Init, InFlightIds, InFlightMsgs
<1>5. WaitingOnce
  BY <1>2 DEF WaitingOnce
<1>6. QED
  BY <1>3, <1>4, <1>5
     DEF Books, InFlightKept, InFlightOnce, WaitingKept, OneHome,
         MarkersOfEvents, Unused, AckedSent

(* A publication is in one place at most and known as accepted there; a     *)
(* callback follows its packet and comes after it in the queue.             *)
THEOREM BooksCorrect == Spec => []Books
<1>1. QED
  BY BooksInit, BooksNext, TypeInit, TypeNext, PTL DEF Spec

-----------------------------------------------------------------------------
(* A QoS 1 publication that was accepted is waiting or in flight.           *)
Kept(m) == status[m] = "accepted" => m \in InFlightMsgs \/ m \in Waiting

(* The one step that loses an accepted publication: _drain_pre_connect_queue*)
(* has popped it and _do_publish raises for want of room.                   *)
LEMMA KeptNext ==
  ASSUME TypeOK, Books, [Next]_vars, NEW m \in Messages, Kept(m),
         ~(DrainPreConnect /\ m = Head(pre_connect_queue) /\ ~PublishRoom(m))
  PROVE  Kept(m)'
<1> USE DEF control, outbox, ids, registry, app
<1>1. m \in Publications /\ \A x \in Publications : x \in Messages \/ x \in Events
  BY DEF Publications
<1>2. ASSUME UNCHANGED <<in_flight, pre_connect_queue>>, status'[m] \in {status[m], "acked"}
      PROVE  Kept(m)'
  BY <1>2 DEF Kept, InFlightMsgs, InFlightIds, Waiting
<1>3. CASE SelfHeal
  <2>1. Waiting' = Waiting
    BY <1>3 DEF SelfHeal, Waiting
  <2>2. CASE CleanSession
    <3>1. status'[m] = IF m \in InFlightMsgs THEN "dropped" ELSE status[m]
      BY <1>1, <1>3, <2>2 DEF SelfHeal, Drop
    <3>2. QED
      BY <2>1, <3>1 DEF Kept
  <2>3. CASE ~CleanSession
    <3>1. UNCHANGED <<in_flight, status>>
      BY <1>3, <2>3 DEF SelfHeal
    <3>2. QED
      BY <2>1, <3>1 DEF Kept, InFlightMsgs, InFlightIds
  <2>4. QED
    BY <2>2, <2>3
<1>4. ASSUME NEW i \in Ids, Retransmit(i) PROVE Kept(m)'
  <2>1. [msg |-> in_flight[i].msg, retries |-> in_flight[i].retries + 1] \in InFlightRecords
    <3>1. /\ in_flight[i].retries \in 0..RetryMax /\ RetryMax \in Nat
          /\ in_flight[i].msg \in Messages
      BY <1>4, InFlightType, ClientAssumption DEF Retransmit, ClientAssumption
    <3>2. QED
      BY <1>4, <3>1 DEF Retransmit, InFlightRecords
  <2>2. in_flight' = [in_flight EXCEPT ![i] =
                   [msg |-> in_flight[i].msg, retries |-> in_flight[i].retries + 1]]
    BY <1>4 DEF Retransmit
  <2>3. \A j \in Ids : in_flight[j] # None =>
          in_flight'[j] # None /\ in_flight'[j].msg = in_flight[j].msg
    BY <1>4, <2>1, <2>2, NoneAssumption DEF TypeOK, Retransmit
  <2>4. InFlightMsgs \subseteq InFlightMsgs'
    BY <2>3 DEF InFlightMsgs, InFlightIds
  <2>5. UNCHANGED <<status, pre_connect_queue>>
    BY <1>4 DEF Retransmit
  <2>6. QED
    BY <2>4, <2>5 DEF Kept, Waiting
<1>5. ASSUME NEW i \in Ids, in_flight' = [in_flight EXCEPT ![i] = None],
             in_flight[i] # None, UNCHANGED pre_connect_queue,
             status'[in_flight[i].msg] # "accepted",
             \A x \in Messages \ {in_flight[i].msg} : status'[x] = status[x]
      PROVE  Kept(m)'
  <2>1. CASE m = in_flight[i].msg
    BY <1>5, <2>1 DEF Kept
  <2>2. CASE m # in_flight[i].msg
    <3>1. \A j \in Ids \ {i} : in_flight'[j] = in_flight[j]
      BY <1>5 DEF TypeOK
    <3>2. m \in InFlightMsgs => m \in InFlightMsgs'
      BY <2>2, <3>1 DEF InFlightMsgs, InFlightIds
    <3>3. QED
      BY <1>5, <2>2, <3>2 DEF Kept, Waiting
  <2>3. QED
    BY <2>1, <2>2
<1>6. ASSUME NEW i \in Ids, RetriesExhausted(i) PROVE Kept(m)'
  <2>1. in_flight[i].msg \in Messages /\ Messages \subseteq Publications
    BY <1>6, InFlightType DEF RetriesExhausted, Publications
  <2>2. QED
    BY <1>5, <1>6, <2>1 DEF RetriesExhausted, Drop
<1>7. CASE ReceivePubAck
  <2>1. PICK i : i = Head(to_client).id
    OBVIOUS
  <2>2. CASE i \notin InFlightIds /\ UNCHANGED <<in_flight, status>>
    BY <1>2, <1>7, <2>2 DEF ReceivePubAck
  <2>3. CASE /\ i \in InFlightIds
             /\ in_flight' = [in_flight EXCEPT ![i] = None]
             /\ status' = [status EXCEPT ![in_flight[i].msg] = "acked"]
    <3>1. i \in Ids /\ in_flight[i] # None /\ in_flight[i].msg \in Messages
      BY <2>3, InFlightType DEF InFlightIds
    <3>2. /\ status'[in_flight[i].msg] # "accepted" /\ UNCHANGED pre_connect_queue
          /\ \A x \in Messages \ {in_flight[i].msg} : status'[x] = status[x]
      BY <1>7, <2>3, <3>1 DEF TypeOK, Publications, ReceivePubAck
    <3>3. QED
      BY <1>5, <2>3, <3>1, <3>2
  <2>4. QED
    BY <1>7, <2>1, <2>2, <2>3 DEF ReceivePubAck
<1>8. ASSUME NEW x \in Messages, DoPublish(x)
      PROVE  InFlightMsgs \cup {x} \subseteq InFlightMsgs'
  <2>1. PICK i \in Ids :
          IsNextFree(i) /\ in_flight' = [in_flight EXCEPT ![i] = [msg |-> x, retries |-> 0]]
    BY <1>8, ClientAssumption DEF DoPublish, ClientAssumption
  <2>2. [msg |-> x, retries |-> 0] \in InFlightRecords
    BY ClientAssumption DEF ClientAssumption, InFlightRecords
  <2>3. \A j \in Ids : in_flight'[j] = IF j = i THEN [msg |-> x, retries |-> 0]
                                                ELSE in_flight[j]
    BY <2>1 DEF TypeOK
  <2>4. in_flight[i] = None /\ in_flight'[i] # None
    BY <2>1, <2>2, <2>3, NoneAssumption DEF IsNextFree
  <2>5. QED
    BY <2>3, <2>4 DEF InFlightMsgs, InFlightIds
<1>9. CASE DrainPreConnect
  <2>1. /\ pre_connect_queue # <<>> /\ pre_connect_queue' = Tail(pre_connect_queue)
        /\ UNCHANGED status
    BY <1>9 DEF DrainPreConnect
  <2>2. PICK x : x = Head(pre_connect_queue)
    OBVIOUS
  <2>3. Waiting' = Waiting \ {x} /\ x \in Publications
    BY <2>1, <2>2, PopWaiting
  <2>4. CASE DoPublish(x)
    <3>1. InFlightMsgs \subseteq InFlightMsgs' /\ (x = m => m \in InFlightMsgs')
      <4>1. CASE x \in Messages
        BY <1>8, <2>4, <4>1
      <4>2. CASE x \notin Messages
        BY <2>4, <4>2 DEF DoPublish, InFlightMsgs, InFlightIds
      <4>3. QED
        BY <4>1, <4>2
    <3>2. QED
      BY <2>1, <2>3, <3>1 DEF Kept
  <2>5. CASE DoPublishRaises(x)
    <3>1. UNCHANGED in_flight /\ x # m
      BY <1>9, <2>2, <2>5 DEF DoPublishRaises
    <3>2. QED
      BY <2>1, <2>3, <3>1 DEF Kept, InFlightMsgs, InFlightIds
  <2>6. QED
    BY <1>9, <2>2, <2>4, <2>5 DEF DrainPreConnect
<1>10. CASE Disconnect
  <2>1. UNCHANGED in_flight
    BY <1>10 DEF Disconnect
  <2>2. {pre_connect_queue[i] : i \in DOMAIN pre_connect_queue} = Waiting
    BY LenProperties DEF Waiting, Items, TypeOK
  <2>3. status'[m] = IF m \in Waiting THEN "dropped" ELSE status[m]
    BY <1>1, <1>10, <2>2 DEF Disconnect, Drop
  <2>4. QED
    BY <2>1, <2>3 DEF Kept, InFlightMsgs, InFlightIds
<1>11. ASSUME NEW x \in Publications, Publish(x) PROVE Kept(m)'
  <2>1. CASE UNCHANGED <<status, pre_connect_queue>> /\ DoPublishRaises(x)
    BY <1>2, <2>1 DEF DoPublishRaises
  <2>2. CASE /\ DoPublish(x) /\ status' = [status EXCEPT ![x] = "accepted"]
             /\ UNCHANGED pre_connect_queue
    <3>1. InFlightMsgs \subseteq InFlightMsgs' /\ (x = m => m \in InFlightMsgs')
      <4>1. CASE x \in Messages
        BY <1>8, <2>2, <4>1
      <4>2. CASE x \notin Messages
        BY <2>2, <4>2 DEF DoPublish, InFlightMsgs, InFlightIds
      <4>3. QED
        BY <4>1, <4>2
    <3>2. x # m => status'[m] = status[m]
      BY <1>1, <2>2 DEF TypeOK
    <3>3. QED
      BY <2>2, <3>1, <3>2 DEF Kept, Waiting
  <2>3. CASE /\ pre_connect_queue' = Append(pre_connect_queue, x) /\ UNCHANGED in_flight
             /\ status' = [status EXCEPT ![x] = "accepted"]
    <3>1. Waiting' = Waiting \cup {x}
      BY <2>3, ItemsAppend DEF TypeOK, Waiting
    <3>2. x # m => status'[m] = status[m]
      BY <1>1, <2>3 DEF TypeOK
    <3>3. QED
      BY <2>3, <3>1, <3>2 DEF Kept, InFlightMsgs, InFlightIds
  <2>4. QED
    BY <1>11, <2>1, <2>2, <2>3 DEF Publish
<1>12. CASE TransportLost \/ TransportPending \/ TransportReady
  BY <1>2, <1>12 DEF TransportLost, TransportPending, TransportReady
<1>13. CASE \/ Begin \/ SendTimeout \/ DeadlinesDone \/ SendPing \/ NoPing
            \/ \E p \in pending_responses : AckTimeout(p)
  BY <1>2, <1>13 DEF Begin, SendTimeout, DeadlinesDone, SendPing, NoPing, AckTimeout
<1>14. CASE \/ ReadSuppressed \/ ReadFails \/ ReceivePublish \/ ReceiveTooLarge
            \/ ReceiveRefusal \/ ReceiveAccept \/ OnConnect
            \/ \E t \in Topics : ReplaySubscription(t)
  BY <1>2, <1>14 DEF ReadSuppressed, ReadFails, ReceivePublish, ReceiveTooLarge,
       ReceiveRefusal, ReceiveAccept, OnConnect, ReplaySubscription
<1>15. CASE \/ ReceiveSubAck \/ ReceiveRejection \/ ReceiveUnsubAck
            \/ ReceiveUnexpectedAck \/ ReceivePingResp \/ EndRead
  BY <1>2, <1>15 DEF ReceiveSubAck, ReceiveRejection, ReceiveUnsubAck,
       ReceiveUnexpectedAck, ReceivePingResp, EndRead
<1>16. ASSUME NEW S, Acknowledge(S) PROVE status'[m] \in {status[m], "acked"}
  BY <1>1, <1>16 DEF Acknowledge
<1>17. CASE Send
  <2>1. CASE DrainPartial
    BY <1>2, <2>1 DEF DrainPartial
  <2>2. ASSUME NEW n \in 0..Len(tx_queue), Drain(n) PROVE Kept(m)'
    BY <1>2, <1>16, <2>2 DEF Drain
  <2>3. ASSUME NEW n \in 0..Len(tx_queue), DrainFails(n) PROVE Kept(m)'
    BY <1>2, <1>16, <2>3 DEF DrainFails
  <2>4. QED
    BY <1>17, <2>1, <2>2, <2>3 DEF Send
<1>18. CASE \/ Connect \/ Hold \/ IoError \/ \E t \in Topics : Subscribe(t) \/ Unsubscribe(t)
  BY <1>2, <1>18 DEF Connect, Hold, IoError, Subscribe, Unsubscribe, Declare
<1>19. CASE Peer \/ UNCHANGED vars
  BY <1>2, <1>19 DEF Peer, vars
<1>20. QED
  BY <1>3, <1>4, <1>6, <1>7, <1>9, <1>10, <1>11, <1>12, <1>13, <1>14, <1>15, <1>17,
     <1>18, <1>19
     DEF Next, Handle, Transport, Deadlines, Receive, Api

(* With when_disconnected="raise" nothing ever waits for a connection.      *)
LEMMA NothingWaits ==
  ASSUME PreConnectCap = 0
  PROVE  TypeOK /\ pre_connect_queue = <<>> /\ [Next]_vars => pre_connect_queue' = <<>>
<1> SUFFICES ASSUME TypeOK, pre_connect_queue = <<>>, [Next]_vars
             PROVE  pre_connect_queue' = <<>>
  OBVIOUS
<1>1. ASSUME NEW x \in Publications, Publish(x) PROVE pre_connect_queue' = <<>>
  <2>1. Len(pre_connect_queue) \in Nat
    BY LenProperties DEF TypeOK
  <2>2. QED
    BY <1>1, <2>1 DEF Publish
<1>2. CASE Transport \/ Deadlines \/ Send
  BY <1>2 DEF Transport, SelfHeal, TransportLost, TransportPending, TransportReady, registry,
       Deadlines, Begin, SendTimeout, DeadlinesDone, SendPing, NoPing, AckTimeout, Retransmit,
       RetriesExhausted, Send, DrainPartial, Drain, DrainFails
<1>3. CASE Receive
  BY <1>3 DEF Receive, ReadSuppressed, ReadFails, ReceivePublish, ReceiveTooLarge,
       ReceiveRefusal, ReceiveAccept, OnConnect, ReplaySubscription, ReceivePubAck,
       ReceiveSubAck, ReceiveRejection, ReceiveUnsubAck, DrainPreConnect,
       ReceiveUnexpectedAck, ReceivePingResp, EndRead, registry
<1>4. CASE \/ Connect \/ Disconnect \/ Hold \/ IoError
           \/ \E t \in Topics : Subscribe(t) \/ Unsubscribe(t)
  BY <1>4 DEF Connect, Disconnect, Hold, IoError, Subscribe, Unsubscribe, Declare, registry
<1>5. CASE Peer \/ UNCHANGED vars
  BY <1>5 DEF Peer, vars, registry
<1>6. QED
  BY <1>1, <1>2, <1>3, <1>4, <1>5 DEF Next, Handle, Api

(* ... so that none is ever lost.                                           *)
THEOREM NothingLost ==
  ASSUME PreConnectCap = 0
  PROVE  Spec => [](pre_connect_queue = <<>> /\ \A m \in Messages : Kept(m))
<1> DEFINE I == pre_connect_queue = <<>> /\ \A m \in Messages : Kept(m)
<1>1. Init => I
  BY DEF Init, Kept, Publications
<1>2. TypeOK /\ Books /\ I /\ [Next]_vars => I'
  <2> SUFFICES ASSUME TypeOK, Books, I, [Next]_vars PROVE I'
    OBVIOUS
  <2>1. ~DrainPreConnect
    BY DEF DrainPreConnect
  <2>2. \A m \in Messages : Kept(m)'
    BY <2>1, KeptNext
  <2>3. QED
    BY <2>2, NothingWaits
<1>3. QED
  BY <1>1, <1>2, BooksCorrect, TypeCorrect, PTL DEF Spec
=============================================================================

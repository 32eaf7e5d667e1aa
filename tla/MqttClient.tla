----------------------------- MODULE MqttClient -----------------------------
(***************************************************************************)
(* The MQTT 3.1.1 client of chumicro_mqtt/client.py (class MQTTClient):    *)
(* its connection life cycle, the outbound queue, QoS 1 retransmission,    *)
(* packet ids, subscriptions and keepalive.                                *)
(*                                                                         *)
(* handle(now_ms) runs to completion, but it is a sequence of phases       *)
(* between which the peer and the link move; pc names the phase:           *)
(*                                                                         *)
(*   idle -> transport -> deadlines -> keepalive -> recv -> dispatch       *)
(*        -> replay (inside a CONNACK) -> drain -> idle                    *)
(*                                                                         *)
(* The application calls the API only while handle is not running          *)
(* ("idle") or from the callback of a packet just dispatched ("dispatch"). *)
(* A deadline is modelled by the choice of its having passed when a phase  *)
(* looks at it: any armed deadline may have.                               *)
(***************************************************************************)
EXTENDS Naturals, Sequences, FiniteSets

CONSTANTS
  Messages,         \* QoS 1 publications of the application
  Events,           \* QoS 0 publications with an on_publish callback
  Topics,           \* topics it subscribes to
  Inbound,          \* QoS 1 publications the broker has for this client
  Oversized,        \* those of them larger than rx_buffer_size
  OversizedPolicy,  \* _when_oversized: "drop" or "disconnect"
  CleanSession,     \* _clean_session
  HasFactory,       \* _transport_factory is not None
  StartsWithSocket, \* the constructor was given a connected socket
  KeepAlive,        \* _keepalive_enabled
  MaxTx,            \* _max_tx_queue_size
  Headroom,         \* the 64 slots above it for internal traffic
  PreConnectCap,    \* _pre_connect_queue_size, 0 for when_disconnected="raise"
  MaxPacketId,      \* 65535 in the code
  RetryMax,         \* _publish_retry_max
  BackoffSteps,     \* doublings of the self-heal delay before its cap: 6
  SendResults,      \* what one socket.send may take: "none", "part", "all"
  WireCap,          \* packets a socket buffer holds
  None              \* Python's None

ASSUME ClientAssumption ==
  /\ Oversized \subseteq Inbound
  /\ OversizedPolicy \in {"drop", "disconnect"}
  /\ {CleanSession, HasFactory, StartsWithSocket, KeepAlive} \subseteq BOOLEAN
  /\ MaxTx \in Nat \ {0}
  /\ MaxPacketId \in Nat \ {0}
  /\ {Headroom, PreConnectCap, RetryMax, BackoffSteps, WireCap} \subseteq Nat
  /\ SendResults \subseteq {"none", "part", "all"}
  /\ None \notin Messages \cup Events \cup Topics \cup Inbound
  /\ Messages \cap Events = {}
  /\ IsFiniteSet(Messages) /\ Cardinality(Messages) < MaxPacketId

VARIABLES
  pc,                     \* phase of handle()
  scan,                   \* in-flight ids _check_deadlines has yet to examine
  todo,                   \* topics _replay_subscriptions has yet to send
  state,                  \* ProtocolState
  socket,                 \* _socket is not None
  connector,              \* _connector is not None
  transport_armed,        \* _transport_deadline_ticks is not None
  user_wants_connected, permanent_failure, reconnect_held,
  self_heal_attempts,
  tx_queue, partial_send, puback_batch_queued,
  send_armed,             \* _send_deadline_ticks is not None
  pending_pubacks,        \* inbound messages whose PUBACK awaits batching
  in_flight,              \* packet id -> publication and retry_count, or None
  next_packet_id,
  pending_responses,      \* the acks awaited
  subscriptions,          \* topic -> "absent", "armed" (callback due), "fired"
  pre_connect_queue,
  told,                   \* the last of on_connect / on_disconnect: "up", "down"
  status,                 \* what the application knows of each publication
  delivered,              \* inbound messages passed to on_message
  link,                   \* the transport still carries bytes
  to_broker, to_client    \* the two byte streams, as packets

control   == <<pc, scan, todo>>
intent    == <<user_wants_connected, permanent_failure, reconnect_held,
               self_heal_attempts>>
transport == <<socket, connector, transport_armed>>
outbox    == <<tx_queue, partial_send, puback_batch_queued, send_armed>>
ids       == <<in_flight, next_packet_id>>
registry  == <<pending_responses, subscriptions, pre_connect_queue>>
app       == <<told, status, delivered>>
wire      == <<link, to_broker, to_client>>

vars == <<control, state, transport, intent, outbox, pending_pubacks, ids,
          registry, app, wire>>

States == {"disconnected", "awaiting", "connecting", "connected", "failed"}
Phases == {"idle", "transport", "deadlines", "keepalive", "recv", "dispatch",
           "replay", "drain"}
Publications == Messages \cup Events
Ids    == 1..MaxPacketId
HardCap == MaxTx + Headroom

-----------------------------------------------------------------------------
(* Packets.  An id is 0 and an argument None where the kind has none; the   *)
(* two entries that are not one packet are a PUBACK batch, whose argument   *)
(* is a set, and the "__qos0_callback__" marker, which is never sent.       *)

Packet(kind, id, arg) == [kind |-> kind, id |-> id, arg |-> arg]

OutKinds == {"connect", "publish", "subscribe", "unsubscribe", "pingreq",
             "puback", "callback", "disconnect"}
InKinds  == {"accepted", "resumed", "refused", "banned", "publish", "puback",
             "suback", "rejected", "unsuback", "pingresp"}
OutArgs  == Publications \cup Topics \cup {None} \cup SUBSET Inbound
OutPackets == [kind : OutKinds, id : 0..MaxPacketId, arg : OutArgs]
InPackets  == [kind : InKinds, id : 0..MaxPacketId, arg : Inbound \cup {None}]

IsMarker(p) == p.kind = "callback"
IsBatch(p)  == p.kind = "puback"

Await(kind, id, topic) == [awaiting |-> kind, id |-> id, topic |-> topic]
Awaits == [awaiting : {"connack", "pingresp", "suback", "unsuback"},
           id : 0..MaxPacketId, topic : Topics \cup {None}]

InFlightRecords == [msg : Messages, retries : 0..RetryMax]

(* No packet and no entry of the in-flight table is Python's None.          *)
ASSUME NoneAssumption == None \notin OutPackets /\ None \notin InFlightRecords

InFlightIds  == {i \in Ids : in_flight[i] # None}
InFlightMsgs == {in_flight[i].msg : i \in InFlightIds}
Awaiting(kind) == {p \in pending_responses : p.awaiting = kind}

-----------------------------------------------------------------------------
(* _allocate_packet_id: the first id from _next_packet_id on, cyclically,   *)
(* that is not in flight.                                                   *)
Ahead(i) == (i + MaxPacketId - next_packet_id) % MaxPacketId
IsNextFree(i) == /\ in_flight[i] = None
                 /\ \A j \in Ids : in_flight[j] = None => Ahead(i) <= Ahead(j)
After_NoWrap(i) == i + 1
After(i) == (i % MaxPacketId) + 1

(* The id is taken before the packet is refused: the counter moves on.      *)
BurnId == \E i \in Ids : IsNextFree(i) /\ next_packet_id' = After(i)

(* _enqueue_user_tx raises when the items do not fit under the user cap.    *)
UserRoom(n) == Len(tx_queue) + n <= MaxTx
(* _enqueue_internal_tx returns False at the hard cap.                      *)
InternalRoom_OffByOne == Len(tx_queue) <= HardCap
InternalRoom == Len(tx_queue) < HardCap

RecvSuppressed_PartialOnly == partial_send # None
RecvSuppressed == puback_batch_queued \/ partial_send # None

SelfHealActive_IgnoresHold ==
  HasFactory /\ user_wants_connected /\ ~permanent_failure
SelfHealActive == /\ HasFactory
                  /\ user_wants_connected
                  /\ ~permanent_failure
                  /\ ~reconnect_held

(* _enter_failed: on_disconnect fires only if the client was connected.     *)
EnterFailed_Silent == state' = "failed" /\ UNCHANGED told
EnterFailed == /\ state' = "failed"
               /\ told' = IF state = "connected" THEN "down" ELSE told

(* _reset_transient_state, with the peer's bytes lost to the new decoder.   *)
ResetTransientState_KeepsQueue ==
  /\ UNCHANGED tx_queue
  /\ partial_send' = None
  /\ puback_batch_queued' = FALSE
  /\ send_armed' = FALSE
  /\ pending_responses' = {}
ResetTransientState ==
  /\ tx_queue' = <<>>
  /\ partial_send' = None
  /\ puback_batch_queued' = FALSE
  /\ send_armed' = FALSE
  /\ pending_responses' = {}

(* The messages of S are given up: no callback will ever report them.       *)
Drop_AsAcked(S) == status' = [m \in Publications |->
                               IF m \in S THEN "acked" ELSE status[m]]
Drop(S) == status' = [m \in Publications |->
                        IF m \in S THEN "dropped" ELSE status[m]]

(* handle() enters its common phases; dict order is arbitrary on the        *)
(* boards, so the in-flight entries are examined in any order.              *)
EnterDeadlines_SkipsInFlight == pc' = "deadlines" /\ scan' = {}
EnterDeadlines == pc' = "deadlines" /\ scan' = InFlightIds

-----------------------------------------------------------------------------
(* _arm_self_heal_backoff counts the attempts up to the longest delay.      *)
ArmSelfHealBackoff_GivesUp == /\ self_heal_attempts < BackoffSteps
                              /\ self_heal_attempts' = self_heal_attempts + 1
ArmSelfHealBackoff ==
  self_heal_attempts' = IF self_heal_attempts < BackoffSteps
                          THEN self_heal_attempts + 1 ELSE self_heal_attempts

(* handle(): a failed client with self-heal active, its backoff over.       *)
SelfHeal ==
  /\ pc = "idle" /\ state = "failed" /\ SelfHealActive
  /\ ArmSelfHealBackoff
  /\ socket' = FALSE
  /\ ResetTransientState
  /\ IF CleanSession
       THEN /\ in_flight' = [i \in Ids |-> None]
            /\ next_packet_id' = 1
            /\ Drop(InFlightMsgs)
       ELSE UNCHANGED <<ids, status>>
  /\ link' = FALSE /\ to_client' = <<>>
  /\ \/ /\ connector' = TRUE /\ transport_armed' = TRUE
        /\ state' = "awaiting" /\ pc' = "transport"
     \/ /\ transport_armed' = FALSE               \* the factory raised
        /\ UNCHANGED <<connector, state, pc>>
  /\ UNCHANGED <<scan, todo, user_wants_connected, permanent_failure,
                 reconnect_held, pending_pubacks, subscriptions,
                 pre_connect_queue, told, delivered, to_broker>>

(* _check_transport_deadline and the "failed" branch of _advance_connector: *)
(* both give the connector up.                                              *)
TransportLost ==
  /\ pc \in {"idle", "transport"} /\ state = "awaiting"
  /\ connector' = FALSE /\ transport_armed' = FALSE
  /\ EnterFailed
  /\ pc' = "idle"
  /\ UNCHANGED <<scan, todo, socket, intent, outbox, pending_pubacks, ids,
                 registry, status, delivered, wire>>

(* _advance_connector: the connector needs more ticks.                      *)
TransportPending ==
  /\ pc = "transport"
  /\ pc' = "idle"
  /\ UNCHANGED <<scan, todo, state, transport, intent, outbox,
                 pending_pubacks, ids, registry, app, wire>>

(* _advance_connector: ready.  The socket is adopted, CONNECT queued.       *)
TransportReady ==
  /\ pc \in {"idle", "transport"} /\ state = "awaiting" /\ connector
  /\ socket' = TRUE /\ connector' = FALSE /\ transport_armed' = FALSE
  /\ UserRoom(1)
  /\ tx_queue' = Append(tx_queue, Packet("connect", 0, None))
  /\ pending_responses' = pending_responses \cup {Await("connack", 0, None)}
  /\ state' = "connecting"
  /\ link' = TRUE /\ to_broker' = <<>> /\ to_client' = <<>>
  /\ EnterDeadlines
  /\ UNCHANGED <<todo, intent, partial_send, puback_batch_queued, send_armed,
                 pending_pubacks, ids, subscriptions, pre_connect_queue, app>>

Begin ==
  /\ pc = "idle" /\ state \in {"connecting", "connected"}
  /\ EnterDeadlines
  /\ UNCHANGED <<todo, state, transport, intent, outbox, pending_pubacks,
                 ids, registry, app, wire>>

-----------------------------------------------------------------------------
(* _check_deadlines: an unacknowledged publication is sent again ...        *)
Retransmit(i) ==
  /\ pc = "deadlines" /\ i \in scan
  /\ in_flight[i] # None /\ in_flight[i].retries < RetryMax
  /\ InternalRoom
  /\ tx_queue' = Append(tx_queue, Packet("publish", i, in_flight[i].msg))
  /\ in_flight' = [in_flight EXCEPT ![i] =
                     [msg |-> in_flight[i].msg,
                      retries |-> in_flight[i].retries + 1]]
  /\ scan' = scan \ {i}
  /\ UNCHANGED <<pc, todo, state, transport, intent, partial_send,
                 puback_batch_queued, send_armed, pending_pubacks,
                 next_packet_id, registry, app, wire>>

(* ... and given up once retry_count reaches publish_retry_max.             *)
RetriesExhausted(i) ==
  /\ pc = "deadlines" /\ i \in scan
  /\ in_flight[i] # None /\ in_flight[i].retries >= RetryMax
  /\ in_flight' = [in_flight EXCEPT ![i] = None]
  /\ Drop({in_flight[i].msg})
  /\ EnterFailed
  /\ pc' = "keepalive" /\ scan' = {}
  /\ UNCHANGED <<todo, transport, intent, outbox, pending_pubacks,
                 next_packet_id, registry, delivered, wire>>

(* An awaited ack timed out.                                                *)
AckTimeout(p) ==
  /\ pc = "deadlines" /\ p \in pending_responses
  /\ pending_responses' = pending_responses \ {p}
  /\ EnterFailed
  /\ pc' = "keepalive" /\ scan' = {}
  /\ UNCHANGED <<todo, transport, intent, outbox, pending_pubacks, ids,
                 subscriptions, pre_connect_queue, status, delivered, wire>>

(* The send deadline passed.                                                *)
SendTimeout ==
  /\ pc = "deadlines" /\ send_armed
  /\ EnterFailed
  /\ pc' = "keepalive" /\ scan' = {}
  /\ UNCHANGED <<todo, transport, intent, outbox, pending_pubacks, ids,
                 registry, status, delivered, wire>>

(* No deadline (any more) has passed.                                       *)
DeadlinesDone ==
  /\ pc = "deadlines"
  /\ pc' = "keepalive" /\ scan' = {}
  /\ UNCHANGED <<todo, state, transport, intent, outbox, pending_pubacks,
                 ids, registry, app, wire>>

(* _check_keepalive: a PINGREQ when one is due, none is outstanding and the *)
(* queue has room; then _read_inbound starts with an empty PUBACK list.     *)
PingDue_Unchecked == state = "connected" /\ KeepAlive
PingDue == state = "connected" /\ KeepAlive /\ Awaiting("pingresp") = {}

SendPing ==
  /\ pc = "keepalive" /\ PingDue /\ InternalRoom
  /\ tx_queue' = Append(tx_queue, Packet("pingreq", 0, None))
  /\ pending_responses' = pending_responses \cup {Await("pingresp", 0, None)}
  /\ pc' = "recv" /\ pending_pubacks' = {}
  /\ UNCHANGED <<scan, todo, state, transport, intent, partial_send,
                 puback_batch_queued, send_armed, ids, subscriptions,
                 pre_connect_queue, app, wire>>

NoPing ==
  /\ pc = "keepalive"
  /\ pc' = "recv" /\ pending_pubacks' = {}
  /\ UNCHANGED <<scan, todo, state, transport, intent, outbox, ids, registry,
                 app, wire>>

-----------------------------------------------------------------------------
(* _read_inbound: the next decoded packet, of one of the given kinds.       *)
Incoming(kinds) ==
  /\ pc \in {"recv", "dispatch"} /\ ~RecvSuppressed
  /\ to_client # <<>> /\ Head(to_client).kind \in kinds
  /\ to_client' = Tail(to_client)
  /\ UNCHANGED <<link, to_broker>>

(* The loop goes on only while the client is connected.                     *)
ContinueReading == pc' = IF state = "connected" THEN "dispatch" ELSE "drain"

(* An exception leaves handle() through its except clauses.                 *)
Abort == EnterFailed /\ pc' = "idle"

ReadSuppressed ==
  /\ pc = "recv" /\ RecvSuppressed
  /\ pc' = "drain"
  /\ UNCHANGED <<scan, todo, state, transport, intent, outbox,
                 pending_pubacks, ids, registry, app, wire>>

(* recv_into returns 0 or raises: the broker or the network closed.         *)
ReadFails ==
  /\ pc = "recv" /\ ~RecvSuppressed /\ ~link
  /\ Abort
  /\ UNCHANGED <<scan, todo, transport, intent, outbox, pending_pubacks, ids,
                 registry, status, delivered, wire>>

(* _handle_inbound_publish, and _handle_oversized when it only drops.       *)
ReceivePublish ==
  /\ Incoming({"publish"})
  /\ LET m == Head(to_client).arg IN
       /\ m \in Oversized => OversizedPolicy = "drop"
       /\ delivered' = IF m \in Oversized THEN delivered ELSE delivered \cup {m}
       /\ pending_pubacks' = pending_pubacks \cup {m}
  /\ ContinueReading
  /\ UNCHANGED <<scan, todo, state, transport, intent, outbox, ids, registry,
                 told, status>>

ReceiveTooLarge ==
  /\ Incoming({"publish"})
  /\ Head(to_client).arg \in Oversized /\ OversizedPolicy = "disconnect"
  /\ Abort
  /\ UNCHANGED <<scan, todo, transport, intent, outbox, pending_pubacks, ids,
                 registry, status, delivered>>

(* _handle_connack, refused: return codes 1, 2, 4 and 5 are permanent.      *)
ReceiveRefusal ==
  /\ Incoming({"refused", "banned"})
  /\ pending_responses' = pending_responses \ Awaiting("connack")
  /\ permanent_failure' = (permanent_failure \/ Head(to_client).kind = "banned")
  /\ EnterFailed
  /\ pc' = "drain"
  /\ UNCHANGED <<scan, todo, transport, user_wants_connected, reconnect_held,
                 self_heal_attempts, outbox, pending_pubacks, ids,
                 subscriptions, pre_connect_queue, status, delivered>>

(* Every declared topic is subscribed again, unless the broker resumed a    *)
(* persistent session.                                                      *)
ToReplay_OnlyUnconfirmed == {t \in Topics : subscriptions[t] = "armed"}
ToReplay == IF CleanSession \/ Head(to_client).kind = "accepted"
              THEN {t \in Topics : subscriptions[t] # "absent"} ELSE {}

(* _handle_connack, accepted.                                               *)
ReceiveAccept ==
  /\ Incoming({"accepted", "resumed"})
  /\ pending_responses' = pending_responses \ Awaiting("connack")
  /\ state' = "connected"
  /\ self_heal_attempts' = 0
  /\ todo' = ToReplay
  /\ pc' = "replay"
  /\ UNCHANGED <<scan, transport, user_wants_connected, permanent_failure,
                 reconnect_held, outbox, pending_pubacks, ids, subscriptions,
                 pre_connect_queue, app>>

(* _replay_subscriptions ignores a full queue and awaits the SUBACK anyway. *)
ReplaySubscription(t) ==
  /\ pc = "replay" /\ t \in todo
  /\ \E i \in Ids :
       /\ IsNextFree(i)
       /\ next_packet_id' = After(i)
       /\ tx_queue' = IF InternalRoom
                        THEN Append(tx_queue, Packet("subscribe", i, t))
                        ELSE tx_queue
       /\ pending_responses' = pending_responses \cup {Await("suback", i, t)}
  /\ todo' = todo \ {t}
  /\ UNCHANGED <<pc, scan, state, transport, intent, partial_send,
                 puback_batch_queued, send_armed, pending_pubacks, in_flight,
                 subscriptions, pre_connect_queue, app, wire>>

(* _do_publish, when its items fit: the packet, for QoS 0 followed by the   *)
(* marker of its callback, for QoS 1 recorded as in flight.                 *)
PublishRoom(m) == UserRoom(IF m \in Events THEN 2 ELSE 1)
WithMarker_First(m) == <<Packet("callback", 0, m), Packet("publish", 0, m)>>
WithMarker(m) == <<Packet("publish", 0, m), Packet("callback", 0, m)>>
DoPublish(m) ==
  \/ /\ m \in Events /\ PublishRoom(m)
     /\ tx_queue' = tx_queue \o WithMarker(m)
     /\ UNCHANGED ids
  \/ /\ m \in Messages /\ PublishRoom(m)
     /\ \E i \in Ids :
          /\ IsNextFree(i)
          /\ tx_queue' = Append(tx_queue, Packet("publish", i, m))
          /\ in_flight' = [in_flight EXCEPT ![i] = [msg |-> m, retries |-> 0]]
          /\ next_packet_id' = After(i)

(* _do_publish raises MQTTBackpressureError: only the id counter moved on.  *)
DoPublishRaises_KeepsInFlight(m) ==
  /\ ~PublishRoom(m) /\ m \in Messages
  /\ \E i \in Ids : /\ IsNextFree(i)
                   /\ in_flight' = [in_flight EXCEPT ![i] = [msg |-> m, retries |-> 0]]
                   /\ next_packet_id' = After(i)
  /\ UNCHANGED tx_queue
DoPublishRaises(m) ==
  /\ ~PublishRoom(m)
  /\ \/ m \in Messages /\ BurnId
     \/ m \in Events /\ UNCHANGED next_packet_id
  /\ UNCHANGED <<tx_queue, in_flight>>

(* _drain_pre_connect_queue pops a publication, then publishes it; should   *)
(* that raise, the exception fails the connection.                          *)
DrainPreConnect ==
  /\ pc = "replay" /\ todo = {} /\ pre_connect_queue # <<>>
  /\ pre_connect_queue' = Tail(pre_connect_queue)
  /\ \/ /\ DoPublish(Head(pre_connect_queue))
        /\ UNCHANGED <<pc, state, told>>
     \/ /\ DoPublishRaises(Head(pre_connect_queue))
        /\ Abort
  /\ UNCHANGED <<scan, todo, transport, intent, partial_send,
                 puback_batch_queued, send_armed, pending_pubacks,
                 pending_responses, subscriptions, status, delivered, wire>>

(* The end of _handle_connack: on_connect.                                  *)
OnConnect ==
  /\ pc = "replay" /\ todo = {} /\ pre_connect_queue = <<>>
  /\ told' = "up"
  /\ pc' = "dispatch"
  /\ UNCHANGED <<scan, todo, state, transport, intent, outbox,
                 pending_pubacks, ids, registry, status, delivered, wire>>

(* _handle_ack: a PUBACK completes the publication in flight under its id.  *)
ReceivePubAck ==
  /\ Incoming({"puback"})
  /\ LET i == Head(to_client).id IN
       \/ /\ i \in InFlightIds
          /\ in_flight' = [in_flight EXCEPT ![i] = None]
          /\ status' = [status EXCEPT ![in_flight[i].msg] = "acked"]
       \/ i \notin InFlightIds /\ UNCHANGED <<in_flight, status>>
  /\ ContinueReading
  /\ UNCHANGED <<scan, todo, state, transport, intent, outbox,
                 pending_pubacks, next_packet_id, registry, told, delivered>>

(* _handle_ack: a SUBACK fires on_subscribe, once per declaration.          *)
ReceiveSubAck ==
  /\ Incoming({"suback"})
  /\ \E p \in Awaiting("suback") :
       /\ p.id = Head(to_client).id
       /\ pending_responses' = pending_responses \ {p}
       /\ subscriptions' = [subscriptions EXCEPT
                              ![p.topic] = IF @ = "armed" THEN "fired" ELSE @]
  /\ ContinueReading
  /\ UNCHANGED <<scan, todo, state, transport, intent, outbox,
                 pending_pubacks, ids, pre_connect_queue, app>>

(* A SUBACK with code 0x80: the declaration is evicted and the error raised *)
(* with the SUBACK still awaited.                                           *)
ReceiveRejection ==
  /\ Incoming({"rejected"})
  /\ subscriptions' = [t \in Topics |->
       IF \E p \in Awaiting("suback") : p.id = Head(to_client).id /\ p.topic = t
         THEN "absent" ELSE subscriptions[t]]
  /\ Abort
  /\ UNCHANGED <<scan, todo, transport, intent, outbox, pending_pubacks, ids,
                 pending_responses, pre_connect_queue, status, delivered>>

ReceiveUnsubAck ==
  /\ Incoming({"unsuback"})
  /\ \E p \in Awaiting("unsuback") :
       /\ p.id = Head(to_client).id
       /\ pending_responses' = pending_responses \ {p}
  /\ ContinueReading
  /\ UNCHANGED <<scan, todo, state, transport, intent, outbox,
                 pending_pubacks, ids, subscriptions, pre_connect_queue, app>>

(* A SUBACK or UNSUBACK nobody awaits is a protocol error.                  *)
ReceiveUnexpectedAck ==
  /\ Incoming({"suback", "unsuback"})
  /\ \A p \in Awaiting(Head(to_client).kind) : p.id # Head(to_client).id
  /\ Abort
  /\ UNCHANGED <<scan, todo, transport, intent, outbox, pending_pubacks, ids,
                 registry, status, delivered>>

ReceivePingResp ==
  /\ Incoming({"pingresp"})
  /\ pending_responses' = pending_responses \ Awaiting("pingresp")
  /\ pc' = IF state = "connected" THEN pc ELSE "drain"
  /\ UNCHANGED <<scan, todo, state, transport, intent, outbox,
                 pending_pubacks, ids, subscriptions, pre_connect_queue, app>>

(* Nothing more to read on this tick: the PUBACKs leave as one batch at the *)
(* front of the queue, or the connection fails at the hard cap.             *)
EndRead ==
  /\ pc \in {"recv", "dispatch"} /\ ~RecvSuppressed
  /\ \/ /\ pending_pubacks = {}
        /\ pc' = "drain"
        /\ UNCHANGED <<state, told, tx_queue, puback_batch_queued>>
     \/ /\ pending_pubacks # {} /\ InternalRoom
        /\ tx_queue' = <<Packet("puback", 0, pending_pubacks)>> \o tx_queue
        /\ puback_batch_queued' = TRUE
        /\ pc' = "drain"
        /\ UNCHANGED <<state, told>>
     \/ /\ pending_pubacks # {} /\ ~InternalRoom
        /\ Abort
        /\ UNCHANGED <<tx_queue, puback_batch_queued>>
  /\ pending_pubacks' = IF pc' = "idle" THEN pending_pubacks ELSE {}
  /\ UNCHANGED <<scan, todo, transport, intent, partial_send, send_armed, ids,
                 registry, status, delivered, wire>>

-----------------------------------------------------------------------------
(* _drain_callback_markers: the n leading markers of q are popped and their *)
(* on_publish callbacks run.                                                *)
MarkerPrefix(q, n) == /\ \A i \in 1..n : IsMarker(q[i])
                      /\ n < Len(q) => ~IsMarker(q[n + 1])
Rest(q, n) == [i \in 1..(Len(q) - n) |-> q[i + n]]
Acknowledge(S) == status' = [m \in Publications |->
                               IF m \in S THEN "acked" ELSE status[m]]
MarkedIn(q, n) == {q[i].arg : i \in 1..n}

(* A completed send: the bytes reach the peer while the link holds.         *)
Sent(p) == /\ Len(to_broker) < WireCap
           /\ to_broker' = IF link THEN Append(to_broker, p) ELSE to_broker

(* send raises EAGAIN: the socket buffer is full, or the network busy.      *)
WouldBlock == "none" \in SendResults \/ Len(to_broker) >= WireCap

(* _update_send_deadline, with what is left of the queue and of the packet. *)
UpdateSendDeadline(q, partial) == send_armed' = (q # <<>> \/ partial # None)

(* _drain_tx_queue with a packet partly sent: it has the socket to itself.  *)
DrainPartial ==
  /\ pc = "drain" /\ partial_send # None
  /\ \/ /\ "all" \in SendResults
        /\ Sent(partial_send)
        /\ partial_send' = None
     \/ /\ WouldBlock \/ "part" \in SendResults
        /\ UNCHANGED <<partial_send, to_broker>>
  /\ UpdateSendDeadline(tx_queue, partial_send')
  /\ pc' = "idle"
  /\ UNCHANGED <<scan, todo, state, transport, intent, tx_queue,
                 puback_batch_queued, pending_pubacks, ids, registry, app,
                 link, to_client>>

(* _drain_tx_queue, one turn of its loop: leading callbacks, then the head. *)
Drain(n) ==
  /\ pc = "drain" /\ partial_send = None /\ MarkerPrefix(tx_queue, n)
  /\ LET q == Rest(tx_queue, n) IN
     \/ /\ q = <<>>
        /\ tx_queue' = q
        /\ UpdateSendDeadline(q, None)
        /\ Acknowledge(MarkedIn(tx_queue, n))
        /\ pc' = "idle"
        /\ UNCHANGED <<partial_send, puback_batch_queued, to_broker>>
     \/ /\ q # <<>> /\ WouldBlock
        /\ tx_queue' = q
        /\ UpdateSendDeadline(q, None)
        /\ Acknowledge(MarkedIn(tx_queue, n))
        /\ pc' = "idle"
        /\ UNCHANGED <<partial_send, puback_batch_queued, to_broker>>
     \/ /\ q # <<>> /\ "part" \in SendResults
        /\ tx_queue' = Tail(q)
        /\ partial_send' = Head(q)
        /\ puback_batch_queued' = (puback_batch_queued /\ ~IsBatch(Head(q)))
        /\ UpdateSendDeadline(Tail(q), Head(q))
        /\ Acknowledge(MarkedIn(tx_queue, n))
        /\ pc' = "idle"
        /\ UNCHANGED to_broker
     \/ /\ q # <<>> /\ "all" \in SendResults /\ IsBatch(Head(q))
        /\ Sent(Head(q))
        /\ tx_queue' = Tail(q)
        /\ puback_batch_queued' = FALSE
        /\ UpdateSendDeadline(Tail(q), None)
        /\ Acknowledge(MarkedIn(tx_queue, n))
        /\ UNCHANGED <<pc, partial_send>>                \* and once more
     \/ /\ q # <<>> /\ "all" \in SendResults /\ ~IsBatch(Head(q))
        /\ Sent(Head(q))
        /\ \E k \in 0..Len(Tail(q)) :
             /\ MarkerPrefix(Tail(q), k)
             /\ tx_queue' = Rest(Tail(q), k)
             /\ Acknowledge(MarkedIn(tx_queue, n) \cup MarkedIn(Tail(q), k))
        /\ UpdateSendDeadline(Tail(q), None)
        /\ pc' = "idle"
        /\ UNCHANGED <<partial_send, puback_batch_queued>>
  /\ UNCHANGED <<scan, todo, state, transport, intent, pending_pubacks, ids,
                 registry, told, delivered, link, to_client>>

(* socket.send raises; callbacks that were due ahead of it have run.        *)
DrainFails(n) ==
  /\ pc = "drain" /\ ~link
  /\ \/ partial_send # None /\ n = 0
     \/ /\ partial_send = None
        /\ MarkerPrefix(tx_queue, n) /\ n < Len(tx_queue)
  /\ tx_queue' = Rest(tx_queue, n)
  /\ Acknowledge(MarkedIn(tx_queue, n))
  /\ Abort
  /\ UNCHANGED <<scan, todo, transport, intent, partial_send,
                 puback_batch_queued, send_armed, pending_pubacks, ids,
                 registry, delivered, wire>>

-----------------------------------------------------------------------------
(* The application's calls, and the Runner's io_error.                      *)
AppTurn == pc \in {"idle", "dispatch"}

Connect ==
  /\ AppTurn
  /\ user_wants_connected' = TRUE /\ reconnect_held' = FALSE
  /\ IF state \in {"disconnected", "failed"}
       THEN permanent_failure' = FALSE /\ self_heal_attempts' = 0
       ELSE UNCHANGED <<permanent_failure, self_heal_attempts>>
  /\ \/ /\ state = "disconnected" /\ socket                \* as constructed
        /\ UserRoom(1)
        /\ tx_queue' = Append(tx_queue, Packet("connect", 0, None))
        /\ pending_responses' = pending_responses \cup {Await("connack", 0, None)}
        /\ state' = "connecting"
        /\ UNCHANGED transport
     \/ /\ state = "disconnected" /\ ~socket /\ HasFactory
        /\ connector' = TRUE /\ transport_armed' = TRUE
        /\ state' = "awaiting"
        /\ UNCHANGED <<socket, tx_queue, pending_responses>>
     \/ /\ state = "disconnected" /\ ~socket                \* no transport
        /\ state' = "failed"
        /\ UNCHANGED <<transport, tx_queue, pending_responses>>
     \/ /\ state # "disconnected"
        /\ UNCHANGED <<state, transport, tx_queue, pending_responses>>
  /\ UNCHANGED <<control, partial_send, puback_batch_queued, send_armed,
                 pending_pubacks, ids, subscriptions, pre_connect_queue, app,
                 wire>>

(* disconnect(): DISCONNECT goes straight to the socket, ahead of the queue *)
(* and of the rest of a packet partly sent, which it garbles.  Publications *)
(* still waiting to be connected are dropped; those in flight stay.         *)
Disconnect ==
  /\ AppTurn /\ state # "disconnected"
  /\ \/ /\ state \in {"connecting", "connected"} /\ link /\ partial_send = None
        /\ to_broker' = Append(to_broker, Packet("disconnect", 0, None))
     \/ UNCHANGED to_broker
  /\ socket' = FALSE /\ connector' = FALSE /\ transport_armed' = FALSE
  /\ ResetTransientState
  /\ pre_connect_queue' = <<>>
  /\ Drop({pre_connect_queue[i] : i \in DOMAIN pre_connect_queue})
  /\ state' = "disconnected"
  /\ user_wants_connected' = FALSE /\ reconnect_held' = FALSE
  /\ told' = "down"
  /\ link' = FALSE /\ to_client' = <<>>
  /\ pc' = IF pc = "dispatch" THEN "drain" ELSE pc
  /\ UNCHANGED <<scan, todo, permanent_failure, self_heal_attempts,
                 pending_pubacks, ids, subscriptions, delivered>>

Hold ==
  /\ AppTurn
  /\ reconnect_held' = TRUE
  /\ UNCHANGED <<control, state, transport, user_wants_connected,
                 permanent_failure, self_heal_attempts, outbox,
                 pending_pubacks, ids, registry, app, wire>>

(* publish(): at once when connected, else by the when_disconnected policy. *)
(* An exception leaves the publication with the caller, "new".              *)
Publish(m) ==
  /\ AppTurn /\ status[m] = "new"
  /\ \/ /\ state = "connected" /\ DoPublish(m)
        /\ status' = [status EXCEPT ![m] = "accepted"]
        /\ UNCHANGED pre_connect_queue
     \/ /\ state = "connected" /\ DoPublishRaises(m)
        /\ UNCHANGED <<status, pre_connect_queue>>
     \/ /\ state # "connected" /\ Len(pre_connect_queue) < PreConnectCap
        /\ pre_connect_queue' = Append(pre_connect_queue, m)
        /\ status' = [status EXCEPT ![m] = "accepted"]
        /\ UNCHANGED <<tx_queue, ids>>
  /\ UNCHANGED <<control, state, transport, intent, partial_send,
                 puback_batch_queued, send_armed, pending_pubacks,
                 pending_responses, subscriptions, told, delivered, wire>>

(* A declaration of topic t: when connected, a packet under a new id whose  *)
(* ack is awaited, or the backpressure error; else it is only recorded.     *)
Declare(kind, ack, t, entry) ==
  /\ AppTurn
  /\ \/ /\ state = "connected" /\ UserRoom(1)
        /\ \E i \in Ids :
             /\ IsNextFree(i)
             /\ next_packet_id' = After(i)
             /\ tx_queue' = Append(tx_queue, Packet(kind, i, t))
             /\ pending_responses' = pending_responses \cup {Await(ack, i, t)}
        /\ subscriptions' = [subscriptions EXCEPT ![t] = entry]
     \/ /\ state = "connected" /\ ~UserRoom(1) /\ BurnId
        /\ UNCHANGED <<tx_queue, pending_responses, subscriptions>>
     \/ /\ state # "connected"
        /\ subscriptions' = [subscriptions EXCEPT ![t] = entry]
        /\ UNCHANGED <<tx_queue, next_packet_id, pending_responses>>
  /\ UNCHANGED <<control, state, transport, intent, partial_send,
                 puback_batch_queued, send_armed, pending_pubacks, in_flight,
                 pre_connect_queue, app, wire>>

Subscribe(t) == Declare("subscribe", "suback", t, "armed")
Unsubscribe(t) == Declare("unsubscribe", "unsuback", t, "absent")

(* io_error: Runner.wait saw an error on the polled socket.                 *)
GiveUpConnector_Deadline == connector' = FALSE /\ UNCHANGED transport_armed
GiveUpConnector == connector' = FALSE /\ transport_armed' = FALSE
IoError ==
  /\ pc = "idle" /\ state \in {"awaiting", "connecting", "connected"}
  /\ IF state = "awaiting" THEN GiveUpConnector
                            ELSE UNCHANGED <<connector, transport_armed>>
  /\ EnterFailed
  /\ UNCHANGED <<control, socket, intent, outbox, pending_pubacks, ids,
                 registry, status, delivered, wire>>

-----------------------------------------------------------------------------
Init ==
  /\ pc = "idle" /\ scan = {} /\ todo = {}
  /\ state = "disconnected"
  /\ socket = StartsWithSocket /\ connector = FALSE /\ transport_armed = FALSE
  /\ user_wants_connected = FALSE /\ permanent_failure = FALSE
  /\ reconnect_held = FALSE /\ self_heal_attempts = 0
  /\ tx_queue = <<>> /\ partial_send = None
  /\ puback_batch_queued = FALSE /\ send_armed = FALSE
  /\ pending_pubacks = {}
  /\ in_flight = [i \in Ids |-> None] /\ next_packet_id = 1
  /\ pending_responses = {}
  /\ subscriptions = [t \in Topics |-> "absent"]
  /\ pre_connect_queue = <<>>
  /\ told = "down" /\ delivered = {}
  /\ status = [m \in Publications |-> "new"]
  /\ link = StartsWithSocket /\ to_broker = <<>> /\ to_client = <<>>

Transport == SelfHeal \/ TransportLost \/ TransportPending \/ TransportReady
Deadlines == \/ Begin
             \/ \E i \in Ids : Retransmit(i) \/ RetriesExhausted(i)
             \/ \E p \in pending_responses : AckTimeout(p)
             \/ SendTimeout \/ DeadlinesDone \/ SendPing \/ NoPing
Receive == \/ ReadSuppressed \/ ReadFails
           \/ ReceivePublish \/ ReceiveTooLarge
           \/ ReceiveRefusal \/ ReceiveAccept
           \/ \E t \in Topics : ReplaySubscription(t)
           \/ DrainPreConnect \/ OnConnect
           \/ ReceivePubAck \/ ReceiveSubAck \/ ReceiveRejection
           \/ ReceiveUnsubAck \/ ReceiveUnexpectedAck \/ ReceivePingResp
           \/ EndRead
Send == DrainPartial \/ \E n \in 0..Len(tx_queue) : Drain(n) \/ DrainFails(n)
Handle == Transport \/ Deadlines \/ Receive \/ Send

Api == \/ Connect \/ Disconnect \/ Hold \/ IoError
       \/ \E m \in Publications : Publish(m)
       \/ \E t \in Topics : Subscribe(t) \/ Unsubscribe(t)

(* The peer at its least constrained: it takes packets or loses them, sends *)
(* packets in any order and under any id whether or not they answer         *)
(* anything, and the transport breaks at any time.                          *)
AckPackets == [kind : {"puback", "suback", "rejected", "unsuback"},
               id : 0..MaxPacketId, arg : {None}]
WellFormedPackets ==
  [kind : {"accepted", "resumed", "refused", "banned", "pingresp"},
   id : {0}, arg : {None}]
  \cup AckPackets
  \cup [kind : {"publish"}, id : {0}, arg : Inbound]

Peer == /\ \/ to_broker' \in {to_broker, <<>>}
           \/ to_broker # <<>> /\ to_broker' = Tail(to_broker)
        /\ \/ to_client' = to_client
           \/ \E p \in WellFormedPackets : to_client' = Append(to_client, p)
        /\ link' \in {link, FALSE}
        /\ UNCHANGED <<control, state, transport, intent, outbox,
                       pending_pubacks, ids, registry, app>>

Next == Handle \/ Api \/ Peer

Spec == Init /\ [][Next]_vars

-----------------------------------------------------------------------------
(* The names of the form Def_Fault above are faulty variants of Def: the    *)
(* properties are validated by showing that each fault breaks one of them.  *)

(* The type invariant: what every field of the client may hold.             *)
TypeOK ==
  /\ pc \in Phases /\ scan \subseteq Ids /\ todo \subseteq Topics
  /\ state \in States
  /\ socket \in BOOLEAN /\ connector \in BOOLEAN
  /\ transport_armed \in BOOLEAN
  /\ user_wants_connected \in BOOLEAN /\ permanent_failure \in BOOLEAN
  /\ reconnect_held \in BOOLEAN
  /\ self_heal_attempts \in 0..BackoffSteps
  /\ tx_queue \in Seq(OutPackets)
  /\ partial_send \in OutPackets \cup {None}
  /\ puback_batch_queued \in BOOLEAN /\ send_armed \in BOOLEAN
  /\ pending_pubacks \subseteq Inbound
  /\ in_flight \in [Ids -> InFlightRecords \cup {None}]
  /\ next_packet_id \in Ids
  /\ pending_responses \subseteq Awaits
  /\ subscriptions \in [Topics -> {"absent", "armed", "fired"}]
  /\ pre_connect_queue \in Seq(Publications)
  /\ told \in {"up", "down"}
  /\ status \in [Publications -> {"new", "accepted", "acked", "dropped"}]
  /\ delivered \subseteq Inbound
  /\ link \in BOOLEAN
  /\ to_broker \in Seq(OutPackets) /\ to_client \in Seq(WellFormedPackets)

(* One transport at a time: a connector exists, with its deadline armed,    *)
(* exactly while the client awaits it, and never beside an open socket; the *)
(* phases that use the socket have one.  (_start_transport,                 *)
(* _attempt_self_heal, _advance_connector, io_error, disconnect)            *)
OneTransport ==
  /\ connector <=> state = "awaiting"
  /\ transport_armed <=> state = "awaiting"
  /\ state = "awaiting" => ~socket
  /\ state \in {"connecting", "connected"} => socket
  /\ state = "awaiting" => pc \in {"idle", "transport"}
  /\ pc \in {"deadlines", "keepalive", "recv", "dispatch", "replay"} => socket

(* The application's view follows the state: between on_connect and         *)
(* on_disconnect, and only then, the client is CONNECTED; the exception is  *)
(* the replay inside the CONNACK, before on_connect runs.                   *)
ToldTheTruth ==
  /\ told = "up" => state = "connected"
  /\ pc # "replay" /\ state = "connected" => told = "up"
  /\ pc = "replay" => state = "connected"

(* PUBACKs are batched: at most one batch is queued, at the very front, and *)
(* _puback_batch_queued, which holds reads back, says exactly whether.      *)
OneBatchInFront ==
  /\ puback_batch_queued <=> (tx_queue # <<>> /\ IsBatch(tx_queue[1]))
  /\ \A i \in DOMAIN tx_queue : IsBatch(tx_queue[i]) => i = 1
  /\ puback_batch_queued => partial_send = None /\ pc \notin {"dispatch", "replay"}

(* The queue never outgrows its hard cap, whatever mix of user packets,     *)
(* retransmissions, pings, replays and PUBACKs fills it: the deque would    *)
(* raise or drop its other end.                                             *)
WithinHardCap == Len(tx_queue) <= HardCap

=============================================================================

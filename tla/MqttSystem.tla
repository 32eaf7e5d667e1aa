----------------------------- MODULE MqttSystem -----------------------------
(***************************************************************************)
(* The client of MqttClient against a conforming MQTT 3.1.1 broker over a  *)
(* TCP transport that may break at any time.  The broker is not part of    *)
(* the repository: it is modelled by what the client relies on.            *)
(***************************************************************************)
EXTENDS MqttClient

CONSTANT MaxCalls   \* bound on calls

ASSUME SystemAssumption == MaxCalls \in Nat

VARIABLES
  session,          \* CONNECT was accepted on the present transport
  kept,             \* the broker keeps state for this client id
  broker_subs,      \* topics subscribed at the broker
  stored,           \* publications the broker has taken
  outgoing,         \* inbound message -> "new", "sent", "acked"
  calls             \* calls other than connect() and a publish() that accepts

broker  == <<session, kept, broker_subs, stored, outgoing>>
sysvars == <<vars, broker, calls>>

SysInit == /\ Init
           /\ session = FALSE /\ kept \in {FALSE, ~CleanSession}
           /\ broker_subs = {} /\ stored = {}
           /\ outgoing = [b \in Inbound |-> "new"]
           /\ calls = 0

-----------------------------------------------------------------------------
clientVars == <<control, state, transport, intent, outbox, pending_pubacks,
                ids, registry, app>>

Packets(kind) == to_broker # <<>> /\ Head(to_broker).kind = kind

Take == to_broker' = Tail(to_broker) /\ UNCHANGED <<clientVars, calls>>

Reply(kind, id) ==
  /\ link => Len(to_client) < WireCap
  /\ to_client' = IF link THEN Append(to_client, Packet(kind, id, None))
                          ELSE to_client
  /\ UNCHANGED link

BrokerAccepts ==
  /\ Packets("connect") /\ ~session /\ Take
  /\ session' = TRUE
  /\ kept' = ~CleanSession
  /\ \/ /\ Reply("resumed", 0) /\ kept /\ ~CleanSession
        /\ UNCHANGED broker_subs
     \/ /\ Reply("accepted", 0)           \* a clean session, or state lost
        /\ broker_subs' = {}
  /\ outgoing' = [b \in Inbound |->
                    IF outgoing[b] = "sent" THEN "new" ELSE outgoing[b]]
  /\ UNCHANGED stored

(* A refused CONNECT: the CONNACK, then the broker closes.                  *)
BrokerRefuses ==
  /\ Packets("connect") /\ ~session /\ Take
  /\ \E kind \in {"refused", "banned"} :
       to_client' = IF link THEN Append(to_client, Packet(kind, 0, None))
                            ELSE to_client
  /\ link' = FALSE
  /\ UNCHANGED broker

BrokerStores ==
  /\ Packets("publish") /\ session /\ Take
  /\ stored' = stored \cup {Head(to_broker).arg}
  /\ IF Head(to_broker).id = 0 THEN UNCHANGED <<to_client, link>>
                               ELSE Reply("puback", Head(to_broker).id)
  /\ UNCHANGED <<session, kept, broker_subs, outgoing>>

BrokerGrants ==
  /\ Packets("subscribe") /\ session /\ Take
  /\ \/ /\ Reply("suback", Head(to_broker).id)
        /\ broker_subs' = broker_subs \cup {Head(to_broker).arg}
     \/ /\ Reply("rejected", Head(to_broker).id)
        /\ UNCHANGED broker_subs
  /\ UNCHANGED <<session, kept, stored, outgoing>>

BrokerUnsubscribes ==
  /\ Packets("unsubscribe") /\ session /\ Take
  /\ Reply("unsuback", Head(to_broker).id)
  /\ broker_subs' = broker_subs \ {Head(to_broker).arg}
  /\ UNCHANGED <<session, kept, stored, outgoing>>

BrokerPongs ==
  /\ Packets("pingreq") /\ session /\ Take
  /\ Reply("pingresp", 0)
  /\ UNCHANGED broker

BrokerAcked ==
  /\ Packets("puback") /\ session /\ Take
  /\ outgoing' = [b \in Inbound |->
                    IF b \in Head(to_broker).arg THEN "acked" ELSE outgoing[b]]
  /\ UNCHANGED <<session, kept, broker_subs, stored, link, to_client>>

(* DISCONNECT, or a packet that has no place here: the broker closes.       *)
BrokerCloses ==
  /\ to_broker # <<>> /\ Take
  /\ \/ Packets("disconnect")
     \/ session = Packets("connect")
  /\ link' = FALSE /\ session' = FALSE
  /\ UNCHANGED <<kept, broker_subs, stored, outgoing, to_client>>

BrokerPublishes(b) ==
  /\ session /\ link /\ outgoing[b] = "new"
  /\ Len(to_client) < WireCap
  /\ to_client' = Append(to_client, Packet("publish", 0, b))
  /\ outgoing' = [outgoing EXCEPT ![b] = "sent"]
  /\ UNCHANGED <<clientVars, calls, session, kept, broker_subs, stored, link,
                 to_broker>>

(* The network breaks; bytes on their way to the broker may be lost.        *)
LinkBreaks ==
  /\ link /\ link' = FALSE
  /\ to_broker' \in {to_broker, <<>>}
  /\ UNCHANGED <<clientVars, calls, broker, to_client>>

Broker == \/ BrokerAccepts \/ BrokerRefuses \/ BrokerStores \/ BrokerGrants
          \/ BrokerUnsubscribes \/ BrokerPongs \/ BrokerAcked \/ BrokerCloses
          \/ \E b \in Inbound : BrokerPublishes(b)

(* The broker meets a new transport with no session on it.                  *)
NewTransport == session' = IF link' /\ ~link THEN FALSE ELSE session

(* A publish() that raises leaves the publication "new" and burns an id, so *)
(* it is counted: MaxPacketId is chosen such that ids do not wrap around    *)
(* while an answer to their last use is still on its way.                   *)
FreeCalls == \/ Connect
             \/ \E m \in Publications : Publish(m) /\ status'[m] # "new"
OtherCalls == \/ \E m \in Publications : Publish(m) /\ status'[m] = "new"
              \/ Disconnect \/ Hold \/ IoError
              \/ \E t \in Topics : Subscribe(t) \/ Unsubscribe(t)

Client == /\ \/ (Handle \/ FreeCalls) /\ UNCHANGED calls
             \/ calls < MaxCalls /\ OtherCalls /\ calls' = calls + 1
          /\ NewTransport
          /\ UNCHANGED <<kept, broker_subs, stored, outgoing>>

SysNext == Client \/ Broker \/ LinkBreaks

SysSpec == SysInit /\ [][SysNext]_sysvars

(* Fairness.  The Runner goes on ticking the client and the broker serves   *)
(* its connections.  A transport factory, a connector, a read and a send    *)
(* that are tried again and again succeed in the end, and a deadline armed  *)
(* whenever _check_deadlines looks passes in the end.                       *)
Step(A) == A /\ NewTransport /\ UNCHANGED <<calls, kept, broker_subs, stored, outgoing>>

Fairness ==
  /\ WF_sysvars(Step(Handle))
  /\ WF_sysvars(Broker)
  /\ SF_sysvars(Step(SelfHeal /\ connector'))
  /\ SF_sysvars(Step(TransportReady))
  /\ SF_sysvars(Step(Receive /\ to_client' # to_client))
  /\ SF_sysvars(Step(Send /\ to_broker' # to_broker))
  /\ SF_sysvars(Step(\E p \in pending_responses : AckTimeout(p)))
  /\ SF_sysvars(Step(\E i \in Ids : Retransmit(i) \/ RetriesExhausted(i)))

FairSpec == SysSpec /\ Fairness

-----------------------------------------------------------------------------
Declared == {t \in Topics : subscriptions[t] # "absent"}
Entries(q, kind) == {i \in DOMAIN q : q[i].kind = kind}

(* All the client has handed, or will hand, to the present transport that   *)
(* the broker has not read yet.                                             *)
Stream == to_broker \o (IF partial_send = None THEN <<>> ELSE <<partial_send>>)
                    \o tx_queue

(* The broker reads CONNECT first on every transport, and only once, though *)
(* retransmissions, PUBACK batches put at the front, and pings all compete  *)
(* for the queue.  disconnect() alone writes past it.                       *)
ConnectFirst ==
  link /\ socket /\ state # "disconnected" =>
    IF session THEN Entries(Stream, "connect") = {}
               ELSE Entries(Stream, "connect") = {1}

(* No QoS 1 publication vanishes: while neither confirmed nor given up it   *)
(* waits for the connection or is in flight, and nowhere twice.             *)
NoSilentLoss ==
  /\ \A m \in Messages :
       status[m] = "accepted" <=>
         \/ m \in InFlightMsgs
         \/ \E i \in DOMAIN pre_connect_queue : pre_connect_queue[i] = m
  /\ \A i, j \in InFlightIds : in_flight[i].msg = in_flight[j].msg => i = j

(* on_publish of a QoS 0 publication runs after its last byte was sent.     *)
Qos0CallbackAfterSend ==
  \A e \in Events : status[e] = "acked" =>
    /\ partial_send # Packet("publish", 0, e)
    /\ \A i \in DOMAIN tx_queue : tx_queue[i] # Packet("publish", 0, e)

(* One PINGREQ at a time, and a pending entry for exactly the one under way.*)
PingMatchesPending ==
  link /\ state = "connected" =>
    Cardinality(Entries(Stream, "pingreq")) + Cardinality(Entries(to_client, "pingresp"))
      = Cardinality(Awaiting("pingresp"))

(* Once every SUBSCRIBE and UNSUBSCRIBE is answered, the broker's           *)
(* subscriptions are the declared ones.                                     *)
SubscriptionsHonoured ==
  /\ pc = "idle" /\ state = "connected"
  /\ Awaiting("suback") = {} /\ Awaiting("unsuback") = {}
  => broker_subs = Declared

(* Whenever _check_deadlines may find the send deadline passed, bytes wait  *)
(* to be sent: only a stalled socket can fail the client with it.           *)
SendDeadlineHasWork ==
  pc = "deadlines" /\ send_armed => tx_queue # <<>> \/ partial_send # None

(* No transport is dialled against the application's will: not after a      *)
(* permanent refusal, under hold(), or after disconnect().                  *)
DialOnlyWhenWanted ==
  [][connector' /\ ~connector =>
       user_wants_connected' /\ ~permanent_failure' /\ ~reconnect_held']_sysvars

(* From some time on nothing fails any more.                                *)
Calm == <>[][state' = "failed" => state = "failed"]_sysvars

(* Self-heal: once failures stop, a client that is wanted connects.         *)
WantedComesBack ==
  Calm => (SelfHealActive ~> (state = "connected" \/ ~SelfHealActive))

(* Once failures stop, every publication accepted by a client that stays    *)
(* wanted is confirmed or given up: none waits forever.                     *)
PublicationsSettle ==
  Calm /\ <>[]SelfHealActive =>
    \A m \in Messages : status[m] = "accepted" ~> status[m] # "accepted"

(* The client implements at-least-once delivery.                            *)
Delivery == INSTANCE AtLeastOnce WITH
              fate <- [m \in Messages |-> status[m]],
              held_by_broker <- stored \cap Messages
ImplementsAtLeastOnce == Delivery!Spec
=============================================================================

# Formal model of the ChuMicro bundle

TLA+ modules, TLC configurations and TLAPS proofs for the cooperative network
stack of this repository: small Python services for MicroPython and
CircuitPython boards, each a state machine that is advanced by a scheduler and
never blocks. Source references are to `src/`, which is the repository.

- [Inventory](#inventory): the system's parts and what makes each correct
- [Plan](#plan): the order of the work and what is left
- [Modules](#modules): how states and actions correspond to the code
- [Runs](#runs): what TLC checks, the bounds, the fairness
- [Proofs](#proofs): what holds for every value of the constants
- [Findings](#findings) and [Limits](#limits)

## Inventory

Nothing here is multi-threaded: the hard behaviours come from *re-entrancy*
(callbacks that call back into the service that runs them), from *phases* of one
`handle()` between which the peer moves, from half-completed operations that an
exception cuts short, and from bounded queues.

| Component | State | Operations | Correct when |
|---|---|---|---|
| **MQTT client** `chumicro_mqtt/client.py` | protocol state, transport and connector, transmit queue with a partial packet, in-flight table, pending acks, subscriptions, pre-connect queue, backoff | `connect`, `disconnect`, `hold`, `publish`, `subscribe`, `unsubscribe`, `check`, `handle`, `io_error`, `next_message`, `set_will` | QoS 1 publications are confirmed only when stored and never vanish; CONNECT comes first on every transport; the application is told the truth; a wanted client comes back |
| **Runner** `chumicro_runner/core.py` | entries with deadlines and run counts, pending list, poll object and the interest registered in it | `add`, `add_periodic`, `add_generator`, `remove`, `set_period`, `tick`, `wait`, `run_until` | periodic tasks keep their grid, never burst, never starve; the poll object watches what the services want; a fault stays with its task |
| **Generator tasks** `chumicro_runner/_generator.py`, `generators.py`, `chumicro_timing/waits.py` | the generator, done, result, error, what it waits for | `check`, `handle`, `cancel`, `wait_for` | finished exactly once, removed once, closed on cancel |
| **WebSocket session** `chumicro_websockets/_session.py`, `client.py`, `server.py` | protocol state, transmit queue, fragments, ping and close deadlines | `connect`, `send_text`, `send_binary`, `send_ping`, `close`, `next_message`, `check`, `handle` | one CLOSE each way, `on_close` at every end and never before it, the CLOSE slot is never taken |
| **HTTP client** `chumicro_requests/client.py` | one request in flight, its handle, redirects, parser, deadline | `request` and its verbs, `cancel`, `check`, `handle` | every handle completes exactly once, within one deadline |
| **HTTP server** `chumicro_http_server/server.py`, `streaming.py` | listener, connection table, each connection's phase | `route`, `check`, `handle`, `close` | limits on connections and time hold, no connection is leaked |
| **Key-value store** `chumicro_kvstore/core.py`, `_backends/` | data, dirty flag, last committed payload, the medium | the dict operations, `commit`, `commit_if_changed`, `reload` | a commit is durable; a crash leaves the old or the new contents |
| **Wifi service** `chumicro_wifi/service.py` | link state, attempts, retry schedule | `on_state_change`, `check`, `handle` | reconnects until its budget of attempts is spent, callbacks see settled state |
| **Connectors** `chumicro_sockets/_connector.py` | step of the connection, the socket | `check`, `handle`, `tick`, `cancel` | ready or failed exactly once, sockets closed on failure |
| **Buttons, knobs** `chumicro_buttons`, `chumicro_knobs` | interrupt ring, click logic | `check`, `handle`, `deinit`, the interrupt handler | no bounce reported, a key ends as its pin stands |
| **NTP** `chumicro_ntp/core.py` | the query, its deadline | `query`, `check`, `handle`, `cancel`, `close` | an answer is not older than its query, every query ends |
| **Timing, config, compat, msgpack** | little or none | pure functions and shims | by their unit tests |
| **Wire codecs** (`_wire.py` of mqtt, websockets, requests, http_server) | partial packet | incremental decoding | by their unit tests; the models use packets |
| **Compiled bundles** `circuitpython-10.x-mpy/`, `mpy6/` | none | generated from the same sources | not modelled |

How they meet: the application adds services to the Runner. `Runner.tick(now)`
asks `check(now)` and fires `handle(now)`; `Runner.wait(now)` reads each
service's `io_socket`, `io_interest` and `next_deadline` to decide what to poll
and how long to sleep, and reports socket errors through `io_error`. A network
service owns a connector until it is ready and a socket from then on. Services
speak to the application through callbacks, from which it may call any service
or the Runner.

Which behaviours are hard is listed line by line under `hazards` in
`PROJECT.json`, each with the properties that would catch it going wrong.

## Plan

Ordered so that the most important behaviour comes first.

1. *Done*: `MqttClient`, its environment `MqttSystem`, the promise
   `AtLeastOnce`, proofs about the client for every configuration; `Runner`.
2. *Done*: `WebSocketSession`; `HttpClient` with its promise `HttpExchange`,
   `HttpServer`, and both against each other in `HttpSystem`.
3. *Done*: `KeyValueStore` over each backend's steps with power failures between
   them, proved to implement `AtomicStore`; `WifiService`; `NtpClient` with its
   proof; `Buttons` with its interrupt handler, the one place where two threads
   of control interleave between any two lines.
4. *Done*: proofs about the Runner for any set of tasks, sockets and descriptors,
   about the WebSocket sessions for any pairing, limit and peer; that no MQTT
   publication is lost, and that the client implements `AtLeastOnce`; that the HTTP
   client implements `HttpExchange` whatever the server sends, that neither end
   leaks a connection, and that what the application sees is what a handler decided
   on; that two WebSocket sessions lose, double and reorder no message.
5. *Left*: generator tasks on the Runner's interface.

Runs are kept few: one per distinct question, the worlds of one component in one
run.

## Modules

| Module | Models |
|---|---|
| `MqttClient` | `MQTTClient`, with a peer that may do anything to the transport |
| `MqttSystem` | the client with a conforming broker and a network that breaks |
| `AtLeastOnce` | what QoS 1 promises, abstractly |
| `Runner` | class `Runner` in the loop of an application |
| `WebSocketSession` | `WebSocketClient`, `WebSocketServer`, their connections and the session they share |
| `HttpWire` | the TCP connections between the next two |
| `HttpClient`, `HttpExchange` | `HttpClient` with its `RequestHandle`s; what they promise, abstractly |
| `HttpServer` | `HttpServer`, its connections and streamed responses |
| `HttpSystem` | client and server, or either with a foreign peer |
| `KeyValueStore`, `AtomicStore` | `KVStore` over its backends; what it promises, abstractly |
| `WifiService` | the reconnect supervisor over a radio |
| `NtpClient` | `NTPClient` on a network that loses, delays and repeats |
| `Buttons` | `MpButtonSource` and the `check()` of `Buttons` |
| `..._proofs` | theorems and their proofs |
| `MC_...` | the instances that TLC checks |

### MqttClient

Variables carry the names of the attributes they model, less the underscore; an
attribute that is a deadline is a Boolean that says whether it is armed. `pc` is
the phase of `handle()`: `transport` (`_advance_connector`), `deadlines`
(`_check_deadlines`), `keepalive` (`_check_keepalive`), `recv` and `dispatch`
(`_read_inbound` before and after a packet), `replay` (inside
`_handle_connack`), `drain` (`_drain_tx_queue`), `idle` between ticks. The peer
and the network may move between any two of them, as they do between two socket
calls. A packet's handler is one action, with everything it calls.

- Transport: `SelfHeal`, `TransportReady`, `TransportPending`, `TransportLost`.
- Deadlines: `Retransmit` and `RetriesExhausted` (one in-flight entry each, in
  the arbitrary order of a dict on the boards), `AckTimeout`, `SendTimeout`;
  an armed deadline may have passed whenever it is looked at. `SendPing`.
- Receiving: one `Receive...` action per packet kind and outcome;
  `ReplaySubscription` and `DrainPreConnect` inside a CONNACK; `EndRead` queues
  the PUBACK batch.
- Sending: `DrainPartial`, `Drain`, `DrainFails`. A send takes all, part or
  none of a packet; callback markers are popped where the code pops them.
- The application, between ticks or inside a callback: `Connect`,
  `Disconnect`, `Hold`, `Publish`, `Subscribe`, `Unsubscribe`; `IoError` is the
  Runner's.

Every raise in `handle()` goes to the `except` clauses and `_enter_failed`
(`Abort`). `told`, `status` and `delivered` are what callbacks reported.
`to_broker` and `to_client` are the two byte streams as packets; `link` says
whether bytes still move.

### MqttSystem

The broker (external code) answers each packet as MQTT 3.1.1 requires and may
refuse a connection, forget its session, reject a subscription or close.
`LinkBreaks` cuts the transport and may lose what was on its way to the broker.
`calls` bounds the calls that could be repeated for ever.

### Runner

`pc` follows the loop `now = tick(); wait(now)`. `tick` is one action per turn
of its two loops: `CheckEntry` moves the deadline of an entry that is due,
`Answer` is its `check()`, `Fire` its handler or the fault it raises, `CountRun`
the `run_count` branch; `Escape` is an exception that leaves `tick`. `Wait` is
`_sync_poll_set` and `_compute_timeout`; `Wake`, `Ready`, `DispatchIoError` end
the block. Foreign code in `check()`, in a handler, in `io_error` and between
passes may `add`, `remove`, `set_period` and open, share and close sockets.
Descriptors are reused after a close, as an operating system does. Times are
relative to the timestamp of the last tick.

### WebSocketSession

`ws[s]` is the record of a session: `state` and `phase` are `ProtocolState` and the
step of the connection (connector, handshake, open), `tx` and `part` the transmit
queue and the frame half sent, `msg` and `garbled` the message being assembled,
`armed` the deadlines that are set, `carry` the bytes read behind a handshake head.
`pc` is where a pass of `handle()` has got to, so that a callback (`on_message`,
`on_open`, `on_ping`, ...) may send, ping or close in the middle of it. A frame is
handled by one action with everything it calls: unmasking errors, reserved bits,
the limits on frames, messages and runs of empty fragments, the reply to a ping,
the answer to a CLOSE. Half-sent frames, would-block, resets and ends of stream are
the outcomes of a socket call. The server accepts up to `max_connections`, sweeps
its table, and `close()` starts the closing handshake with every connection.

### HttpClient, HttpServer, HttpSystem

A connection carries *pieces*: a head, a unit of body, the last chunk, or something
that breaks the protocol; bytes that complete none change nothing in either parser.
`HttpClient` has one action per phase of `handle()` and per outcome of it:
`Timeout`, `ConnectorReady`, `ConnectorFails`, `ClientSend`, `ReceivePiece` (the
parser's step, and the completion or the redirect it leads to), `ReceiveEnd`,
`ReceiveFails`. `calls` is the stack of callbacks that are running: from inside
`on_done` and `on_oversized` the application may cancel and ask again.
`HttpServer` has one action per phase of a connection's tick: receive and parse,
`Dispatch` to a handler (which may reply, raise, stream or close the server), send,
and for streams `PullData`, `PullEof`, `PullRaises`. `heard` and `said` remember
what a handler was given and what it decided on; `Faithful` compares them with what
the client's application saw.

### KeyValueStore

A payload is the dict it encodes. A save is the sequence of calls its backend makes:
one assignment (`WriteInPlace`: nvm, memory), `WriteTmp` and `RenameTmp` (littlefs),
`SetBlob` and `CommitBlob` (nvs). The calls on files and blobs may fail; the one
assignment does not, but a power failure may tear it. `PowerFails` may come between
any two. `kept` and `beside` are what the medium holds, `Torn` and `Blank` payloads
that do not load and that are none. `Construct` is the start, with its parking of
corrupt contents. `doubt` remembers that a call failed in a way `_dirty` does not
tell (see [Limits](#limits)).

### WifiService, NtpClient, Buttons

`WifiService` has one action per outcome of `handle()`; times count down, and the
radio joins, drops and finds its access point on its own. In `NtpClient` a datagram
is the number of queries there were when it arrived, which is all that matters of it,
or `NoBytes`, an empty one; answers may be repeated or never come. `DrainSocket` reads
until the socket is empty, a datagram is empty, a read raises or `DrainLimit` is reached,
and what is behind stays: `cut` remembers of a query that its drain met one of the last
three (`CutShort`). `Buttons` interleaves the edges of the pins with the steps of the
constructor and of `check()`. `SamplePin` reads one pin, `InstallIrq` installs one
interrupt: an edge before that is seen by nobody (`MissEdge`), and `history.reading`
remembers that what was read of the key is `stale`, or was for a while (`doubtful`); any
later edge goes to the ring (`CaptureEdge`). `check()` takes an edge out of the ring,
notices that the ring is empty, resamples one pin, looks at one key of the sweep. Times
are ages; `lag` is how old the `now_ms` of the running `check()`, or the `started_ms` of
the constructor, is.

## Runs

All passing runs are exhaustive. `PROJECT.json` names, for every property, a fault of
the code (definitions named `Def_Fault`) that makes the run fail.

| Run | Shows | Bounds |
|---|---|---|
| `MC_MqttPublish` | `OneTransport`, `ToldTheTruth`, `ConnectFirst`, `NoSilentLoss`, `DialOnlyWhenWanted`, and that the client implements `AtLeastOnce` | two QoS 1 messages, a queue of 2+1, one retry, one further call |
| `MC_MqttClean` | `TypeOK`, `OneBatchInFront`, `WithinHardCap`, `Qos0CallbackAfterSend`, `PingMatchesPending`, `SubscriptionsHonoured` | one topic, one QoS 0 event, one inbound message, two calls |
| `MC_MqttLiveness` | `WantedComesBack`, `PublicationsSettle` | one message, one oversized inbound message that disconnects |
| `MC_Runner` | `TypeOK`, `StaysAligned`, `NoBurst`, `PollSetMatches` | three applications of two tasks, two sockets that compete for one descriptor |
| `MC_RunnerLiveness` | `PeriodicServed` | a periodic task beside a task or a service that may fault for ever |
| `MC_WebSockets` | `TypeOK`, `OneClose`, `Conserved`, `DeadlinesMatch`, `NothingLeaks`, `Interoperable`, `ClosedIsTold` | five worlds: a client and a server of the library; a client, one with automatic pings, and a connection, each against a foreign peer; two connections for one place |
| `MC_Http` | `TypeOK`, `IdleIsClean`, `Faithful`, `HandlerHears`, `NothingLeaks`, and that the client implements `HttpExchange` | three worlds: the pair with two requests, a foreign server, foreign clients with two dials |
| `MC_Services` | `CleanIsSaved` and that the store implements `AtomicStore`; `RetriesAsConfigured`, `WifiReconnects`; `AnswersAfterAsking`, `QueriesEnd`; `NoBounce`, `LevelsAgree` | four worlds: two keys and two values on four backends; budgets of 1, 3 and none; three queries, a socket of three datagrams, drains of two; two keys, three edges, `settle_ms` 1, checks up to 2 late |
| `MC_MqttSendDeadline`, `MC_MqttResumed`, `MC_MqttPreConnect`, `MC_RunnerFailFast` | the [findings](#findings): TLC finds the property violated | the smallest instance |

Why the bounds are enough. The MQTT hazards are pairs: a queue of two user slots and one
internal slot is full and is overtaken; two messages compete for the queue, the
pre-connect slot and two ids; one retry has a first and a last attempt; one step of
backoff has a first and a capped attempt. The wire holds one packet each way in the
safety runs, so that every send may block (`WireCap`), and two in the liveness run.
Connections succeed each other without limit. `MaxPacketId` (65535 in the code) is 4 in
the QoS 1 runs, large enough that an id is not reused while an answer to its last use is
still under way; `MaxCalls` bounds the calls that burn ids. It is 2 in `MC_MqttClean`,
where the counter comes round but no session takes an id twice. The reuse of a Runner
descriptor needs one descriptor and two sockets. `MaxLate` 2 with periods 2 and 3 lets a
tick be on time, late, and late by a whole period; `MaxErrors` only stops the counter,
not the faults; `MaxDisturbed` 1 allows one raising check, nested tick or change of
period per behaviour.

WebSockets: a queue of one user slot and one internal slot is the smallest in which
pongs can fill it before the CLOSE; a message limit of 1 with fragments of 0, 1 and
2 tells at the limit from beyond it; one message each way, one item on the wire.
HTTP: `MaxBody`, `StreamBuffer` and `MaxRequestBody` are 1 with bodies of 0, 1 and
2, so that every limit is met and exceeded; two requests with one redirect use four
connections; the view of `MC_Http` drops histories that no later step reads.
Services: a store for one entry with two keys meets its capacity; a backoff of 1, 2
and 3 (cap) shows the doubling and the cap; three queries leave an answer to each of
the first two, and a socket of three datagrams holds more than a drain of two reads; a
ring of two usable places overflows with three edges; with `Settle` 1 and `MaxLag` 2 an
edge may be taken, a sweep may look and a constructor may end later than a key settles.

Deadlock is checked in the MQTT and Runner runs. The others switch it off: a world
ends when its bounds on messages, requests, queries or edges are used up.

Fairness. MQTT: the Runner keeps ticking the client (weak fairness of `Handle`), the
broker serves its connection, and what is tried again and again (a factory, a connector,
a read, a send) succeeds sometime (strong fairness); a deadline looked at again and
again has passed sometime. `WantedComesBack` and `PublicationsSettle` speak only of
behaviours in which failures stop, since a link that always breaks defeats any client.
Runner: the loop runs on, which is what `while True` gives, foreign code returns, and
time passes; no socket need ever be ready, and a fault may happen at every turn.
Services: each is called again and again and time passes (weak fairness of its
`handle()` or `check()`); `WifiReconnects` speaks of an access point that stays there,
and then a join that is tried for ever comes off once, and one that is under way ends;
an NTP client without an answer that is called for ever finds its timeout passed; the
constructor of the buttons comes to its end, and time goes on between two `check()`s,
for `LevelsAgree` is about pins that have come to rest (edges are bounded). WebSockets
and HTTP are checked for safety only.

## Proofs

TLAPS checks, for every value of the constants that the `ASSUME`s allow (any
queue size, any number of messages, tasks, sessions or descriptors, any retry
budget, period or delay), the theorems below. Each invariant is proved from an
inductive one, which TLC checked on the instances above before its proof; a module
`X_proofs` has one step per action of `X`, and a lemma for each operator that
several actions share.

### MQTT

`MqttClient_proofs`: `TypeCorrect`, `TransportCorrect` (`OneTransport`),
`ToldCorrect` (`ToldTheTruth`), `BatchCorrect` (`OneBatchInFront`), `CapCorrect`
(`WithinHardCap`), `BooksCorrect` and `NothingLost`, all of the client beside a peer
that may send anything, in any order, and break the link at any time: none rests on
a well-behaved broker. `MqttSystem_proofs`: `SystemIsClient`, every behaviour of the
composed system is one of the client's specification, hence `SystemCorrect`; the
rest is about the client with its broker.

The assumptions: bounds are naturals, the queue and the id space are not empty,
`None` is no packet, and the application has fewer QoS 1 publications than there are
packet ids, so that `_allocate_packet_id`, which scans for a free one, finds it.

- *The queue.* `QueueInv`: its shape (a batch only at the front, and flagged), the
  hard cap, and what the phases guarantee, that while a batch is queued no packet
  is partly sent and no packet handler runs. Without that last part a second batch
  could be pushed in front of the first, or of a packet partly sent.
- *The books.* `Books` says where a publication is: at most one place of
  `pre_connect_queue` and `in_flight`, and known as accepted there; a QoS 0 callback
  marker follows its packet, and what is marked as sent is in no queue. The parts need
  each other: taking a PUBACK for an id is harmless only if what the id names is not
  waiting as well. `CallbackCorrect` (`Qos0CallbackAfterSend`) follows.
- *Nothing is lost.* `PublicationsKept` proves `NoSilentLoss` for
  `PreConnectCap = 0`, the configuration `when_disconnected="raise"`. With a queue it
  does not hold (finding 3); `LossOnlyInReplay` says that this is the only way: a
  publication stops being accounted for only in a step of `DrainPreConnect` that pops
  it and has no room to publish it.
- *The stream.* What the client has queued, sent in part and put on the wire is one
  sequence. `GreetInv` says that until CONNECT has been read it is its first
  packet, and that a client that has lost its link holds nothing back:
  `ConnectComesFirst` (`ConnectFirst`). `PingInv` adds that a PINGREQ or its answer is
  under way exactly while one is awaited, that there is one, and that an answer never
  overtakes the CONNACK in front of it: `PingIsMatched` (`PingMatchesPending`).
- *At least once.* `DeliveryCorrect` proves `ImplementsAtLeastOnce` if `IdsSuffice`:
  packet ids do not wrap (`Cardinality(Messages) + MaxCalls < MaxPacketId`, no topics
  to replay). Then ids are taken in order (`Unwrapped` counts them against what was
  begun), so a packet under way carries the message its id names or one decided, and
  a PUBACK under way names a message the broker has (`Carried`). The hypothesis is
  needed: with three ids for two messages and two calls TLC shows a PUBACK that comes
  late, for an id used again, confirm a publication the broker never got. The code
  has 65535 ids; a PUBACK would have to be that many publications late.
- *Subscriptions.* `SubscriptionsCorrect` proves `SubscriptionsHonoured` of clean
  sessions, for any topics, queues and calls. `OpenInv` says that until the client has
  read the CONNACK nothing is asked or answered, and that the broker then starts from
  nothing; the replay asks for what is declared. From there `Subscribed` orders the
  requests by their packet ids, from the queue to the wire (`Order`), so that the
  broker reads the last one about a topic last: a topic is settled (`Settled`), or
  that last request is awaited and not yet answered (`Coming`). A rejected SUBSCRIBE
  leaves it awaited until the client fails. Most steps are `Plain`: they only shorten
  what is under way. There are two hypotheses. `CleanSession`: a resumed session is not
  replayed (finding 2). `[]NoWrap`: the counter of packet ids does not come round; it
  starts over with every self-heal of a clean session. The code keeps the acks it
  awaits in a list and pops the first that matches; the model keeps them in a set,
  which is the same as long as no two are equal, that is as long as no id is used
  again while its ack is awaited. (The code has 65535 ids, and an ack that is late
  fails the connection.)
- `DialCorrect`: the action property `DialOnlyWhenWanted`.

### Runner

`Runner_proofs`: `TypeCorrect`, `PhasePreserved` (`StaysAligned`), `NoCatchUpBurst`
(`NoBurst`), `PollSetCorrect` (`PollSetMatches`). `IInv` holds what the walk over the
lists relies on while foreign code adds and removes tasks under it (`Walk`: no entry
still to be reached is pending already; a task that may fire has runs left), the
arithmetic of deadlines (`Aligned`, `DueLater`, from lemmas on `\div` and `%`), and
the books of `_sync_poll_set` (`Registered`): the slot of a socket records the
descriptor it has or had, no two slots the same one, and the poll object holds what
the slots say. `PollSetMatches` alone is not inductive: it speaks of one phase only,
and a descriptor may be closed and opened by another socket between two waits.

### WebSockets

`WebSocketSession_proofs`: `SessionsTypeCorrect` (`TypeOK`, with the hard cap),
`ClosesOnce` (`OneClose`), `DeadlinesKept` (`DeadlinesMatch`), `NoConnectionLeaks`
(`NothingLeaks`), `EveryEndIsTold` (`ClosedIsTold`), against foreign peers that send any
frames. `IInv` is about each session (`Sound`, `Told`) and the server (`Table`,
`Dialled`). `Queued` keeps one slot of the queue for the CLOSE as long as none is
queued, which is why `_send_close` always finds room; `Placed` says in which phases a
callback may run, so that what the application does in one leads back into a pass;
`Fresh` describes a client that has not been told to connect, though it may have been
closed: `told` is that `on_close` was called since `connect()`, and `Told` that it was
if the session has ended and was not refused, and only if it has ended. A pass is proved with the relation
`Follows`, what the operators of a session may never undo, lemma by lemma; a step of one
session leaves the others, but for the link they share.

`MessagesConserved` (`Conserved`) and `PairsInteroperate` (`Interoperable`) are about two
sessions of the library, any number of such pairs. Neither is inductive; `Paired` is,
beside `IInv`. It holds for a session, `Own` (it buffers no part of a message, queues
only frames this library makes, and has sent nothing before it is connected), and for
each direction of its connection, `Way`:

- `Formed`: what is still to be read is such frames, the head of a handshake first and
  only before the reader is open; `Unheard` and `Asked`: before a head has gone out
  nothing is on its way, and a connection in its handshake is sent nothing but the
  request. So the `carry` behind a head is what came after it and nothing else.
- `Numbered`: what was delivered are the messages 1 to k, what is on its way k + 1 to
  m, what is queued m + 1 to the last one taken, once each and in order (`Consecutive`).
  The m in between is what makes it inductive: a send that blocks, a half-sent frame, or
  a callback that sends moves it and nothing else.

A step is proved by what it does to one session and its two directions, from lemmas of
three kinds: what a session does without reading (`Turns`: what it sends is the front
of what it had queued), what it makes of one frame of the library (`Takes`; by
`DispatchOurs` it refuses none), and what either does to a direction (`SaysWay`,
`TakeWay`, `HeadWay`, `DeafWay` for a session that has stopped reading). Both theorems
assume `MaxMessage >= 1`: the messages of a pair have length 1, and under a limit of 0
each would be refused as oversized. `PairsInteroperate` assumes besides that the
application does not itself pass an accusing code to `close()`, whose default is 1000.

### HTTP

`HttpClient_proofs` says what each step of the client does, beside any peer;
`HttpSystem_proofs` adds the server and states the results: `HttpTypeCorrect`
(`TypeOK`), `HttpIdleIsClean` (`IdleIsClean`), `HttpNothingLeaks` (`NothingLeaks`) and
`HttpKeepsItsPromise` (`ImplementsExchange`), for the pair and for either end against a
peer that sends any pieces, and `HttpHandlerHears` (`HandlerHears`) and `HttpFaithful`
(`Faithful`) for the pair; for any requests and replies, any limits on bodies, buffers
and connections. Assumed is that the limits are naturals, the streaming buffer and the
table of connections have room for one, and `None` is no value of the sets it stands
beside.

- *The client.* `ClientInv`: an idle client is as it was made, but for its policy
  and the callbacks that run; a busy one (`Busy`) has one pending handle, `Assigned`,
  whose redirects so far and to come add up to what was asked; its transport is a
  connector or a socket according to its state (`Transport`); its parser is in a
  state its phase allows (`Parsing`), in particular a streamed response is published
  before any of its body and not for a redirect. `calls` is why the invariant is
  more than that of a flat state machine: `cancel` and `request` run inside
  `on_done` and `on_oversized`, in the middle of a step, so each phase is a function
  on states (`[c, h, w]`) and a lemma says what it makes of a state that is sound in
  part.
- *The connections.* `Wiring`: what the client has open is what it uses (`Opened`), a
  connection never made is fresh, one it has closed delivers nothing.
- *The server.* `ServerInv`: the table is within `max_connections` and holds exactly
  the connections open at the server's end, each with its deadline (`Serving`); what
  a phase has left to send, and how far a streamed source is read, agrees with what
  the handler decided on (`Staging`, `Sourced`).
- *The promise.* Of every step `Effect` says what it did to the handles: nothing the
  application sees (`Untold`), a streamed response published (`Published`), or an end
  (`Ended`), of at most one request. Those are the steps of `HttpExchange`, the asking
  for a request is its `Ask`, and a step of the server none of them.
- *What a handler hears.* `HearInv` follows a request from the application to the
  handler: at a connection the server has not read from (`Untouched`) the first piece
  under way, or the first the client has yet to send, is the head of a legitimate
  request (`AskInv`), one that was made or the GET of a redirect that was followed;
  the body read at any other belongs to such a head, and what was heard is one. What
  is legitimate stays so (`LegitKept`): no step takes back a request or a hop.
- *What the application is shown.* `ReplyInv` follows a response the other way. `Flow`:
  after the pieces the client has read come those under way and those staged, each the
  next of what the handler decided on, up to its end while the server still serves the
  connection; a connection that was cut brings a beginning of it. `ParserAt`: the parser
  counts as many units as were kept, so it is done only at the end of a whole response.
  `Shown`: body and buffer of a handle are the first units. A response that is streamed
  grows while it is read, which changes nothing that was read before (`Grown`, `Carries`).

### KeyValueStore and the services

- `KeyValueStore_proofs`: `CleanCorrect` (`CleanIsSaved`) and `StoreIsAtomic`
  (`ImplementsAtomicStore`), for every set of keys and values, every capacity and
  backend. The invariant `KvInv` says what a save has staged and where, that what is
  clean is as last loaded or saved, and that what was last loaded or saved is what a
  load finds, but while a blob waits to be committed. With it every step of the store
  is a step of `AtomicStore` or none; a step of a save that succeeds without having
  replaced what a start may find has no counterpart there.
- `Services_proofs`, NTP: `AnswersCorrect` (`AnswersAfterAsking`), for every number of
  queries, drain limit and depth of the socket. The invariant: the queries asked are the
  first ones (`AskedInv`), and while one is pending whose drain was not cut short the
  socket holds only what arrived since (`InboxInv`), because that drain left nothing.
- `Services_proofs`, wifi: `WifiRetries` (`RetriesAsConfigured`), for every budget,
  start value, cap and timeout. The invariant `WifiInv`: the backoff is the pause of
  one failure more, the failures counted are those since the last link, and what is
  left of a pause and what has passed of it make up the whole. Two assumptions are
  there for it: `PowersOfTwo`, arithmetic the provers do not know and TLC evaluates,
  and that the bound `MaxFailures` on what the model counts lies beyond the failure
  at which the pause reaches its cap.
- `Services_proofs`, buttons: `ButtonsReal` (`NoBounce`), for any number of keys, any
  depth of the ring, any settle time and any lag of `check()` and the constructor, with
  an edge between any two of their steps. The invariant `Story` reads the ring as a
  history: the edges of a key alternate from the level that is pending to the level of
  its pin, and the pin stood before each of them since the one before. Of a key that is
  `Unsure`, because its pin is not read yet or its reading is not good, it does not say
  where the history starts; the first edge taken that leads away from what was read puts
  that right. `Fresh` says why the sweep may trust `now_ms`: what came into the ring since
  it was found empty is no older.

### Model-checked only

- Liveness (`WantedComesBack`, `PublicationsSettle`, `PeriodicServed`,
  `WifiReconnects`, `QueriesEnd`, `LevelsAgree`): fairness and `ENABLED` are beyond
  the prover.
- `NoSilentLoss` with a pre-connect queue: `MC_MqttPublish` checks it where no
  subscription is replayed; where one is, it is finding 3.

## Findings

Four places where the code does not do what its documentation says; each is a run
that TLC ends with a counterexample.

1. `chumicro_mqtt/client.py:956`: after a QoS 0 publication with a callback the
   send deadline stays armed although nothing is left to send, and an idle client
   fails when it passes. The README says only a stalled socket does that.
2. `chumicro_mqtt/client.py:1190`: with `clean_session=False` a subscription
   declared before `connect()` is never sent if the broker resumes the session.
3. `chumicro_mqtt/client.py:554`: the pre-connect queue loses a publication when
   the replayed subscriptions have filled the transmit queue.
4. `chumicro_runner/core.py:442`: an `on_handler_error` that re-raises to fail
   fast is swallowed.

## Limits

- MQTT: `ToldTheTruth` compares what was told last with the state, and does not count the
  calls. `next_message` and its queue, `set_will`, retain flags and QoS 0
  publications without a callback are left out; so are `disconnect()` from the
  `on_disconnect` of a deadline check and `disconnect(); connect()` in one
  callback. Payloads, topics' matching rules and byte layout are abstracted.
- Runner: `run_until` (tick and wait in a loop) and `add_generator` are not
  modelled; the wrap of the tick counter at 2^29 ms is abstracted; a `check()`
  or handler whose exception leaves `tick()` has no other effect in that step; a
  service does not report a socket it has closed. The application acts between
  passes of the loop or inside a callback.
- WebSockets: `next_message` and its queue, `io_interest`, `next_deadline` and
  `last_error` are left out, and so are masking, the accept key and the bytes of a
  frame. Seen while modelling, and part of the model unless said otherwise: `on_close` is
  called twice when a send fails while the session is finalised (`_session.py:659`,
  `client.py:294`); an oversized first fragment with a short last one is delivered
  truncated (`_session.py:465`); an automatic PING dropped at the cap arms the pong
  deadline all the same (`client.py:391`); `connect()` with a factory that raises
  leaves the client connecting, and after `close()` it revives the client. A user
  callback that raises is not modelled, but for `on_connection`. A connection closed during
  its handshake keeps that deadline beside the one of the close; `DeadlinesMatch` permits
  it. Of what a legal foreign peer may send in fragments no property says that it is
  accepted. The run has one message each way: the order of several is proved
  (`MessagesConserved`).
- HTTP: TLS, proxies, encodings, `generators.py` and the matching of routes are left
  out. `cancel()` inside `on_oversized` takes away the state that `handle()` goes on
  with (`client.py:866`): the code then raises `AttributeError`, which the model takes
  for a return, or, if a new request was started, completes that one as dropped, which the
  properties permit. `close()` of the server is
  not final: the next `handle()` listens again. A `stream_buffer_size` too small for
  a piece, and a source that raises `ServerLimitError`, are not modelled.
- Key-value store: `reload()` clears `_dirty` before a load that may raise
  (`core.py:114`), and an nvs `commit()` that fails leaves a blob that a later equal
  dict does not overwrite; `CleanIsSaved` excludes both (`doubt`). nvm is written in
  place (`cp_nvm.py:70`): a power failure during a save may tear the record, the next
  start finds it invalid, and both dicts are lost. `AtomicStore` permits that of such a
  medium (`lossy`), so that on nvm it promises that a confirmed dict is kept only until
  the next save begins. A file that exists but does not open counts as no file
  (`mp_littlefs.py:33`) and is not modelled; nor are values changed in place, which
  `_dirty` does not see.
- Wifi: a callback that calls `handle()` again is not modelled; with
  `reconnect_max=1` it can leave `FAILED`, and a second callback hears transitions
  out of order. `MaxFailures` bounds what is counted, not the failures.
- NTP: a stale answer behind an empty datagram, a read that raises or `_DRAIN_LIMIT`
  others stays in the socket and is taken for the answer to the next query
  (`core.py:227`): `AnswersAfterAsking` excepts a query whose drain was cut short like
  this. An answer that arrives after the next query was sent is taken for its own too:
  the code has nothing to tell them apart. A query whose socket is closed under it never
  ends, and `handle()` raises at each turn (`core.py:255`): `QueriesEnd` excepts it.
- Buttons: a key that changes after the constructor read its pin (`mp.py:105`) and
  before its interrupt is installed (`:116`), and then stands still, is reported as it
  was read, until its next edge: nothing is recorded or flagged as dropped.
  `LevelsAgree` excepts the key while its reading is `stale`, `NoBounce` while it is
  `stale` or `doubtful`, since `change_ms` is then older than the level. An edge and its
  handler are one step. Between finding the ring empty and reading `_dropped_edges`
  (`mp.py:151`, `:187`) a whole ring of edges is assumed not to arrive: resampling would
  then be undone by older edges. `Buttons.check` reads and clears `overflowed` without a
  lock (`core.py:387`), so that a report of an overflow may be lost; no property speaks
  of that report. Clicks, long presses and repeats are left out.
- Generator tasks, connectors, knobs, timing, MessagePack and the decoding of MQTT
  packets are not modelled: sequential code over data, or seen by the models as the
  outcome of a call.
- Other components marked `not_modelled` in `PROJECT.json`, for the reasons there.

-------------------------- MODULE WebSocketSession --------------------------
(***************************************************************************)
(* The WebSocket sessions of chumicro_websockets: WebSocketClient, the     *)
(* Connection of a WebSocketServer, the _BaseSession they share, and the   *)
(* server's table of connections.                                          *)
(*                                                                         *)
(* handle() is one sequential pass that user callbacks interrupt.  pc is   *)
(* the place a session's pass has reached:                                 *)
(*                                                                         *)
(*   idle (-> read -> callback -> read) -> idle                            *)
(*   idle -> opened (-> feed -> callback -> feed) -> idle                  *)
(*                                                                         *)
(* and back is where a callback returns to.  A session speaks to another   *)
(* session of this library, or to a peer that may send anything.  wire[s]  *)
(* holds the bytes on their way to s, in whole frames or handshake heads.  *)
(***************************************************************************)
EXTENDS Integers, Sequences, FiniteSets

CONSTANTS
  Clients, Conns,  \* WebSocketClient objects; connections of one server
  Worlds,          \* the ways sessions and peers are wired together
  MaxTx,           \* max_tx_queue_size
  Headroom,        \* _TX_QUEUE_HEADROOM
  MaxMessage,      \* max_message_bytes
  MaxEmptyRun,     \* _MAX_EMPTY_FRAGMENT_RUN
  Policy,          \* when_oversized
  AutoPing,        \* the clients with a ping_interval_ms
  MaxConnections,  \* max_connections of the server
  ForeignFrames,   \* session -> what a peer that is not this library sends it
  Codes,           \* the codes the application closes with
  MaxSends,        \* session -> bound on the messages its application sends
  Pingers,         \* the sessions whose application calls send_ping
  WireCap,         \* bound on the items on their way to one session
  None

Sessions == Clients \cup Conns

(* A message in order of sending: n is the n-th of its sender, 0 of a       *)
(* foreign peer.  A handshake head travels as a frame of its own op.        *)
Frame == [op : {"data", "cont", "close", "ping", "pong", "reserved",
                "request", "accept", "refusal"},
          fin : BOOLEAN, clean : BOOLEAN, len : Nat, utf8 : BOOLEAN,
          n : Nat, code : Codes \cup {None, "normal", "protocol", "baddata",
                                      "toobig", "malformed"}]
Plain(op, n) ==
  [op |-> op, fin |-> TRUE, clean |-> TRUE, len |-> 1, utf8 |-> TRUE, n |-> n,
   code |-> None]
CloseFrame(code) == [Plain("close", 0) EXCEPT !.code = code]

(* The control frames of the wire format, and the close codes that must     *)
(* never be sent.                                                           *)
Control == {"close", "ping", "pong"}
Heads   == {"request", "accept", "refusal"}
Reserved == {"reserved"}

ASSUME SessionAssumption ==
  /\ Clients \cap Conns = {}
  /\ None \notin Sessions \cup Frame \cup Codes
  /\ None \notin {"awaiting", "sending", "receiving", "read", "feed", "normal", "protocol",
                  "baddata", "toobig", "malformed", "internal"}
  /\ \A w \in Worlds :
       /\ DOMAIN w \subseteq Sessions
       /\ \A s \in DOMAIN w : w[s] # None => /\ w[s] \in DOMAIN w /\ w[w[s]] = s
                                             /\ s \in Clients <=> w[s] \in Conns
  /\ MaxTx \in Nat \ {0} /\ Headroom \in Nat \ {0}
  /\ MaxMessage \in Nat /\ MaxEmptyRun \in Nat
  /\ Policy \in {"drop_silent", "drop_with_event", "disconnect"}
  /\ AutoPing \subseteq Clients
  /\ MaxConnections \in Nat \ {0}
  /\ MaxSends \in [Sessions -> Nat] /\ Pingers \subseteq Sessions /\ WireCap \in Nat \ {0}
  /\ ForeignFrames \in [Sessions -> SUBSET Frame]

VARIABLES
  ws,      \* the sessions
  wire,    \* what is on its way to each
  server,  \* the WebSocketServer
  peer     \* the world: a live session's peer, None when it is foreign

vars == <<ws, wire, server, peer>>

Live == DOMAIN peer

NoMessage == [open |-> FALSE, fill |-> 0, big |-> FALSE, utf8 |-> TRUE, empty |-> 0]

(* _init_session_state; link is the transport as the session sees it: none, *)
(* up, eof (the peer closed it), reset, dead (the peer fell silent), closed.*)
(* shut, got and told are history: CLOSE frames sent, messages delivered,   *)
(* on_close called since connect().                                         *)
NewSession ==
  [state |-> "connecting", phase |-> None, called |-> FALSE, link |-> "none",
   pc |-> "idle", back |-> None, carry |-> <<>>, tx |-> <<>>, part |-> None,
   msg |-> NoMessage, garbled |-> FALSE, armed |-> {}, code |-> None,
   told |-> FALSE, refused |-> FALSE,
   sends |-> 0, shut |-> 0, got |-> <<>>]

WsInit ==
  /\ peer \in Worlds
  /\ ws = [s \in Live |-> NewSession]
  /\ wire = [s \in Live |-> <<>>]
  /\ server = [state |-> "unbound", conns |-> {}, backlog |-> {}]

-----------------------------------------------------------------------------
(* The transmit queue: user frames up to MaxTx, internal frames up to the   *)
(* hard cap, whose last slot is reserved for CLOSE.                         *)
HardCap == MaxTx + Headroom

Pending(r) == (IF r.part = None THEN <<>> ELSE <<r.part>>) \o r.tx

InternalLimit_Beyond(op) == HardCap + 1      \* mutant: the cap forgotten
InternalLimit_Shared(op) == HardCap          \* mutant: no slot kept for CLOSE
InternalLimit(op) == IF op = "close" THEN HardCap ELSE HardCap - 1

Internal(r, f) ==
  IF Len(r.tx) >= InternalLimit(f.op) THEN r ELSE [r EXCEPT !.tx = Append(@, f)]

(* _send_close: a no-op once closing; the code reported is the first one.   *)
ClosePayload(code) == IF code \in Reserved THEN None ELSE code

SendClose(r, code) ==
  IF r.state \in {"closing", "closed"} THEN r
  ELSE [Internal(r, CloseFrame(ClosePayload(code))) EXCEPT
          !.code = IF @ = None THEN code ELSE @,
          !.state = "closing",
          !.armed = @ \cup {"close"}]

(* _drop_transport, then _on_finalized of the two kinds of session.         *)
DropTransport(r) ==
  [r EXCEPT !.state = "closed",
            !.armed = @ \ {"handshake", "close", "pong"},
            !.link = IF @ = "none" THEN @ ELSE "closed"]

OnFinalized_KeepsPing(s, r) ==               \* mutant: auto ping left armed
  [r EXCEPT !.armed = @ \ {"handshake"}, !.phase = None]
OnFinalized(s, r) ==
  IF s \in Clients
  THEN [r EXCEPT !.armed = @ \ {"handshake", "auto"}, !.phase = None]
  ELSE [r EXCEPT !.armed = @ \ {"handshake"}]

OnClose(r) == [r EXCEPT !.told = TRUE]

FailWithError(s, r) ==
  OnClose(OnFinalized(s, DropTransport(
    [r EXCEPT !.code = IF @ = None THEN "internal" ELSE @])))

-----------------------------------------------------------------------------
(* A step of a session yields a set of outcomes: the session it leaves and  *)
(* the frames it hands to its transport.                                    *)
Out(r, frames) == [r |-> r, out |-> frames]
Only(r) == {Out(r, <<>>)}

Room(s) == IF peer[s] = None THEN WireCap ELSE WireCap - Len(wire[peer[s]])

Least(a, b) == IF a < b THEN a ELSE b

(* _drain_outbound: some frames leave, then the queue is empty, the budget  *)
(* is spent, the next one is left half sent, or the send fails.             *)
Without(r, i) == [r EXCEPT !.part = None, !.tx = SubSeq(Pending(r), i + 1, Len(Pending(r)))]

HalfSent_Requeued(r, i) ==                   \* mutant: also left in the queue
  [Without(r, i) EXCEPT !.part = Pending(r)[i + 1]]
HalfSent(r, i) == [Without(r, i + 1) EXCEPT !.part = Pending(r)[i + 1]]

Drained(s, r) ==
  LET todo   == Pending(r)
      most   == IF r.link \in {"up", "eof", "dead"} THEN Least(Len(todo), Room(s)) ELSE 0
      Sent(i) == SubSeq(todo, 1, i)
  IN  IF todo = <<>> THEN Only(r)
      ELSE {Out(Without(r, i), Sent(i)) : i \in 1..most}
           \cup (IF r.link \in {"up", "eof", "dead"}
                 THEN {Out(HalfSent(r, i), Sent(i)) : i \in 0..Least(most, Len(todo) - 1)}
                 ELSE {})
           \cup (IF r.link \in {"eof", "reset", "closed"}
                 THEN {Out(FailWithError(s, HalfSent(r, i)), Sent(i)) :
                         i \in 0..Least(most, Len(todo) - 1)}
                 ELSE {})

(* _finalize_closed: a last drain, which may itself fail and report.        *)
FinalizeClosed_Silent(s, r) ==               \* mutant: on_close forgotten
  {Out(OnFinalized(s, DropTransport(o.r)), o.out) : o \in Drained(s, r)}
FinalizeClosed(s, r) ==
  {Out(OnClose(OnFinalized(s, DropTransport(o.r))), o.out) : o \in Drained(s, r)}

-----------------------------------------------------------------------------
(* FrameParser: what the header check refuses for good, and what exceeds    *)
(* max_payload_bytes and is drained instead of kept.                        *)
Refused(f) == \/ f.op \in Heads \cup {"reserved"}
              \/ f.op \in Control /\ ~f.fin

TooLong_AtLimit(f) == f.len >= MaxMessage    \* mutant: off by one
TooLong(f) == f.len > MaxMessage

(* The frame the parser puts together from the next bytes, in any chunks.   *)
NextFrame(s) == Head(wire[s])

Callback(r, p) == [r EXCEPT !.back = r.pc, !.pc = p]

(* _deliver_message *)
Deliver(r, utf8, n) ==
  IF ~utf8 THEN SendClose(r, "baddata")
  ELSE Callback([r EXCEPT !.got = IF n = 0 THEN @ ELSE Append(@, n)], "callback")

(* _finish_oversized_message *)
FinishOversized(r) ==
  CASE Policy = "drop_silent"     -> r
    [] Policy = "drop_with_event" -> Callback(r, "callback")
    [] Policy = "disconnect"      -> SendClose(r, "toobig")

(* _handle_data_frame.  A message ends in one of three ways: delivered      *)
(* straight from its last frame when nothing is buffered, reported as       *)
(* oversized, or delivered from the buffer.                                 *)
Misplaced(m, f) == (f.op = "cont") # m.open

Started(m, f) ==
  [m EXCEPT !.open = TRUE,
            !.utf8 = @ /\ f.utf8,
            !.empty = IF f.len > 0 THEN 0 ELSE IF f.fin THEN @
                      ELSE Least(@ + 1, MaxEmptyRun + 1)]

Direct(m, f) == f.fin /\ m.fill = 0 /\ ~TooLong(f)

Extended(m, f) ==
  IF TooLong(f) THEN [m EXCEPT !.big = TRUE]
  ELSE IF m.big THEN m
  ELSE IF m.fill + f.len > MaxMessage THEN [m EXCEPT !.big = TRUE]
  ELSE [m EXCEPT !.fill = @ + f.len]

HandleData(r, f) ==
  LET m    == Started(r.msg, f)
      e    == Extended(m, f)
      done == [r EXCEPT !.msg = NoMessage]
  IN  IF Misplaced(r.msg, f) THEN SendClose(r, "protocol")
      ELSE IF m.empty > MaxEmptyRun THEN SendClose([r EXCEPT !.msg = m], "protocol")
      ELSE IF Direct(m, f) THEN Deliver(done, f.utf8, f.n)
      ELSE IF ~f.fin THEN [r EXCEPT !.msg = e]
      ELSE IF e.big THEN FinishOversized(done)
      ELSE Deliver(done, e.utf8, f.n)

(* parse_close_payload refuses one byte, a reserved code, bad UTF-8.        *)
Malformed(f) == f.code = "malformed"

(* _handle_close_frame *)
HandleClose(s, r, f) ==
  IF Malformed(f) THEN Only(SendClose(r, "protocol"))
  ELSE IF r.state = "closing"
  THEN FinalizeClosed(s, [r EXCEPT !.code = IF @ = None THEN f.code ELSE @])
  ELSE FinalizeClosed(s, SendClose([r EXCEPT !.code = f.code],
                                   IF f.code = None THEN "normal" ELSE f.code))

HandlePing(r, f) == Callback(Internal(r, Plain("pong", 0)), "callback")

HandlePong(r) == Callback([r EXCEPT !.armed = @ \ {"pong"}], "callback")

(* _feed_frame_bytes for one frame: once the parser has failed it stays so  *)
(* and ignores all that follows.                                            *)
Dispatch(s, r, f) ==
  IF r.garbled THEN Only(r)
  ELSE IF Refused(f)
  THEN Only([SendClose(r, "protocol") EXCEPT !.garbled = TRUE])
  ELSE IF ~f.clean THEN Only(SendClose(r, "protocol"))
  ELSE CASE f.op = "close" -> HandleClose(s, r, f)
         [] f.op = "ping"  -> Only(HandlePing(r, f))
         [] f.op = "pong"  -> Only(HandlePong(r))
         [] OTHER          -> Only(HandleData(r, f))

-----------------------------------------------------------------------------
(* The rest of a chunk is dropped when the session closes or the parser     *)
(* fails in the middle of it.                                               *)
Settle(r) == IF r.state = "closed" \/ r.garbled THEN [r EXCEPT !.carry = <<>>] ELSE r

Closes(frames) == Cardinality({i \in DOMAIN frames : frames[i].op = "close"})

(* A connection that is closed when its turn ends leaves the table.         *)
Kept_All(s, r) == server.conns               \* mutant: never popped
Kept(s, r) == IF s \in Conns /\ r.pc = "idle" /\ r.state = "closed"
              THEN server.conns \ {s} ELSE server.conns

(* Nothing looks at the queue of a session again once its last pass is over.*)
Ended(r) == r.state = "closed" /\ r.pc = "idle"

Forgotten(r) ==
  IF Ended(r)
  THEN [r EXCEPT !.tx = <<>>, !.part = None, !.msg = NoMessage, !.garbled = FALSE,
                 !.carry = <<>>]
  ELSE r

(* Takes an outcome: the frames reach the peer while it has the transport,  *)
(* a peer whose transport we closed sees its end, and rest is left to read. *)
YieldFrom(s, o, rest) ==
  LET p == peer[s]
      r == Forgotten([o.r EXCEPT !.shut = @ + Closes(o.out)])
  IN  /\ ws' = [t \in Live |->
                  IF t = s THEN r
                  ELSE IF t = p /\ r.link = "closed" /\ ws[t].link = "up"
                  THEN [ws[t] EXCEPT !.link = "eof"] ELSE ws[t]]
      /\ wire' = [t \in Live |->
                    IF t = s THEN IF Ended(r) THEN <<>> ELSE rest
                    ELSE IF t = p /\ ws[s].link = "up" /\ ws[t].link = "up"
                    THEN wire[t] \o o.out ELSE wire[t]]
      /\ server' = [server EXCEPT !.conns = Kept(s, r)]
      /\ UNCHANGED peer

Yield(s, o) == YieldFrom(s, o, wire[s])
Yields(s, outcomes) == \E o \in outcomes : Yield(s, o)

(* One board runs the server with all its connections, each client has its  *)
(* own: code of a board runs when no other session of it is in a pass,      *)
(* except from inside a callback.                                           *)
Board(s) == IF s \in Conns THEN Conns \cap Live ELSE {s}
Resting(s) == \A t \in Board(s) : ws[t].pc = "idle"
AppRuns(s) == \A t \in Board(s) : ws[t].pc \in {"idle", "callback", "opened"}

(* handle() reaches s: the client has been told to connect, the server has  *)
(* the connection in its table.                                             *)
Handled(s) ==
  /\ Resting(s)
  /\ ws[s].state # "closed"
  /\ IF s \in Clients THEN ws[s].called ELSE s \in server.conns

-----------------------------------------------------------------------------
(* _check_timeouts *)
Timeout(s, d) ==
  LET r == ws[s] IN
  /\ Handled(s)
  /\ d \in r.armed
  /\ Yields(s, IF d = "close" THEN FinalizeClosed(s, r)
               ELSE Only([FailWithError(s, r) EXCEPT !.carry = <<>>]))

(* _advance_connector; the transport of a client reaches a server that      *)
(* listens, or a foreign peer.                                              *)
TransportReady(s) ==
  LET p == peer[s] IN
  /\ s \in Clients /\ Handled(s)
  /\ ws[s].state = "connecting" /\ ws[s].phase = "awaiting"
  /\ p # None => server.state = "listening"
  /\ ws' = [t \in Live |-> IF t = s THEN [ws[s] EXCEPT !.link = "up", !.phase = "sending"]
                           ELSE IF t = p THEN [ws[t] EXCEPT !.link = "up"] ELSE ws[t]]
  /\ server' = [server EXCEPT !.backlog = @ \cup ({p} \ {None})]
  /\ UNCHANGED <<wire, peer>>

TransportFails(s) ==
  /\ s \in Clients /\ Handled(s)
  /\ ws[s].state = "connecting" /\ ws[s].phase = "awaiting"
  /\ Yields(s, Only(FailWithError(s, ws[s])))

(* _send_handshake_chunk, _on_handshake_send_complete and _enter_open.      *)
EnterOpen(r) ==
  [r EXCEPT !.phase = None, !.armed = @ \ {"handshake"}, !.state = "open",
            !.pc = "opened", !.back = "feed"]

SendHandshake(s) ==
  LET r == ws[s] IN
  /\ Handled(s)
  /\ r.state = "connecting" /\ r.phase = "sending"
  /\ \/ /\ r.link # "reset" /\ Room(s) > 0
        /\ IF s \in Clients
           THEN Yields(s, {Out([r EXCEPT !.phase = "receiving"], <<Plain("request", 0)>>)})
           ELSE Yields(s, {Out(EnterOpen(r), <<Plain("accept", 0)>>)})
     \/ /\ r.link \in {"reset", "eof"}
        /\ Yields(s, Only(FailWithError(s, r)))

(* recv reports the end of the stream, or an error, only after the bytes.   *)
StreamEnds(s) ==
  \/ ws[s].link = "eof" /\ wire[s] = <<>>
  \/ ws[s].link = "reset"

HandshakeLost(s) ==
  /\ Handled(s)
  /\ ws[s].state = "connecting" /\ ws[s].phase = "receiving"
  /\ StreamEnds(s)
  /\ Yields(s, Only(FailWithError(s, ws[s])))

(* The handshake parsers: a head is taken, refused, or absorbed into a line *)
(* that can no longer become a handshake.                                   *)
IsAcceptance(r, f) == ~r.garbled /\ f.op = "accept"
IsRequest(r, f)    == ~r.garbled /\ f.op = "request"
Absorbed(r, f)     == IF f.op \in Heads THEN {} ELSE Only([r EXCEPT !.garbled = TRUE])

(* What came behind the head in the same chunk: the next n frames.          *)
Receiving(s) ==
  /\ Handled(s)
  /\ ws[s].state = "connecting" /\ ws[s].phase = "receiving"
  /\ ws[s].link # "reset" /\ wire[s] # <<>>

WithCarry(s, r) ==
  LET rest == Tail(wire[s]) IN
  \E n \in 0..Len(rest) :
    YieldFrom(s, Out([r EXCEPT !.carry = SubSeq(rest, 1, n)], <<>>),
              SubSeq(rest, n + 1, Len(rest)))

(* WebSocketClient._receive_handshake_chunk *)
ArmAutoPing(s, r) ==
  [r EXCEPT !.armed = @ \cup (IF s \in AutoPing THEN {"auto"} ELSE {})]

ReceiveResponse(s) ==
  LET r == ws[s]  f == Head(wire[s]) IN
  /\ s \in Clients /\ Receiving(s)
  /\ IF IsAcceptance(r, f) THEN WithCarry(s, ArmAutoPing(s, EnterOpen(r)))
     ELSE \E o \in Absorbed(r, f) \cup Only(FailWithError(s, r)) :
            YieldFrom(s, o, Tail(wire[s]))

(* Connection._receive_handshake_chunk, and _reject, which tells nobody.    *)
Reject(r) == DropTransport([r EXCEPT !.refused = TRUE])

ReceiveRequest(s) ==
  LET r == ws[s]  f == Head(wire[s]) IN
  /\ s \in Conns /\ Receiving(s)
  /\ IF IsRequest(r, f) THEN WithCarry(s, [r EXCEPT !.phase = "sending"])
     ELSE \E o \in Absorbed(r, f) \cup {Out(Reject(r), <<Plain("refusal", 0)>>)} :
            YieldFrom(s, o, Tail(wire[s]))

-----------------------------------------------------------------------------
(* handle() of an open or closing session: _drain_inbound frame by frame,   *)
(* until the budget or the bytes are spent; then, with no callback left to  *)
(* run, _drain_outbound, even when the session has just closed, and the     *)
(* automatic ping of a client, if it is time for one.                       *)
Reading(s) ==
  \/ ws[s].pc = "read"
  \/ Handled(s) /\ ws[s].state \in {"open", "closing"}

Read(s) ==
  /\ Reading(s) /\ ws[s].state # "closed" /\ ws[s].link # "reset"
  /\ wire[s] # <<>>
  /\ \E o \in Dispatch(s, [ws[s] EXCEPT !.pc = "read"], NextFrame(s)) :
       YieldFrom(s, o, Tail(wire[s]))

ArmPong(r) == [r EXCEPT !.armed = @ \cup {"pong"}]

AutoPinged(r) ==
  IF r.state # "open" \/ "auto" \notin r.armed THEN r
  ELSE ArmPong(Internal(r, Plain("ping", 0)))

FinishPass(s, pings) ==
  LET r == [ws[s] EXCEPT !.pc = "idle"]
      q == IF r.state # "closed" /\ StreamEnds(s) THEN FailWithError(s, r) ELSE r
  IN
  /\ Reading(s)
  /\ Yields(s, {IF pings THEN Out(AutoPinged(o.r), o.out) ELSE o : o \in Drained(s, q)})

(* _post_handshake_carry: what came behind the handshake head, fed after    *)
(* the callback that announced the session.                                 *)
Feed(s) ==
  LET r == ws[s] IN
  /\ r.pc = "feed"
  /\ IF r.carry = <<>> THEN Yields(s, Only([r EXCEPT !.pc = "idle"]))
     ELSE Yields(s, {Out(Settle(o.r), o.out) :
                       o \in Dispatch(s, [r EXCEPT !.carry = Tail(@)], Head(r.carry))})

CallbackReturns(s) ==
  LET r == [ws[s] EXCEPT !.pc = ws[s].back, !.back = None] IN
  /\ ws[s].pc \in {"callback", "opened"}
  /\ Yields(s, Only(IF ws[s].pc = "opened" THEN r ELSE Settle(r)))

(* An on_connection callback that raises fails the connection.              *)
OnConnectionRaises(s) ==
  /\ s \in Conns /\ ws[s].pc = "opened"
  /\ Yields(s, Only([FailWithError(s, ws[s]) EXCEPT !.pc = "idle", !.back = None,
                                                    !.carry = <<>>]))

-----------------------------------------------------------------------------
(* The application, from its own code or from inside a callback.            *)

(* connect() counts as called before its URL or its factory may raise; a    *)
(* client closed before is connecting again.                                *)
ConnectRaises(s) ==
  /\ s \in Clients /\ AppRuns(s) /\ ~ws[s].called
  /\ Yields(s, Only([ws[s] EXCEPT !.called = TRUE]))

Connect(s) ==
  /\ s \in Clients /\ AppRuns(s) /\ ~ws[s].called
  /\ Yields(s, Only([ws[s] EXCEPT !.called = TRUE, !.state = "connecting",
                        !.phase = "awaiting", !.armed = @ \cup {"handshake"},
                        !.told = FALSE]))

UserRoom(r) == Len(r.tx) < MaxTx

Send(s) ==
  LET r == ws[s] IN
  /\ AppRuns(s) /\ r.state = "open" /\ UserRoom(r) /\ r.sends < MaxSends[s]
  /\ Yields(s, Only([r EXCEPT !.tx = Append(@, Plain("data", r.sends + 1)),
                              !.sends = @ + 1]))

SendPing(s) ==
  LET r == ws[s] IN
  /\ s \in Pingers /\ AppRuns(s) /\ r.state = "open" /\ UserRoom(r)
  /\ Yields(s, Only(ArmPong([r EXCEPT !.tx = Append(@, Plain("ping", 0))])))

(* close(): a client that is still connecting just lets go, a connection    *)
(* that is still in its handshake starts the closing one.                   *)
Close(s, code) ==
  LET r == ws[s] IN
  /\ AppRuns(s) /\ r.state \in {"connecting", "open"}
  /\ s \in Conns => s \in server.conns
  /\ Yields(s, Only(IF s \in Clients /\ r.state = "connecting"
                    THEN OnClose(OnFinalized(s, DropTransport(
                           [r EXCEPT !.code = IF @ = None THEN code ELSE @])))
                    ELSE IF r.state = "connecting"
                    THEN [SendClose(r, code) EXCEPT !.garbled = FALSE]
                    ELSE SendClose(r, code)))

-----------------------------------------------------------------------------
(* WebSocketServer.handle: bind on the first pass, then accept while there  *)
(* is room.                                                                 *)
ServerRests == \A k \in Conns \cap Live : ws[k].pc = "idle"

Bind ==
  /\ server.state = "unbound" /\ ServerRests /\ Conns \cap Live # {}
  /\ server' = [server EXCEPT !.state = "listening"]
  /\ UNCHANGED <<ws, wire, peer>>

HasRoom == Cardinality(server.conns) < MaxConnections

Accepted(r) == [r EXCEPT !.phase = "receiving", !.armed = {"handshake"}]

Accept(k) ==
  /\ server.state = "listening" /\ ServerRests
  /\ k \in server.backlog /\ HasRoom
  /\ ws' = [ws EXCEPT ![k] = Accepted(@)]
  /\ server' = [server EXCEPT !.backlog = @ \ {k}, !.conns = @ \cup {k}]
  /\ UNCHANGED <<wire, peer>>

(* WebSocketServer.close: a last CLOSE to every open connection, all are    *)
(* finalized and forgotten.  The system resets what waited to be accepted.  *)
Shutdown(k) ==
  FinalizeClosed(k, IF ws[k].state = "open" THEN SendClose(ws[k], "normal") ELSE ws[k])

CloseServer ==
  LET open == {k \in server.conns : ws[k].state # "closed"} IN
  /\ server.state # "closed"
  /\ \A k \in Conns \cap Live : ws[k].pc \in {"idle", "callback", "opened"}
  /\ Conns \cap Live # {}
  /\ \E o \in [open -> UNION {Shutdown(k) : k \in open}] :
       /\ \A k \in open : o[k] \in Shutdown(k)
       /\ ws' = [s \in Live |->
             IF s \in open THEN [o[s].r EXCEPT !.shut = @ + Closes(o[s].out)]
             ELSE IF s \in server.backlog THEN [ws[s] EXCEPT !.link = "closed"]
             ELSE IF peer[s] \in open /\ ws[s].link = "up"
             THEN [ws[s] EXCEPT !.link = "eof"]
             ELSE IF peer[s] \in server.backlog /\ ws[s].link = "up"
             THEN [ws[s] EXCEPT !.link = "reset"] ELSE ws[s]]
       /\ wire' = [s \in Live |->
             IF peer[s] \in open /\ ws[s].link = "up" /\ ws[peer[s]].link = "up"
             THEN wire[s] \o o[peer[s]].out ELSE wire[s]]
  /\ server' = [state |-> "closed", conns |-> {}, backlog |-> {}]
  /\ UNCHANGED peer

-----------------------------------------------------------------------------
(* The world: foreign peers, and transports that break.                     *)
ForeignDials(k) ==
  /\ k \in Conns \cap Live /\ peer[k] = None /\ ws[k].link = "none"
  /\ server.state = "listening"
  /\ ws' = [ws EXCEPT ![k].link = "up"]
  /\ server' = [server EXCEPT !.backlog = @ \cup {k}]
  /\ UNCHANGED <<wire, peer>>

ForeignSends(s) ==
  /\ peer[s] = None /\ ws[s].link = "up" /\ Len(wire[s]) < WireCap
  /\ \E f \in ForeignFrames[s] : wire' = [wire EXCEPT ![s] = Append(@, f)]
  /\ UNCHANGED <<ws, server, peer>>

(* The peer closes, the connection is reset, or the peer just falls silent. *)
LinkBreaks(s) ==
  /\ ws[s].link = "up"
  /\ \E l \in IF peer[s] = None THEN {"eof", "reset", "dead"} ELSE {"reset"} :
       /\ ws' = [t \in Live |-> IF t = s THEN [ws[s] EXCEPT !.link = l]
                               ELSE IF t = peer[s] /\ ws[t].link = "up"
                               THEN [ws[t] EXCEPT !.link = l] ELSE ws[t]]
       /\ wire' = IF l = "eof" THEN wire ELSE [wire EXCEPT ![s] = <<>>]
  /\ UNCHANGED <<server, peer>>

-----------------------------------------------------------------------------
Pass(s) ==
  \/ TransportReady(s) \/ TransportFails(s) \/ SendHandshake(s)
  \/ ReceiveResponse(s) \/ ReceiveRequest(s) \/ HandshakeLost(s)
  \/ Read(s) \/ (\E pings \in BOOLEAN : FinishPass(s, pings)) \/ Feed(s) \/ CallbackReturns(s)

Application(s) ==
  \/ ConnectRaises(s) \/ Connect(s) \/ Send(s) \/ SendPing(s) \/ OnConnectionRaises(s)
  \/ \E code \in Codes : Close(s, code)

World(s) == ForeignDials(s) \/ ForeignSends(s) \/ LinkBreaks(s)

WsNext ==
  \/ \E s \in Live : \/ Pass(s) \/ Application(s) \/ World(s)
                     \/ \E d \in {"handshake", "close", "pong"} : Timeout(s, d)
  \/ Bind \/ CloseServer \/ \E k \in Conns \cap Live : Accept(k)

Spec == WsInit /\ [][WsNext]_vars

-----------------------------------------------------------------------------
(* Every field holds what the code may put there, and the transmit queue    *)
(* stays under its hard cap.                                                *)
Session ==
  [state   : {"connecting", "open", "closing", "closed"},
   phase   : {None, "awaiting", "sending", "receiving"},
   called  : BOOLEAN,
   link    : {"none", "up", "eof", "reset", "dead", "closed"},
   pc      : {"idle", "opened", "callback", "feed", "read"},
   back    : {None, "feed", "read"},
   carry   : Seq(Frame), tx : Seq(Frame), part : Frame \cup {None},
   msg     : [open : BOOLEAN, fill : 0..MaxMessage, big : BOOLEAN, utf8 : BOOLEAN,
              empty : 0..MaxEmptyRun + 1],
   garbled : BOOLEAN,
   armed   : SUBSET {"handshake", "close", "pong", "auto"},
   code    : Codes \cup {None, "normal", "protocol", "baddata", "toobig", "malformed",
                        "internal"},
   told    : BOOLEAN, refused : BOOLEAN,
   sends   : Nat, shut : Nat, got : Seq(Nat)]

TypeOK ==
  /\ peer \in Worlds
  /\ ws \in [Live -> Session] /\ \A s \in Live : Len(ws[s].tx) <= HardCap
  /\ wire \in [Live -> Seq(Frame)]
  /\ server \in [state : {"unbound", "listening", "closed"},
                 conns : SUBSET (Conns \cap Live), backlog : SUBSET (Conns \cap Live)]

Numbers(n) == [i \in 1..n |-> i]

(* The messages among the frames are number a + 1 to number b, once each    *)
(* and in this order.                                                       *)
Consecutive(frames, a, b) ==
  LET D == {i \in 1..Len(frames) : frames[i].op = "data"} IN
  /\ {frames[i].n : i \in D} = (a + 1)..b
  /\ \A i, j \in D : i < j => frames[i].n < frames[j].n

(* The closing handshake: a session that is closing has one CLOSE queued or *)
(* sent, whatever filled the queue before; nobody ever sends a second one,  *)
(* and no message of the user follows it (_send_close, reserved slot).      *)
OneClose ==
  \A s \in Live :
    LET r == ws[s]  todo == Pending(r)  n == Closes(todo) + r.shut IN
    /\ n <= 1
    /\ r.state = "closing" => n = 1
    /\ r.shut = 1 => \A i \in 1..Len(todo) : todo[i].op # "data"
    /\ \A i, j \in 1..Len(todo) :
         todo[i].op = "close" /\ todo[j].op = "data" => j < i

(* Between two sessions of the library messages are delivered once each, in *)
(* the order send_text took them, and while the transport is whole each one *)
(* taken is delivered, on its way or queued, also across the handshake, the *)
(* carry behind its head and the closing handshake.                         *)
Conserved ==
  \A s \in Live : peer[s] # None =>
    LET p == peer[s]  got == ws[p].got IN
    /\ got = Numbers(Len(got)) /\ Len(got) <= ws[s].sends
    /\ (/\ ws[s].link = "up" /\ ws[p].link = "up"
        /\ ws[s].state # "closed" /\ ws[p].state # "closed" /\ ~ws[p].garbled) =>
         Consecutive(ws[p].carry \o wire[p] \o Pending(ws[s]), Len(got), ws[s].sends)

(* The deadlines that keep a session from hanging: a handshake under way    *)
(* has one, a closing session has one, a closed one has none left to wake   *)
(* the runner for.                                                          *)
DeadlinesMatch ==
  \A s \in Live :
    LET r == ws[s] IN
    /\ r.state = "connecting" /\ r.phase # None => "handshake" \in r.armed
    /\ r.state = "closing" <=> "close" \in r.armed
    /\ r.state = "closed" => r.armed = {}
    /\ r.state = "open" => "handshake" \notin r.armed

(* The server knows every connection it accepted until it is closed, never  *)
(* has more than max_connections, and leaves none alive when it closes; a   *)
(* session that is closed has let go of its socket.                         *)
NothingLeaks ==
  /\ Cardinality(server.conns) <= MaxConnections
  /\ \A s \in Live : ws[s].state = "closed" => ws[s].link \in {"none", "closed"}
  /\ \A k \in Conns \cap Live :
       /\ ws[k].phase # None /\ ws[k].state # "closed" => k \in server.conns
       /\ ws[k].state \in {"open", "closing"} => k \in server.conns
       /\ ws[k].state = "closed" /\ Resting(k) => k \notin server.conns

(* Two sessions of the library never accuse each other: no close code of a  *)
(* protocol error, of bad data or of an oversized message is ever reported. *)
Interoperable ==
  \A s \in Live : peer[s] # None =>
    ws[s].code \notin {"protocol", "baddata", "toobig"}

(* on_close is called for every session that ends, except a connection that *)
(* was refused in its handshake, and never for one that has not ended: not  *)
(* when the CLOSE is only queued, sent or awaited (_send_close, _on_close). *)
ClosedIsTold ==
  \A s \in Live :
    LET r == ws[s] IN
    /\ r.state = "closed" => r.told \/ r.refused
    /\ r.told => r.state = "closed"
=============================================================================

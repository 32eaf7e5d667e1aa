----------------------------- MODULE HttpClient -----------------------------
(***************************************************************************)
(* HttpClient and RequestHandle of chumicro_requests: one request at a     *)
(* time over a fresh connection, redirects under one deadline, whole and   *)
(* streamed bodies.  An action is one phase of handle(), or one call of    *)
(* the application, which may come from inside a callback: calls is the    *)
(* stack of the callbacks that are running.                                *)
(***************************************************************************)
EXTENDS HttpWire

CONSTANTS
  MaxRequests,   \* bound on the requests ever accepted
  Requests,      \* what the application asks for: the n-th time, one of these
  Policies,      \* the values of when_oversized
  MaxBody,       \* max_body_bytes
  StreamBuffer   \* stream_buffer_size

Request == [method : {"GET", "POST"}, len : Nat, stream : BOOLEAN, redirects : Nat]

ASSUME ClientAssumption ==
  /\ MaxRequests \in Nat /\ Requests \in [1..MaxRequests -> SUBSET Request]
  /\ Policies \subseteq {"drop_silent", "drop_with_event", "disconnect"}
  /\ MaxBody \in Nat /\ StreamBuffer \in Nat \ {0}

VARIABLES client, handles

clientVars == <<client, handles, wire>>

Ids == 1..MaxRequests

NoHandle == [phase |-> "unused", ask |-> None, result |-> None, resp |-> None,
             status |-> None, body |-> <<>>, buf |-> <<>>, fill |-> 0,
             hops |-> 0, told |-> 0]

Idle(policy) ==
  [state |-> "idle", request |-> None, connector |-> None, socket |-> None,
   tx |-> <<>>, parser |-> None, stream |-> FALSE, left |-> 0, armed |-> FALSE,
   calls |-> <<>>, policy |-> policy]

ClientInit ==
  /\ \E p \in Policies : client = Idle(p)
  /\ handles = [i \in Ids |-> NoHandle]

(* A phase maps the client, its handles and the connections to new ones.    *)
Now == [c |-> client, h |-> handles, w |-> wire]
Becomes(s) == client' = s.c /\ handles' = s.h /\ wire' = s.w

-----------------------------------------------------------------------------
(* ResponseParser.  The whole body of a response that is not streamed is    *)
(* kept here; the body of a streamed one waits in the handle's source.      *)
NewParser == [st |-> "status", status |-> None, loc |-> None, left |-> None, body |-> <<>>]

Parser == [st : {"status", "body", "chunks", "done", "error", "oversized"},
           status : Statuses \cup {None},
           loc : {None, "ok", "bad"}, left : Nat \cup {None}, body : Seq(BodyPiece)]

ASSUME NoneIsNoValue == None \notin Parser /\ None \notin Request

ParseError(p) == [p EXCEPT !.st = "error"]
Oversized(p)  == [p EXCEPT !.st = "oversized"]

(* _enter_body_state *)
EnterBody(p, head, stream) ==
  LET q == [p EXCEPT !.status = head.status, !.loc = head.loc] IN
  CASE head.status = "nobody"    -> [q EXCEPT !.st = "done"]
    [] head.status # "nobody" /\ head.frame = "bad"     -> ParseError(q)
    [] head.status # "nobody" /\ head.frame = "chunked" -> [q EXCEPT !.st = "chunks"]
    [] head.status # "nobody" /\ head.frame = "close"   -> [q EXCEPT !.st = "body"]
    [] head.status # "nobody" /\ head.frame = "length"  ->
         IF head.len > MaxBody /\ ~stream THEN Oversized(q)
         ELSE [q EXCEPT !.left = head.len, !.st = IF head.len = 0 THEN "done" ELSE "body"]

(* A piece of body, for the parser that keeps it: any bytes are body there. *)
Unit(piece) == IF piece.op = "body" THEN piece ELSE Body(1)
Keep(p, stream, piece) == IF stream THEN p ELSE [p EXCEPT !.body = Append(@, Unit(piece))]

AbsorbBody(p, stream, piece) ==
  IF p.left # None
  THEN [Keep(p, stream, piece) EXCEPT !.left = p.left - 1,
                                      !.st = IF p.left = 1 THEN "done" ELSE "body"]
  ELSE IF ~stream /\ Len(p.body) + 1 > MaxBody THEN Oversized(p)
  ELSE Keep(p, stream, piece)

AbsorbChunk(p, stream, piece) ==
  CASE piece.op = "last" -> [p EXCEPT !.st = "done"]
    [] piece.op = "body" -> IF ~stream /\ Len(p.body) + 1 > MaxBody THEN Oversized(p)
                            ELSE Keep(p, stream, piece)
    [] piece.op \notin {"last", "body"} -> ParseError(p)

Feed(p, stream, piece) ==
  CASE p.st = "status" -> IF piece.op = "interim" THEN p
                          ELSE IF piece.op = "head" THEN EnterBody(p, piece, stream)
                          ELSE ParseError(p)
    [] p.st = "body"   -> AbsorbBody(p, stream, piece)
    [] p.st = "chunks" -> AbsorbChunk(p, stream, piece)

FeedEof(p) == IF p.st = "body" /\ p.left = None THEN [p EXCEPT !.st = "done"]
              ELSE ParseError(p)

-----------------------------------------------------------------------------
(* Ends of a request.                                                       *)
Held(c) == IF c.connector # None THEN c.connector ELSE c.socket

HungUp(s) == IF Held(s.c) = None THEN s.w
             ELSE [s.w EXCEPT ![Held(s.c)] = CloseClientEnd(@)]

CloseSocketOnly_SocketOnly(s) ==             \* mutant: the connector forgotten
  [s EXCEPT !.c.connector = None, !.c.socket = None, !.c.tx = <<>>,
            !.c.parser = None, !.c.state = "idle",
            !.w = IF s.c.socket = None THEN @ ELSE [@ EXCEPT ![s.c.socket] = CloseClientEnd(@)]]
CloseSocketOnly(s) ==
  [s EXCEPT !.c.connector = None, !.c.socket = None, !.c.tx = <<>>,
            !.c.parser = None, !.c.state = "idle", !.w = HungUp(s)]

ResetSocket(s) ==
  [CloseSocketOnly(s) EXCEPT !.c.request = None, !.c.stream = FALSE,
                             !.c.armed = FALSE, !.c.left = 0]

(* The handle is done, the client idle, and on_done starts to run.          *)
Complete(s, result) ==
  LET i == s.c.request IN
  [ResetSocket(s) EXCEPT !.h[i].phase = "done", !.h[i].result = result,
                         !.h[i].told = @ + 1, !.c.calls = Append(@, "done")]

(* _fail.  An oversized response is an error, or is dropped: at once, or    *)
(* after on_oversized.                                                      *)
Fail(s) == Complete(s, "error")

FailOversized(s) ==
  CASE s.c.policy = "disconnect"      -> Fail(s)
    [] s.c.policy = "drop_silent"     -> Complete(s, "dropped")
    [] s.c.policy = "drop_with_event" -> [s EXCEPT !.c.calls = Append(@, "oversized")]

Publish(s) ==
  [s EXCEPT !.h[s.c.request].resp = s.c.socket, !.h[s.c.request].status = s.c.parser.status]

-----------------------------------------------------------------------------
(* _start_hop *)
StartHop(s, link, method, len) ==
  [s EXCEPT !.c.connector = link, !.c.state = "awaiting", !.c.parser = NewParser,
            !.c.tx = <<RequestHead(method, len)>> \o Units(len),
            !.h[s.c.request].hops = @ + 1,
            !.w[link].c = "dialling"]

(* _follow_redirect: the Location may not resolve, the factory may fail.    *)
Redirected(s) ==
  /\ s.c.left > 0 /\ s.c.parser.status \in {"redirect", "preserve"} /\ s.c.parser.loc # None

RedirectRefused_KeepsState(s) ==             \* mutant: _reset_socket forgotten
  [s EXCEPT !.h[s.c.request].phase = "done", !.h[s.c.request].result = "error"]
RedirectRefused(s) == Complete(s, "error")

NextHop_Uncounted(s) ==                      \* mutant: the bound not counted down
  LET ask == s.h[s.c.request].ask  kept == s.c.parser.status = "preserve" IN
  StartHop(CloseSocketOnly(s), NextLink,
           IF kept THEN ask.method ELSE "GET", IF kept THEN ask.len ELSE 0)
NextHop(s) ==
  LET ask == s.h[s.c.request].ask  kept == s.c.parser.status = "preserve" IN
  StartHop([CloseSocketOnly(s) EXCEPT !.c.left = @ - 1], NextLink,
           IF kept THEN ask.method ELSE "GET", IF kept THEN ask.len ELSE 0)

FollowRedirect(s) ==
  {RedirectRefused(s)}
    \cup (IF s.c.parser.loc = "ok" /\ Unused # {} THEN {NextHop(s)} ELSE {})

(* What a piece of a streamed response leaves in the handle: a redirect's   *)
(* body is discarded, the response is published with its head.              *)
Streamed(s, piece, absorbed) ==
  LET i == s.c.request IN
  IF s.h[i].resp # None
  THEN IF absorbed THEN [s EXCEPT !.h[i].buf = Append(@, Unit(piece)), !.h[i].fill = @ + 1] ELSE s
  ELSE IF s.c.parser.st \in {"status", "error"} \/ Redirected(s) THEN s ELSE Publish(s)

(* _complete *)
Completed(s) ==
  IF IF s.c.stream THEN s.h[s.c.request].resp = None ELSE Redirected(s)
  THEN FollowRedirect(s)
  ELSE {Complete(IF s.c.stream THEN s
                 ELSE [Publish(s) EXCEPT !.h[s.c.request].body = s.c.parser.body], "ok")}

Parsed(s) ==
  CASE s.c.parser.st = "done"      -> Completed(s)
    [] s.c.parser.st = "error"     -> {Fail(s)}
    [] s.c.parser.st = "oversized" -> {FailOversized(s)}
    [] s.c.parser.st \in {"status", "body", "chunks"} -> {s}

-----------------------------------------------------------------------------
(* handle(): the deadline first, then the connector, the send, the receive. *)
Handles == client.calls = <<>> /\ client.state # "idle"

Timeout == Handles /\ client.armed /\ Becomes(Fail(Now))

ConnectorReady ==
  /\ Handles /\ client.state = "awaiting"
  /\ Becomes([Now EXCEPT !.c.socket = client.connector, !.c.connector = None,
                         !.c.state = "sending",
                         !.w[client.connector].c = "up",
                         !.w[client.connector].s = "backlog"])

ConnectorFails ==
  /\ Handles /\ client.state = "awaiting"
  /\ Becomes(Fail([Now EXCEPT !.w[client.connector].c = "closed", !.c.connector = None]))

Link == wire[client.socket]

ClientSend ==
  /\ Handles /\ client.state = "sending"
  /\ \/ /\ ~Link.lost /\ Len(Link.up) < WireCap
        /\ Becomes([Now EXCEPT
             !.c.tx = Tail(@),
             !.c.state = IF Len(client.tx) = 1 THEN "receiving" ELSE @,
             !.w[client.socket].up = IF Link.s = "closed" THEN @ ELSE Append(@, Head(client.tx))])
     \/ /\ Link.lost \/ Link.s = "closed"
        /\ Becomes(Fail(Now))

(* A stream reads no more than its staging buffer has room for.             *)
CanReceive_Unbounded ==                      \* mutant: no back pressure
  Handles /\ client.state = "receiving"
CanReceive ==
  /\ Handles /\ client.state = "receiving"
  /\ client.stream => handles[client.request].fill < StreamBuffer

ReceivePiece ==
  LET piece == Head(Link.down)
      fed   == [Now EXCEPT !.c.parser = Feed(@, client.stream, piece),
                           !.w[client.socket].down = Tail(@)]
      absorbed == client.parser.st = "body" \/ (client.parser.st = "chunks" /\ piece.op = "body")
  IN  /\ CanReceive /\ Link.down # <<>>
      /\ \E s \in Parsed(IF client.stream THEN Streamed(fed, piece, absorbed) ELSE fed) : Becomes(s)

ReceiveEnd ==
  /\ CanReceive /\ ClientSeesEnd(Link)
  /\ \E s \in Parsed([Now EXCEPT !.c.parser = FeedEof(@)]) : Becomes(s)

ReceiveFails == CanReceive /\ Link.lost /\ Becomes(Fail(Now))

-----------------------------------------------------------------------------
(* The application, from its own code or from inside a callback.            *)
NextId == CHOOSE i \in Ids : handles[i].phase = "unused" /\ \A j \in 1..(i - 1) : handles[j].phase # "unused"
Room == (\E i \in Ids : handles[i].phase = "unused") /\ Unused # {}

(* request(): a URL that does not parse or a factory that raises leaves the *)
(* client as it was.  _original_body is kept only when a hop may need it.   *)
Ask ==
  /\ client.state = "idle" /\ Room
  /\ \E ask \in Requests[NextId] :
       Becomes(StartHop([Now EXCEPT !.c.request = NextId, !.c.stream = ask.stream,
                                    !.c.left = ask.redirects, !.c.armed = TRUE,
                                    !.h[NextId].phase = "pending", !.h[NextId].ask = ask],
                        NextLink, ask.method, ask.len))

Cancel == client.state # "idle" /\ Becomes(Fail(Now))

(* read_body_into: the staging buffer starts afresh once it is read empty.  *)
ReadBodyInto(i) ==
  /\ handles[i].buf # <<>>
  /\ \E n \in 1..Len(handles[i].buf) :
       handles' = [handles EXCEPT
         ![i].body = @ \o SubSeq(handles[i].buf, 1, n),
         ![i].buf  = SubSeq(@, n + 1, Len(@)),
         ![i].fill = IF n = Len(handles[i].buf) THEN 0 ELSE @]
  /\ UNCHANGED <<client, wire>>

(* on_done returns; or on_oversized, and what it left is completed as a     *)
(* dropped response, unless it cancelled the request and the parser is gone.*)
CallbackReturns ==
  LET n == Len(client.calls)
      s == [Now EXCEPT !.c.calls = SubSeq(@, 1, n - 1)] IN
  /\ n > 0
  /\ Becomes(IF client.calls[n] = "oversized" /\ client.parser # None
             THEN Complete(s, "dropped") ELSE s)

ClientHandle ==
  \/ Timeout \/ ConnectorReady \/ ConnectorFails \/ ClientSend
  \/ ReceivePiece \/ ReceiveEnd \/ ReceiveFails

ClientApp == Ask \/ Cancel \/ (\E i \in Ids : ReadBodyInto(i)) \/ CallbackReturns

-----------------------------------------------------------------------------
(* What a request promises its application.                                 *)
Promised(h) ==
  [phase  |-> IF h.phase = "pending" /\ h.resp # None THEN "published" ELSE h.phase,
   stream |-> h.ask # None /\ h.ask.stream,
   result |-> h.result, resp |-> h.resp, told |-> h.told]
Promises == [i \in Ids |-> Promised(handles[i])]

Exchange == INSTANCE HttpExchange WITH exchange <- Promises
ImplementsExchange == Exchange!Spec

(* An idle client holds nothing of the last request; a busy one works on a  *)
(* request that is not done, with exactly one transport, under a deadline,  *)
(* and has hops left for exactly the redirects it did not follow.           *)
IdleIsClean ==
  /\ client.state = "idle" =>
       client = [Idle(client.policy) EXCEPT !.calls = client.calls]
  /\ client.state # "idle" =>
       /\ (client.connector = None) # (client.socket = None)
       /\ client.armed /\ client.parser # None
       /\ handles[client.request].phase = "pending"
       /\ handles[client.request].hops + client.left = handles[client.request].ask.redirects + 1
=============================================================================

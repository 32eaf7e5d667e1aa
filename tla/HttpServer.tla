----------------------------- MODULE HttpServer -----------------------------
(***************************************************************************)
(* HttpServer of chumicro_http_server: its listener, its bounded table of  *)
(* connections, and for each the request parser, the handler, the response *)
(* staged for sending and the source of a streamed one.  An action is one  *)
(* phase of a connection's tick inside handle().                           *)
(***************************************************************************)
EXTENDS HttpWire

CONSTANTS
  Replies,         \* what handlers return
  MaxSource,       \* bound on the units a streaming source produces
  MaxRequestBody,  \* max_request_body_bytes
  MaxConnections   \* max_connections

Reply == [how : {"fixed", "stream"}, status : {"ok", "nobody", "redirect", "preserve"},
          frame : {"length", "chunked"}, len : Nat, loc : {None, "ok", "bad"}]

ASSUME ServerAssumption ==
  /\ Replies \subseteq Reply
  /\ MaxSource \in Nat /\ MaxRequestBody \in Nat /\ MaxConnections \in Nat \ {0}

VARIABLES
  listening,  \* io_socket is open
  table,      \* _connections
  conn,       \* connection -> its _Connection
  heard,      \* history: connection -> the request its handler was given
  said        \* history: connection -> the response its handler decided on

Hearing == [method : {"GET", "POST"}, len : Nat]
Source  == [frame : {"length", "chunked"}, len : Nat, sent : Nat, eof : BOOLEAN]
Saying  == [head : HeadPiece, body : Seq(BodyPiece), whole : BOOLEAN]

ASSUME NoneIsNoRecord ==
  /\ None \notin Hearing /\ None \notin Source /\ None \notin Saying
  /\ None \notin {"head", "body", "sending", "streaming"}

serverVars == <<listening, table, conn, heard, said, wire>>

NoConn == [state |-> None, ask |-> None, left |-> 0, out |-> <<>>, src |-> None,
           armed |-> FALSE]
Accepted == [NoConn EXCEPT !.state = "head", !.armed = TRUE]

ServerInit ==
  /\ listening = FALSE /\ table = {}
  /\ conn  = [l \in Links |-> NoConn]
  /\ heard = [l \in Links |-> None]
  /\ said  = [l \in Links |-> None]

-----------------------------------------------------------------------------
(* A connection that is done, or failed, is closed and leaves the table.    *)
Pop(l, w) ==
  /\ table' = table \ {l} /\ conn' = [conn EXCEPT ![l] = NoConn]
  /\ wire' = [w EXCEPT ![l] = CloseServerEnd(@)]

FailConn(l) == Pop(l, wire) /\ UNCHANGED <<listening, heard, said>>

(* close(): every connection and the listener; nothing keeps handle() from  *)
(* listening again.                                                         *)
CloseAll ==
  /\ listening' = FALSE /\ table' = {}
  /\ conn' = [l \in Links |-> NoConn]
  /\ wire' = [l \in Links |-> IF l \in table THEN CloseServerEnd(wire[l])
                              ELSE IF wire[l].s = "backlog"
                              THEN Settled([wire[l] EXCEPT !.s = "closed", !.lost = TRUE,
                                                           !.up = <<>>, !.down = <<>>])
                              ELSE wire[l]]

-----------------------------------------------------------------------------
(* The response a handler decided on: its units are known at once, or come  *)
(* from the source while it streams; whole when none is missing.  A status  *)
(* without a body has none, whatever the handler gave.                      *)
Decided(head, units, whole) == [head |-> head, body |-> units, whole |-> whole]

DeclaredAll(frame, len, sent) == frame = "length" /\ sent = len

Stage(c, head, units) == [c EXCEPT !.state = "sending", !.out = <<head>> \o units]

(* _stage_response: Content-Length framing.                                 *)
StageResponse(l, c, status, len, loc) ==
  LET head == ResponseHead(status, "length", len, loc) IN
  /\ conn' = [conn EXCEPT ![l] = Stage(c, head, Units(len))]
  /\ said' = [said EXCEPT ![l] =
                Decided(head, IF status = "nobody" THEN <<>> ELSE Units(len), TRUE)]

StageError(l, c) == StageResponse(l, c, "failure", 1, None)

(* stage_streaming_response: the head now, the body from the source.        *)
StageStream(l, c, reply) ==
  LET head == ResponseHead(reply.status, reply.frame, reply.len, reply.loc) IN
  /\ conn' = [conn EXCEPT ![l] =
                [Stage(c, head, <<>>) EXCEPT !.src = [frame |-> reply.frame, len |-> reply.len,
                                                      sent |-> 0, eof |-> FALSE]]]
  /\ said' = [said EXCEPT ![l] =
                Decided(head, <<>>, \/ reply.status = "nobody"
                                    \/ DeclaredAll(reply.frame, reply.len, 0))]

(* _dispatch_handler: a reply; an exception, a reply that is not a Response *)
(* or cannot be encoded is a 500; a handler that closes the server leaves   *)
(* its own connection without a socket, and handle() raises.                *)
Dispatch(l, c, w) ==
  /\ heard' = [heard EXCEPT ![l] = [method |-> c.ask.method, len |-> c.ask.len - c.left]]
  /\ \/ /\ wire' = w /\ UNCHANGED <<listening, table>>
        /\ \/ \E r \in Replies : IF r.how = "fixed" THEN StageResponse(l, c, r.status, r.len, r.loc)
                                 ELSE StageStream(l, c, r)
           \/ StageError(l, c)
     \/ CloseAll /\ UNCHANGED said

(* RequestParser: limits are answered, other errors are not.                *)
Limits == {"longline", "bighead"}

EndsRequest(c, piece) ==
  IF c.state = "head" THEN piece.len = 0 ELSE c.left = 1

FeedRequest(l, c, piece, w) ==
  IF c.state = "head" /\ (piece.op \in Limits \/ (piece.op = "request" /\ piece.len > MaxRequestBody))
  THEN StageError(l, c) /\ wire' = w /\ UNCHANGED <<listening, table, heard>>
  ELSE IF c.state = "head" /\ piece.op # "request"
  THEN Pop(l, w) /\ UNCHANGED <<listening, heard, said>>
  ELSE LET d == IF c.state = "head"
                THEN [c EXCEPT !.ask = [method |-> piece.method, len |-> piece.len],
                               !.left = piece.len, !.state = "body"]
                ELSE [c EXCEPT !.left = @ - 1]
       IN  IF EndsRequest(c, piece) THEN Dispatch(l, d, w)
           ELSE /\ conn' = [conn EXCEPT ![l] = d] /\ wire' = w
                /\ UNCHANGED <<listening, table, heard, said>>

-----------------------------------------------------------------------------
(* handle(): listen, accept one, then a tick of every connection.           *)
Listen == ~listening /\ listening' = TRUE /\ UNCHANGED <<table, conn, heard, said, wire>>

HasRoom == Cardinality(table) < MaxConnections

Accept(l) ==
  /\ listening /\ HasRoom /\ wire[l].s = "backlog"
  /\ wire' = [wire EXCEPT ![l] = Settled([@ EXCEPT !.s = "up"])]
  /\ table' = table \cup {l}
  /\ conn' = [conn EXCEPT ![l] = Accepted]
  /\ UNCHANGED <<listening, heard, said>>

RequestTimeout(l) == l \in table /\ conn[l].armed /\ FailConn(l)

Receives(l) == l \in table /\ conn[l].state \in {"head", "body"}

ServerReceive(l) ==
  /\ Receives(l) /\ wire[l].up # <<>>
  /\ FeedRequest(l, conn[l], Head(wire[l].up), [wire EXCEPT ![l].up = Tail(@)])

RequestEof_Dispatches(l) ==                     \* mutant: a short body is served
  IF conn[l].ask # None THEN Dispatch(l, conn[l], wire) ELSE FailConn(l)
RequestEof(l) == FailConn(l)

ServerReceiveEnd(l) ==
  Receives(l) /\ (IF ServerSeesEnd(wire[l]) THEN RequestEof(l) ELSE wire[l].lost /\ FailConn(l))

Sends(l) == l \in table /\ conn[l].out # <<>>

(* _drive_send, and the sending half of drive_stream_body; what is sent to  *)
(* a peer that has closed goes nowhere, or fails.                           *)
Finished(c) == c.src = None \/ (c.src.eof /\ c.state = "streaming")

ServerSend(l) ==
  LET x == wire[l]
      c == [conn[l] EXCEPT !.out = Tail(@)]
      w == IF x.c = "closed" THEN wire ELSE [wire EXCEPT ![l].down = Append(@, Head(conn[l].out))]
  IN  /\ Sends(l) /\ ~x.lost /\ Len(x.down) < WireCap
      /\ IF c.out = <<>> /\ Finished(c)
         THEN Pop(l, w)
         ELSE /\ conn' = [conn EXCEPT ![l] = IF c.out = <<>> THEN [c EXCEPT !.state = "streaming"] ELSE c]
              /\ wire' = w /\ UNCHANGED table
      /\ UNCHANGED <<listening, heard, said>>

ServerSendFails(l) ==
  Sends(l) /\ (wire[l].lost \/ wire[l].c = "closed") /\ FailConn(l)

(* _StreamState.pull: the source has data, has ended, or raises; a source   *)
(* that has none yet is asked again.  More or less than was declared ends   *)
(* the connection.                                                          *)
Pulls(l) == l \in table /\ conn[l].state = "streaming" /\ conn[l].out = <<>>

PullData(l) ==
  LET src == conn[l].src  unit == Body(src.sent + 1) IN
  /\ Pulls(l) /\ src.sent < MaxSource
  /\ IF src.frame = "length" /\ src.sent + 1 > src.len
     THEN FailConn(l)
     ELSE /\ conn' = [conn EXCEPT ![l].src.sent = @ + 1, ![l].out = <<unit>>]
          /\ said' = IF said[l].head.status = "nobody" THEN said
                     ELSE [said EXCEPT ![l].body = Append(@, unit),
                                       ![l].whole = DeclaredAll(src.frame, src.len, src.sent + 1)]
          /\ UNCHANGED <<listening, table, heard, wire>>

PullEof(l) ==
  /\ Pulls(l)
  /\ IF conn[l].src.frame = "chunked"
     THEN /\ conn' = [conn EXCEPT ![l].src.eof = TRUE, ![l].out = <<Last>>]
          /\ said' = [said EXCEPT ![l].whole = TRUE]
          /\ UNCHANGED <<listening, table, heard, wire>>
     ELSE FailConn(l)

SourceFails_Terminates(l) ==                 \* mutant: the body is closed off
  /\ conn' = [conn EXCEPT ![l].src.eof = TRUE, ![l].out = <<Last>>]
  /\ UNCHANGED <<listening, table, heard, said, wire>>
SourceFails(l) == FailConn(l)

PullRaises(l) == Pulls(l) /\ SourceFails(l)

(* close() from the application.                                            *)
ServerClose == CloseAll /\ UNCHANGED <<heard, said>>

Tick(l) ==
  \/ RequestTimeout(l) \/ ServerReceive(l) \/ ServerReceiveEnd(l)
  \/ ServerSend(l) \/ ServerSendFails(l) \/ PullData(l) \/ PullEof(l) \/ PullRaises(l)

ServerHandle == Listen \/ \E l \in Links : Accept(l) \/ Tick(l)
=============================================================================

----------------------------- MODULE HttpSystem -----------------------------
(***************************************************************************)
(* An HttpClient against an HttpServer, or either of them against a peer   *)
(* that may send anything: the worlds, chosen in the initial state.        *)
(***************************************************************************)
EXTENDS HttpClient, HttpServer

CONSTANTS
  Worlds,          \* a library pair, or one side against a foreign peer
  MaxAsks,         \* world -> bound on the requests of the client
  MaxDials,        \* bound on the connections of foreign clients
  ForeignReplies,  \* what a foreign server sends
  ForeignAsks      \* what foreign clients send

VARIABLE world

vars == <<client, handles, wire, listening, table, conn, heard, said, world>>
clientState == <<client, handles>>
serverState == <<listening, table, conn, heard, said>>

ASSUME WorldAssumption ==
  /\ Worlds \subseteq {"pair", "foreign server", "foreign clients"}
  /\ MaxAsks \in [Worlds -> Nat] /\ MaxDials \in Nat
  /\ ForeignReplies \subseteq ReplyPiece /\ ForeignAsks \subseteq AskPiece

HttpInit ==
  /\ world \in Worlds
  /\ WireInit /\ ClientInit /\ ServerInit

Served == world # "foreign server"
Asked  == world # "foreign clients"

(* A connection is made to a listener that is there.                        *)
ClientSteps ==
  /\ Asked
  /\ ClientHandle \/ ClientApp
  /\ client.state = "awaiting" /\ client'.state = "sending" => ~Served \/ listening
  /\ \A i \in Ids : i > MaxAsks[world] => handles'[i].phase = "unused"
  /\ UNCHANGED <<serverState, world>>

ServerSteps == Served /\ (ServerHandle \/ ServerClose) /\ UNCHANGED <<clientState, world>>

(* A peer that is not this library.                                         *)
ForeignAccepts(l) ==
  /\ wire[l].s = "backlog"
  /\ wire' = [wire EXCEPT ![l].s = "up"]

ForeignReplies_(l) ==
  /\ wire[l].s = "up" /\ wire[l].c = "up" /\ ~wire[l].lost /\ Len(wire[l].down) < WireCap
  /\ \A i \in Ids : Len(handles[i].body) <= MaxSource
  /\ \E piece \in ForeignReplies : wire' = [wire EXCEPT ![l].down = Append(@, piece), ![l].up = <<>>]

ForeignCloses(l) ==
  /\ wire[l].s = "up"
  /\ wire' = [wire EXCEPT ![l] = CloseServerEnd(@)]

ForeignDials(l) ==
  /\ listening /\ l <= MaxDials /\ l \in Unused /\ l = NextLink
  /\ wire' = [wire EXCEPT ![l].c = "up", ![l].s = "backlog"]

ForeignAsks_(l) ==
  /\ wire[l].c = "up" /\ wire[l].s \in {"backlog", "up"} /\ ~wire[l].lost /\ Len(wire[l].up) < WireCap
  /\ \E piece \in ForeignAsks : wire' = [wire EXCEPT ![l].up = Append(@, piece)]

ForeignReads(l) ==
  /\ wire[l].c = "up" /\ wire[l].down # <<>>
  /\ wire' = [wire EXCEPT ![l].down = Tail(@)]

ForeignLeaves(l) ==
  /\ wire[l].c = "up"
  /\ wire' = [wire EXCEPT ![l] = CloseClientEnd(@)]

ForeignSteps(l) ==
  /\ \/ ~Served /\ (ForeignAccepts(l) \/ ForeignReplies_(l) \/ ForeignCloses(l))
     \/ ~Asked /\ (ForeignDials(l) \/ ForeignAsks_(l) \/ ForeignReads(l) \/ ForeignLeaves(l))
     \/ LinkBreaks(l)
  /\ UNCHANGED <<clientState, serverState, world>>

HttpNext == ClientSteps \/ ServerSteps \/ \E l \in Links : ForeignSteps(l)

Spec == HttpInit /\ [][HttpNext]_vars

-----------------------------------------------------------------------------
(* Every field holds what the code may put there; a stream never overflows  *)
(* its staging buffer, a body never its cap.                                *)
TypeOK ==
  /\ client.state \in {"idle", "awaiting", "sending", "receiving"}
  /\ client.request \in Ids \cup {None}
  /\ client.connector \in Links \cup {None} /\ client.socket \in Links \cup {None}
  /\ client.parser # None =>
       /\ client.parser.st \in {"status", "body", "chunks", "oversized"}
       /\ Len(client.parser.body) <= MaxBody
  /\ \A i \in Ids : /\ handles[i].phase \in {"unused", "pending", "done"}
                    /\ Len(handles[i].buf) <= handles[i].fill /\ handles[i].fill <= StreamBuffer
  /\ table \subseteq Links
  /\ \A l \in Links : conn[l].state \in {None, "head", "body", "sending", "streaming"}

(* A request that succeeded brought the application exactly the response a  *)
(* handler of the server decided on, in full: no response that was cut off  *)
(* by a deadline, a close, a reset or a failing source passes for whole, on *)
(* whichever hop; and a stream never shows anything but its beginning.      *)
Faithful ==
  world = "pair" => \A i \in Ids :
    LET h == handles[i]  got == h.body \o h.buf IN
    h.resp # None =>
      /\ said[h.resp] # None /\ said[h.resp].head.status = h.status
      /\ got = SubSeq(said[h.resp].body, 1, Len(got))
      /\ h.result = "ok" => said[h.resp].whole /\ got = said[h.resp].body

(* A handler is never given a request the client did not make, or one whose *)
(* body had not all arrived.                                                *)
HandlerHears ==
  world = "pair" => \A l \in Links : heard[l] # None =>
    \E i \in Ids : /\ handles[i].phase # "unused"
                   /\ \/ heard[l] = [method |-> handles[i].ask.method, len |-> handles[i].ask.len]
                      \/ heard[l] = [method |-> "GET", len |-> 0] /\ handles[i].hops > 1

(* Sockets: the client has none open but the one of its request; the server *)
(* has open exactly those in its table, no more than max_connections, and   *)
(* works on nothing else.                                                   *)
NothingLeaks ==
  /\ Asked => \A l \in Links : wire[l].c \in {"dialling", "up"} =>
                                 l \in {client.connector, client.socket}
  /\ Served => /\ table = {l \in Links : wire[l].s = "up"}
               /\ Cardinality(table) <= MaxConnections
               /\ \A l \in Links : conn[l].armed <=> l \in table
=============================================================================

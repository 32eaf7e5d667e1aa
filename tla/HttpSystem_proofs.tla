-------------------------- MODULE HttpSystem_proofs --------------------------
(***************************************************************************)
(* The HTTP client and server together, and either against a peer that     *)
(* sends anything, for any requests, replies, limits and bounds.           *)
(***************************************************************************)
EXTENDS HttpSystem, HttpClient_proofs

-----------------------------------------------------------------------------
(* The server, and what its handlers decided on.                            *)
ConnRec == [state : {None, "head", "body", "sending", "streaming"}, ask : Hearing \cup {None},
            left : Nat, out : Seq(ReplyPiece), src : Source \cup {None}, armed : BOOLEAN]

ServerTyped ==
  /\ listening \in BOOLEAN /\ table \subseteq Links
  /\ conn \in [Links -> ConnRec]
  /\ heard \in [Links -> Hearing \cup {None}]
  /\ said \in [Links -> Saying \cup {None}]

(* What a handler decided on, and the connection that sends it.             *)
SayingOK(m) ==
  /\ m.head.frame \in {"length", "chunked"}
  /\ m.head.status = "nobody" => m.body = <<>> /\ m.whole
  /\ m.head.status # "nobody" =>
       /\ m.body = Units(Len(m.body))
       /\ m.head.frame = "length" => Len(m.body) <= m.head.len /\ (m.whole <=> Len(m.body) = m.head.len)

Sourced(c, m) ==
  /\ c.src.frame = m.head.frame /\ c.src.len = m.head.len
  /\ m.head.status # "nobody" => c.src.sent = Len(m.body)
  /\ c.src.eof => c.state = "streaming" /\ c.src.frame = "chunked" /\ c.out # <<>>
  /\ c.src.frame = "chunked" /\ m.head.status # "nobody" => (m.whole <=> c.src.eof)

Staging(c, m) ==
  /\ c.state \in {"head", "body"} => c.out = <<>> /\ c.src = None
  /\ c.state = "body" => c.left > 0 /\ c.ask # None
  /\ c.state = "sending" => c.out # <<>>
  /\ c.state = "streaming" => c.src # None
  /\ c.src # None => Sourced(c, m)

Serving(up, end, c, m) ==
  /\ up <=> end = "up"
  /\ c.armed <=> up
  /\ IF up THEN c.state # None /\ (m # None <=> c.state \in {"sending", "streaming"})
     ELSE c = NoConn
  /\ m # None => end \in {"up", "closed"} /\ SayingOK(m)
  /\ Staging(c, m)

ServerInv ==
  Served => /\ Cardinality(table) <= MaxConnections
            /\ \A l \in Links : Serving(l \in table, wire[l].s, conn[l], said[l])

-----------------------------------------------------------------------------
(* What a step of the server does to a connection.                          *)
LinkServed(x, y) ==
  /\ y \in LinkRec /\ y.c = x.c
  /\ x.c \in {"none", "dialling"} => y = x
  /\ x.c = "closed" /\ x.down = <<>> => y.down = <<>>

(* The client's invariant is about the client and its handles.              *)
LEMMA ClientRests ==
  ASSUME NEW s, NEW r, ClientInv(s), r.c = s.c, r.h = s.h
  PROVE  ClientInv(r)
<1>1. Mine(r) = Mine(s) /\ (Redirected(r) <=> Redirected(s))
  BY DEF Mine, Redirected
<1>2. Busy(s) => Busy(r)
  <2>1. Assigned(s) => Assigned(r)
    BY <1>1 DEF Assigned
  <2>2. Parsing(s) => Parsing(r)
    BY <1>1 DEF Parsing
  <2>3. Transport(s) => Transport(r)
    BY DEF Transport
  <2>4. QED
    BY <2>1, <2>2, <2>3 DEF Busy
<1>3. QED
  BY <1>2 DEF ClientInv

LEMMA WireServed ==
  ASSUME NEW s \in State, NEW r, r.c = s.c, r.w \in [Links -> LinkRec],
         \A l \in Links : LinkServed(s.w[l], r.w[l])
  PROVE  /\ FreshLinks(s.w) => FreshLinks(r.w)
         /\ ClosedLinks(s.w) => ClosedLinks(r.w)
         /\ Opened(s) => Opened(r)
<1>1. FreshLinks(s.w) => FreshLinks(r.w)
  BY DEF FreshLinks, LinkServed
<1>2. ClosedLinks(s.w) => ClosedLinks(r.w)
  BY DEF ClosedLinks, LinkServed
<1>3. ASSUME Opened(s) PROVE Opened(r)
  <2>1. \A l \in Links : r.w[l].c = s.w[l].c
    BY DEF LinkServed
  <2>2. s.c.connector \in Links \cup {None} /\ s.c.socket \in Links \cup {None}
    BY DEF State, ClientRec
  <2>3. QED
    BY <1>3, <2>1, <2>2 DEF Opened
<1>4. QED
  BY <1>1, <1>2, <1>3

(* What every step of the system keeps, but for what the server keeps.      *)
Wiring ==
  /\ ClientOK /\ FreshLinks(wire) /\ ClosedLinks(wire)
  /\ Asked => Opened(Now)
  /\ ~Asked => client.state = "idle"

LEMMA ClientRestsStep ==
  ASSUME ClientOK, UNCHANGED clientState, wire' \in [Links -> LinkRec]
  PROVE  /\ ClientOK'
         /\ Now' \in State /\ Now'.c = client /\ Now'.h = handles /\ Now'.w = wire'
<1>1. client' = client /\ handles' = handles
  BY DEF clientState
<1>2. Now'.c = client /\ Now'.h = handles /\ Now'.w = wire'
      /\ Now' \in [c : {client}, h : {handles}, w : {wire'}]
  BY <1>1 DEF Now
<1>3. Now \in State /\ ClientInv(Now) /\ Now.c = client /\ Now.h = handles
  BY NowIs DEF ClientOK
<1>4. ClientInv(Now')
  BY <1>2, <1>3, ClientRests
<1>5. client \in ClientRec /\ handles \in [Ids -> HandleRec]
  BY <1>3 DEF State
<1>6. Now' \in State
  BY <1>2, <1>5 DEF State
<1>7. QED
  BY <1>2, <1>4, <1>6 DEF ClientOK

LEMMA WiringServed ==
  ASSUME Wiring, UNCHANGED clientState, UNCHANGED world, wire' \in [Links -> LinkRec],
         \A l \in Links : LinkServed(wire[l], wire'[l])
  PROVE  Wiring'
<1>1. client' = client /\ (Asked' <=> Asked)
  BY DEF clientState, Asked
<1>2. ClientOK' /\ Now' \in State /\ Now'.c = client /\ Now'.w = wire'
  BY ClientRestsStep DEF Wiring
<1>3. Now \in State /\ Now.c = client /\ Now.w = wire
  BY NowIs DEF Wiring, ClientOK
<1>4. /\ FreshLinks(Now.w) => FreshLinks(Now'.w)
      /\ ClosedLinks(Now.w) => ClosedLinks(Now'.w)
      /\ Opened(Now) => Opened(Now')
  <2>1. \A l \in Links : LinkServed(Now.w[l], Now'.w[l])
    BY <1>2, <1>3
  <2>2. Now'.c = Now.c /\ Now'.w \in [Links -> LinkRec]
    BY <1>2, <1>3
  <2>3. QED
    BY <1>3, <2>1, <2>2, WireServed
<1>5. FreshLinks(wire') /\ ClosedLinks(wire') /\ (Asked => Opened(Now'))
  BY <1>2, <1>3, <1>4 DEF Wiring
<1>6. QED
  BY <1>1, <1>2, <1>5 DEF Wiring

-----------------------------------------------------------------------------
(* The steps of the server.                                                 *)
SystemOK == Wiring /\ ServerTyped /\ ServerInv

Resting == UNCHANGED <<clientState, world>>

LEMMA LiveLink ==
  ASSUME Wiring, NEW l \in Links
  PROVE  /\ wire[l] \in LinkRec
         /\ wire[l].s # "none" => wire[l].c \in {"up", "closed"}
         /\ wire[l].c \in {"none", "dialling"} =>
              wire[l].s = "none" /\ wire[l].up = <<>> /\ wire[l].down = <<>> /\ ~wire[l].lost
         /\ wire[l].c = "closed" => wire[l].down = <<>>
<1>1. wire[l] \in LinkRec
  BY NowIs DEF Wiring
<1>2. wire[l].c \in {"none", "dialling"} => wire[l] = [NewLink EXCEPT !.c = wire[l].c]
  BY DEF Wiring, FreshLinks
<1>3. wire[l].c \in {"none", "dialling"} =>
        wire[l].s = "none" /\ wire[l].up = <<>> /\ wire[l].down = <<>> /\ ~wire[l].lost
  BY <1>2 DEF NewLink
<1>4. QED
  BY <1>1, <1>3 DEF Wiring, ClosedLinks, LinkRec

(* A step at one connection.                                                *)
LEMMA ServedAt ==
  ASSUME SystemOK, Served, Resting, NEW l \in Links, NEW d \in ConnRec, NEW x,
         NEW m \in Saying \cup {None}, NEW t \in {table, table \ {l}, table \cup {l}},
         conn' = [conn EXCEPT ![l] = d], wire' = [wire EXCEPT ![l] = x],
         said' = [said EXCEPT ![l] = m], table' = t, listening' \in BOOLEAN,
         heard' \in [Links -> Hearing \cup {None}],
         LinkServed(wire[l], x), Serving(l \in t, x.s, d, m), Cardinality(t) <= MaxConnections
  PROVE  SystemOK'
<1>1. /\ conn \in [Links -> ConnRec] /\ said \in [Links -> Saying \cup {None}] /\ table \subseteq Links
      /\ wire \in [Links -> LinkRec] /\ world' = world
  BY NowIs DEF SystemOK, Wiring, ServerTyped, Resting
<1>2. x \in LinkRec
  BY DEF LinkServed
<1>3. wire' \in [Links -> LinkRec]
  BY <1>1, <1>2
<1>4. \A k \in Links : LinkServed(wire[k], wire'[k])
  BY <1>1 DEF LinkServed
<1>5. Wiring'
  BY <1>3, <1>4, WiringServed DEF SystemOK, Resting
<1>6. ServerTyped'
  <2>1. conn' \in [Links -> ConnRec] /\ said' \in [Links -> Saying \cup {None}] /\ table' \subseteq Links
    BY <1>1
  <2>2. QED
    BY <2>1 DEF ServerTyped
<1>7. ServerInv'
  <2>1. \A k \in Links : Serving(k \in table, wire[k].s, conn[k], said[k])
    BY DEF SystemOK, ServerInv
  <2>2. ASSUME NEW k \in Links PROVE Serving(k \in table', wire'[k].s, conn'[k], said'[k])
    <3>1. CASE k = l
      BY <1>1, <3>1
    <3>2. CASE k # l
      <4>1. wire'[k] = wire[k] /\ conn'[k] = conn[k] /\ said'[k] = said[k] /\ (k \in table' <=> k \in table)
        BY <1>1, <3>2
      <4>2. CASE k \in table
        BY <2>1, <4>1, <4>2 DEF Serving
      <4>3. CASE k \notin table
        BY <2>1, <4>1, <4>3 DEF Serving
      <4>4. QED
        BY <4>2, <4>3
    <3>3. QED
      BY <3>1, <3>2
  <2>3. QED
    BY <2>2 DEF ServerInv
<1>8. QED
  BY <1>5, <1>6, <1>7 DEF SystemOK

LEMMA ServingNone ==
  ASSUME NEW m, m # None => SayingOK(m)
  PROVE  Serving(FALSE, "closed", NoConn, m) /\ NoConn \in ConnRec
<1>1. <<>> \in Seq(ReplyPiece)
  OBVIOUS
<1>2. NoConn \in ConnRec
  BY <1>1 DEF NoConn, ConnRec
<1>3. None \notin {"head", "body", "sending", "streaming"}
  BY NoneIsNoRecord
<1>4. QED
  BY <1>2, <1>3 DEF NoConn, Serving, Staging

LEMMA ClosesServed ==
  ASSUME NEW x \in LinkRec, NEW y \in LinkRec, LinkServed(x, y), x.c \in {"up", "closed"}
  PROVE  LinkServed(x, CloseServerEnd(y)) /\ CloseServerEnd(y).s = "closed"
<1>1. PICK z \in LinkRec : z = CloseServerEnd(y)
  BY ServerEnds
<1>2. z.s = "closed" /\ z.c = y.c /\ z.down \in {y.down, <<>>}
  BY <1>1, ServerEnds
<1>3. QED
  BY <1>1, <1>2 DEF LinkServed

(* Closing one connection, or all of them.                                  *)
LEMMA PopStep ==
  ASSUME SystemOK, Served, Resting, NEW l \in table, NEW y, LinkServed(wire[l], y),
         NEW w, w = [wire EXCEPT ![l] = y], Pop(l, w), UNCHANGED <<listening, heard, said>>
  PROVE  SystemOK'
<1>1. /\ l \in Links /\ wire \in [Links -> LinkRec] /\ said \in [Links -> Saying \cup {None}]
      /\ IsFiniteSet(table) /\ table \subseteq Links
  <2>1. table \subseteq Links /\ IsFiniteSet(Links)
    BY WireAssumption DEF SystemOK, ServerTyped, WireAssumption
  <2>2. IsFiniteSet(table)
    BY <2>1, FS_Subset
  <2>3. QED
    BY <2>1, <2>2, NowIs DEF SystemOK, Wiring, ServerTyped
<1>2. Cardinality(table) <= MaxConnections /\ Serving(TRUE, wire[l].s, conn[l], said[l])
  <2>1. Serving(l \in table, wire[l].s, conn[l], said[l]) /\ (l \in table) = TRUE
    BY <1>1 DEF SystemOK, ServerInv
  <2>2. QED
    BY <2>1 DEF SystemOK, ServerInv
<1>3. wire[l].s = "up" /\ (said[l] # None => SayingOK(said[l]))
  BY <1>2 DEF Serving
<1>4. wire[l] \in LinkRec /\ wire[l].c \in {"up", "closed"} /\ y \in LinkRec
  BY <1>1, <1>3, LiveLink DEF SystemOK, LinkServed
<1>5. PICK z : z = CloseServerEnd(y)
  OBVIOUS
<1>6. LinkServed(wire[l], z) /\ z.s = "closed"
  BY <1>4, <1>5, ClosesServed
<1>7. wire' = [wire EXCEPT ![l] = z] /\ conn' = [conn EXCEPT ![l] = NoConn] /\ table' = table \ {l}
  BY <1>1, <1>5 DEF Pop
<1>8. PICK m \in Saying \cup {None} : m = said[l]
  BY <1>1
<1>9. said' = [said EXCEPT ![l] = m]
  BY <1>1, <1>8
<1>10. /\ Serving(FALSE, "closed", NoConn, m) /\ NoConn \in ConnRec
  BY <1>3, <1>8, ServingNone
<1>11. Serving(l \in (table \ {l}), z.s, NoConn, m)
  <2>1. (l \in (table \ {l})) = FALSE
    OBVIOUS
  <2>2. QED
    BY <1>6, <1>10, <2>1
<1>12. Cardinality(table \ {l}) <= MaxConnections
  <2>1. Cardinality(table \ {l}) = Cardinality(table) - 1 /\ Cardinality(table) \in Nat
    BY <1>1, FS_RemoveElement, FS_CardinalityType
  <2>2. QED
    BY <1>2, <2>1, ServerAssumption DEF ServerAssumption
<1>13. listening' \in BOOLEAN /\ heard' \in [Links -> Hearing \cup {None}]
  BY DEF SystemOK, ServerTyped
<1>14. (table \ {l}) \in {table, table \ {l}, table \cup {l}}
  OBVIOUS
<1>15. QED
  BY <1>1, <1>6, <1>7, <1>9, <1>10, <1>11, <1>12, <1>13, <1>14, ServedAt

LEMMA FailConnStep ==
  ASSUME SystemOK, Served, Resting, NEW l \in table, FailConn(l)
  PROVE  SystemOK'
<1>1. wire \in [Links -> LinkRec] /\ l \in Links
  BY NowIs DEF SystemOK, Wiring, ServerTyped
<1>2. PICK y : y = wire[l]
  OBVIOUS
<1>3. LinkServed(wire[l], y) /\ wire = [wire EXCEPT ![l] = y]
  BY <1>1, <1>2 DEF LinkServed
<1>4. PICK w : w = wire
  OBVIOUS
<1>5. Pop(l, w) /\ UNCHANGED <<listening, heard, said>>
  BY <1>4 DEF FailConn
<1>6. QED
  BY <1>3, <1>4, <1>5, PopStep

LEMMA CloseAllStep ==
  ASSUME SystemOK, Served, Resting, CloseAll, said' = said,
         heard' \in [Links -> Hearing \cup {None}]
  PROVE  SystemOK'
<1>1. /\ wire \in [Links -> LinkRec] /\ said \in [Links -> Saying \cup {None}] /\ world' = world
  BY NowIs DEF SystemOK, Wiring, ServerTyped, Resting
<1>2. ASSUME NEW l \in Links
      PROVE  /\ LinkServed(wire[l], wire'[l]) /\ wire'[l] \in LinkRec
             /\ Serving(FALSE, wire'[l].s, NoConn, said[l])
  <2>1. Serving(l \in table, wire[l].s, conn[l], said[l])
    BY DEF SystemOK, ServerInv
  <2>2. wire[l] \in LinkRec
    BY <1>1
  <2>3. LinkServed(wire[l], wire[l])
    BY <2>2 DEF LinkServed
  <2>4. CASE l \in table
    <3>1. wire[l].s = "up" /\ (said[l] # None => SayingOK(said[l]))
      BY <2>1, <2>4 DEF Serving
    <3>2. wire'[l] = CloseServerEnd(wire[l])
      BY <2>4 DEF CloseAll
    <3>3. wire[l].c \in {"up", "closed"}
      BY <3>1, LiveLink DEF SystemOK
    <3>4. LinkServed(wire[l], wire'[l]) /\ wire'[l].s = "closed"
      BY <2>2, <2>3, <3>2, <3>3, ClosesServed
    <3>5. QED
      BY <3>1, <3>4, ServingNone DEF LinkServed
  <2>5. CASE l \notin table /\ wire[l].s = "backlog"
    <3>1. PICK y : y = [wire[l] EXCEPT !.s = "closed", !.lost = TRUE, !.up = <<>>, !.down = <<>>]
      OBVIOUS
    <3>2. y.s = "closed" /\ y.c = wire[l].c /\ y.down = <<>>
      BY <2>2, <3>1 DEF LinkRec
    <3>3. <<>> \in Seq(AskPiece) /\ <<>> \in Seq(ReplyPiece)
      OBVIOUS
    <3>4. y \in LinkRec
      BY <2>2, <3>1, <3>3 DEF LinkRec
    <3>5. wire'[l] = Settled(y)
      BY <2>5, <3>1 DEF CloseAll
    <3>6. wire[l].c \in {"up", "closed"}
      BY <2>5, LiveLink DEF SystemOK
    <3>7. PICK z : z = Settled(y)
      OBVIOUS
    <3>8. z \in LinkRec /\ z.s = "closed" /\ z.c = wire[l].c /\ z.down = <<>>
      BY <3>2, <3>4, <3>7, Settles
    <3>9. said[l] = None
      BY <2>1, <2>5 DEF Serving
    <3>10. QED
      BY <3>5, <3>6, <3>7, <3>8, <3>9, ServingNone DEF LinkServed
  <2>6. CASE l \notin table /\ wire[l].s # "backlog"
    <3>1. wire'[l] = wire[l]
      BY <2>6 DEF CloseAll
    <3>2. conn[l] = NoConn
      BY <2>1, <2>6 DEF Serving
    <3>3. Serving(FALSE, wire[l].s, conn[l], said[l])
      <4>1. (l \in table) = FALSE
        BY <2>6
      <4>2. QED
        BY <2>1, <4>1
    <3>4. QED
      BY <2>2, <2>3, <3>1, <3>2, <3>3
  <2>7. QED
    BY <2>4, <2>5, <2>6
<1>3. wire' \in [Links -> LinkRec]
  BY <1>2 DEF CloseAll
<1>4. Wiring'
  BY <1>2, <1>3, WiringServed DEF SystemOK, Resting
<1>5. NoConn \in ConnRec
  BY ServingNone
<1>6. ServerTyped'
  BY <1>1, <1>5 DEF CloseAll, ServerTyped
<1>7. Cardinality(table') <= MaxConnections
  <2>1. table' = {} /\ Cardinality({}) = 0
    BY FS_EmptySet DEF CloseAll
  <2>2. QED
    BY <2>1, ServerAssumption
<1>8. ServerInv'
  <2>1. ASSUME NEW l \in Links PROVE Serving(l \in table', wire'[l].s, conn'[l], said'[l])
    <3>1. table' = {} /\ conn' = [k \in Links |-> NoConn]
      BY DEF CloseAll
    <3>2. conn'[l] = NoConn
      BY <3>1
    <3>3. (l \in table') = FALSE
      BY <3>1
    <3>4. QED
      BY <1>1, <1>2, <3>2, <3>3
  <2>2. QED
    BY <1>7, <2>1 DEF ServerInv
<1>9. QED
  BY <1>4, <1>6, <1>8 DEF SystemOK

(* What a handler decided on is staged.                                     *)
LEMMA HeadIs ==
  ASSUME NEW status \in Statuses, NEW frame \in {"length", "chunked"}, NEW len \in Nat,
         NEW loc \in {None, "ok", "bad"}
  PROVE  LET head == ResponseHead(status, frame, len, loc) IN
         /\ head \in HeadPiece /\ head \in ReplyPiece
         /\ head.status = status /\ head.frame = frame /\ head.len = len
  BY DEF ResponseHead, HeadPiece, ReplyPiece

LEMMA SayingIs ==
  ASSUME NEW head \in HeadPiece, NEW units \in Seq(BodyPiece), NEW whole \in BOOLEAN
  PROVE  LET m == Decided(head, units, whole) IN
         m \in Saying /\ m # None /\ m.head = head /\ m.body = units /\ m.whole = whole
  BY NoneIsNoRecord DEF Decided, Saying

(* A connection whose request is read: nothing staged for it yet.           *)
Heard(c) == c \in ConnRec /\ c.out = <<>> /\ c.src = None /\ c.armed

LEMMA StageIs ==
  ASSUME NEW c, Heard(c), NEW head \in ReplyPiece, NEW units \in Seq(ReplyPiece)
  PROVE  LET d == Stage(c, head, units) IN
         /\ d \in ConnRec /\ d.state = "sending" /\ d.src = None /\ d.armed
         /\ Len(d.out) = 1 + Len(units) /\ d.out # <<>> /\ d.out[1] = head
         /\ \A j \in 1..Len(units) : d.out[1 + j] = units[j]
<1>1. PICK o : o = <<head>> \o units
  OBVIOUS
<1>2. <<head>> \in Seq(ReplyPiece)
  OBVIOUS
<1>3. /\ o \in Seq(ReplyPiece) /\ Len(o) = 1 + Len(units) /\ o[1] = head
      /\ \A j \in 1..Len(units) : o[1 + j] = units[j]
  BY <1>1, <1>2
<1>4. o # <<>>
  BY <1>3, NotEmpty
<1>5. PICK d : d = [c EXCEPT !.state = "sending", !.out = o]
  OBVIOUS
<1>6. d \in ConnRec /\ d.state = "sending" /\ d.src = None /\ d.armed /\ d.out = o
  BY <1>3, <1>5 DEF Heard, ConnRec
<1>7. Stage(c, head, units) = d
  BY <1>1, <1>5 DEF Stage
<1>8. QED
  BY <1>3, <1>4, <1>6, <1>7

(* A step at a connection of the table whose request has just been read, or *)
(* whose next piece is taken.                                               *)
LEMMA StagedStep ==
  ASSUME SystemOK, Served, Resting, NEW l \in table, NEW y, LinkServed(wire[l], y), y.s = "up",
         NEW d \in ConnRec, NEW m \in Saying \cup {None},
         conn' = [conn EXCEPT ![l] = d], wire' = [wire EXCEPT ![l] = y],
         said' = [said EXCEPT ![l] = m], UNCHANGED <<listening, table>>,
         heard' \in [Links -> Hearing \cup {None}], Serving(TRUE, "up", d, m)
  PROVE  SystemOK'
<1>1. l \in Links /\ Cardinality(table) <= MaxConnections /\ listening' \in BOOLEAN
  BY DEF SystemOK, ServerTyped, ServerInv
<1>2. (l \in table) = TRUE /\ table' = table
  OBVIOUS
<1>3. Serving(l \in table, y.s, d, m)
  BY <1>2
<1>4. table \in {table, table \ {l}, table \cup {l}}
  OBVIOUS
<1>5. QED
  BY <1>1, <1>2, <1>3, <1>4, ServedAt

LEMMA ServingStaged ==
  ASSUME NEW d \in ConnRec, d.state = "sending", d.src = None, d.armed, d.out # <<>>,
         NEW m, m # None, SayingOK(m)
  PROVE  Serving(TRUE, "up", d, m)
  BY NoneIsNoRecord DEF Serving, Staging

LEMMA StageResponseStep ==
  ASSUME SystemOK, Served, Resting, NEW l \in table, NEW y, LinkServed(wire[l], y), y.s = "up",
         wire' = [wire EXCEPT ![l] = y], UNCHANGED <<listening, table>>,
         heard' \in [Links -> Hearing \cup {None}],
         NEW c, Heard(c), NEW status \in Statuses, NEW len \in Nat, NEW loc \in {None, "ok", "bad"},
         StageResponse(l, c, status, len, loc)
  PROVE  SystemOK'
<1>1. PICK head : head = ResponseHead(status, "length", len, loc)
  OBVIOUS
<1>2. head \in HeadPiece /\ head \in ReplyPiece /\ head.status = status /\ head.frame = "length"
      /\ head.len = len
  BY <1>1, HeadIs
<1>3. PICK units : units = IF status = "nobody" THEN <<>> ELSE Units(len)
  OBVIOUS
<1>4. units \in Seq(BodyPiece) /\ Units(len) \in Seq(ReplyPiece)
  <2>1. <<>> \in Seq(BodyPiece)
    OBVIOUS
  <2>2. QED
    BY <1>3, <2>1, Pieces
<1>5. PICK d, m : d = Stage(c, head, Units(len)) /\ m = Decided(head, units, TRUE)
  OBVIOUS
<1>6. d \in ConnRec /\ d.state = "sending" /\ d.src = None /\ d.armed /\ d.out # <<>>
  BY <1>2, <1>4, <1>5, StageIs
<1>7. m \in Saying /\ m # None /\ m.head = head /\ m.body = units /\ m.whole = TRUE
  BY <1>2, <1>4, <1>5, SayingIs
<1>8. SayingOK(m)
  <2>1. status # "nobody" => Len(units) = len /\ units = Units(len)
    BY <1>3, Pieces
  <2>2. status = "nobody" => units = <<>>
    BY <1>3
  <2>3. QED
    BY <1>2, <1>7, <2>1, <2>2 DEF SayingOK
<1>9. Serving(TRUE, "up", d, m)
  BY <1>6, <1>7, <1>8, ServingStaged
<1>10. conn' = [conn EXCEPT ![l] = d] /\ said' = [said EXCEPT ![l] = m]
  BY <1>1, <1>3, <1>5 DEF StageResponse
<1>11. QED
  BY <1>6, <1>7, <1>9, <1>10, StagedStep

LEMMA StageStreamStep ==
  ASSUME SystemOK, Served, Resting, NEW l \in table, NEW y, LinkServed(wire[l], y), y.s = "up",
         wire' = [wire EXCEPT ![l] = y], UNCHANGED <<listening, table>>,
         heard' \in [Links -> Hearing \cup {None}],
         NEW c, Heard(c), NEW reply \in Reply, StageStream(l, c, reply)
  PROVE  SystemOK'
<1>1. PICK status \in Statuses, frame \in {"length", "chunked"}, len \in Nat, loc \in {None, "ok", "bad"} :
        status = reply.status /\ frame = reply.frame /\ len = reply.len /\ loc = reply.loc
  BY DEF Reply, Statuses
<1>2. PICK head : head = ResponseHead(status, frame, len, loc)
  OBVIOUS
<1>3. head \in HeadPiece /\ head \in ReplyPiece /\ head.status = status /\ head.frame = frame
      /\ head.len = len
  BY <1>2, HeadIs
<1>4. PICK src : src = [frame |-> frame, len |-> len, sent |-> 0, eof |-> FALSE]
  OBVIOUS
<1>5. src \in Source /\ src # None /\ src.frame = frame /\ src.len = len /\ src.sent = 0 /\ src.eof = FALSE
  <2>1. src \in Source
    BY <1>4 DEF Source
  <2>2. QED
    BY <1>4, <2>1, NoneIsNoRecord
<1>6. PICK whole : whole = (status = "nobody" \/ DeclaredAll(frame, len, 0))
  OBVIOUS
<1>7. whole \in BOOLEAN /\ (whole <=> status = "nobody" \/ (frame = "length" /\ len = 0))
  BY <1>6 DEF DeclaredAll
<1>8. PICK none : none = <<>>
  OBVIOUS
<1>9. none \in Seq(BodyPiece) /\ none \in Seq(ReplyPiece)
  BY <1>8
<1> PICK b, m : b = Stage(c, head, none) /\ m = Decided(head, none, whole)
  OBVIOUS
<1>10. b \in ConnRec /\ b.state = "sending" /\ b.armed /\ b.out # <<>>
  BY <1>3, <1>9, StageIs
<1>11. PICK d : d = [b EXCEPT !.src = src]
  OBVIOUS
<1>12. d \in ConnRec /\ d.state = "sending" /\ d.armed /\ d.out # <<>> /\ d.src = src
  BY <1>5, <1>10, <1>11 DEF ConnRec
<1>13. m \in Saying /\ m # None /\ m.head = head /\ m.body = none /\ m.whole = whole
  BY <1>3, <1>7, <1>9, SayingIs
<1>14. none = Units(0) /\ Len(none) = 0 /\ none = <<>>
  <2>1. Units(0) \in Seq(BodyPiece) /\ Len(Units(0)) = 0
    BY Pieces
  <2>2. QED
    BY <1>8, <2>1, EmptySeq
<1>15. SayingOK(m)
  BY <1>1, <1>3, <1>7, <1>13, <1>14 DEF SayingOK
<1>16. Sourced(d, m)
  BY <1>3, <1>5, <1>7, <1>12, <1>13, <1>14 DEF Sourced
<1>17. Serving(TRUE, "up", d, m)
  BY <1>12, <1>13, <1>15, <1>16, NoneIsNoRecord DEF Serving, Staging
<1>18. conn' = [conn EXCEPT ![l] = d] /\ said' = [said EXCEPT ![l] = m]
  BY <1>1, <1>2, <1>4, <1>6, <1>8, <1>11 DEF StageStream
<1>19. QED
  BY <1>12, <1>13, <1>17, <1>18, StagedStep

(* The handler: its reply, its failure, or its close of the server.         *)
LEMMA DispatchStep ==
  ASSUME SystemOK, Served, Resting, NEW l \in table, NEW y, LinkServed(wire[l], y), y.s = "up",
         NEW w, w = [wire EXCEPT ![l] = y], NEW c, Heard(c), c.ask \in Hearing, c.left = 0,
         Dispatch(l, c, w)
  PROVE  SystemOK'
<1>1. heard \in [Links -> Hearing \cup {None}] /\ l \in Links
  BY DEF SystemOK, ServerTyped
<1>2. PICK r : r = [method |-> c.ask.method, len |-> c.ask.len - c.left]
  OBVIOUS
<1>3. r \in Hearing
  BY <1>2 DEF Hearing
<1>4. heard' = [heard EXCEPT ![l] = r]
  BY <1>2 DEF Dispatch
<1>5. heard' \in [Links -> Hearing \cup {None}]
  BY <1>1, <1>3, <1>4
<1>6. CASE wire' = w /\ UNCHANGED <<listening, table>> /\ StageError(l, c)
  <2>1. StageResponse(l, c, "failure", 1, None)
    BY <1>6 DEF StageError
  <2>2. "failure" \in Statuses /\ 1 \in Nat /\ None \in {None, "ok", "bad"}
    BY DEF Statuses
  <2>3. QED
    BY <1>5, <1>6, <2>1, <2>2, StageResponseStep
<1>7. ASSUME wire' = w, UNCHANGED <<listening, table>>, NEW reply \in Replies,
             IF reply.how = "fixed" THEN StageResponse(l, c, reply.status, reply.len, reply.loc)
             ELSE StageStream(l, c, reply)
      PROVE  SystemOK'
  <2>1. reply \in Reply
    BY ServerAssumption DEF ServerAssumption
  <2>2. PICK status \in Statuses, len \in Nat, loc \in {None, "ok", "bad"} :
          status = reply.status /\ len = reply.len /\ loc = reply.loc
    BY <2>1 DEF Reply, Statuses
  <2>3. CASE reply.how = "fixed"
    <3>1. StageResponse(l, c, status, len, loc)
      BY <1>7, <2>2, <2>3
    <3>2. QED
      BY <1>5, <1>7, <3>1, StageResponseStep
  <2>4. CASE reply.how # "fixed"
    <3>1. StageStream(l, c, reply)
      BY <1>7, <2>4
    <3>2. QED
      BY <1>5, <1>7, <2>1, <3>1, StageStreamStep
  <2>5. QED
    BY <2>3, <2>4
<1>8. CASE CloseAll /\ UNCHANGED said
  BY <1>5, <1>8, CloseAllStep
<1>9. QED
  BY <1>6, <1>7, <1>8 DEF Dispatch

(* The connections of the table.                                            *)
LEMMA InTable ==
  ASSUME SystemOK, Served, NEW l \in table
  PROVE  /\ l \in Links /\ wire[l] \in LinkRec /\ wire[l].s = "up" /\ wire[l].c \in {"up", "closed"}
         /\ wire[l].c = "closed" => wire[l].down = <<>>
         /\ conn[l] \in ConnRec /\ conn[l].armed /\ conn[l].state # None
         /\ conn[l].state \in {"head", "body"} => Heard(conn[l])
         /\ Staging(conn[l], said[l])
         /\ said[l] \in Saying \cup {None} /\ (said[l] # None => SayingOK(said[l]))
         /\ said[l] # None <=> conn[l].state \in {"sending", "streaming"}
<1>1. l \in Links /\ conn[l] \in ConnRec /\ said[l] \in Saying \cup {None}
  BY DEF SystemOK, ServerTyped
<1>2. Serving(TRUE, wire[l].s, conn[l], said[l])
  <2>1. Serving(l \in table, wire[l].s, conn[l], said[l]) /\ (l \in table) = TRUE
    BY <1>1 DEF SystemOK, ServerInv
  <2>2. QED
    BY <2>1
<1>3. wire[l].s = "up"
  BY <1>2 DEF Serving
<1>4. wire[l] \in LinkRec /\ wire[l].c \in {"up", "closed"} /\ (wire[l].c = "closed" => wire[l].down = <<>>)
  BY <1>1, <1>3, LiveLink DEF SystemOK
<1>5. conn[l].state \in {"head", "body"} => Heard(conn[l])
  BY <1>1, <1>2 DEF Serving, Staging, Heard
<1>6. QED
  BY <1>1, <1>2, <1>3, <1>4, <1>5 DEF Serving

LEMMA FeedRequestStep ==
  ASSUME SystemOK, Served, Resting, NEW l \in table, NEW y, LinkServed(wire[l], y), y.s = "up",
         NEW w, w = [wire EXCEPT ![l] = y], conn[l].state \in {"head", "body"},
         NEW piece \in AskPiece, FeedRequest(l, conn[l], piece, w)
  PROVE  SystemOK'
<1>1. /\ l \in Links /\ conn[l] \in ConnRec /\ Heard(conn[l]) /\ Staging(conn[l], said[l])
      /\ said[l] = None
  BY InTable DEF ConnRec, NoConn
<1>2. PICK c \in ConnRec : c = conn[l] /\ Heard(c)
  BY <1>1
<1>3. /\ heard \in [Links -> Hearing \cup {None}] /\ said \in [Links -> Saying \cup {None}]
      /\ listening \in BOOLEAN
  BY DEF SystemOK, ServerTyped
<1>4. CASE StageError(l, c) /\ wire' = w /\ UNCHANGED <<listening, table, heard>>
  <2>1. StageResponse(l, c, "failure", 1, None)
    BY <1>4 DEF StageError
  <2>2. "failure" \in Statuses /\ 1 \in Nat /\ None \in {None, "ok", "bad"}
    BY DEF Statuses
  <2>3. heard' \in [Links -> Hearing \cup {None}]
    BY <1>3, <1>4
  <2>4. QED
    BY <1>2, <1>4, <2>1, <2>2, <2>3, StageResponseStep
<1>5. CASE Pop(l, w) /\ UNCHANGED <<listening, heard, said>>
  BY <1>5, PopStep
<1>6. PICK d : d = IF c.state = "head"
                   THEN [c EXCEPT !.ask = [method |-> piece.method, len |-> piece.len],
                                  !.left = piece.len, !.state = "body"]
                   ELSE [c EXCEPT !.left = @ - 1]
  OBVIOUS
<1>7. ASSUME c.state = "head" => piece.op = "request"
      PROVE  /\ d \in ConnRec /\ d.ask \in Hearing /\ Heard(d) /\ d.state = "body"
             /\ d.left = IF c.state = "head" THEN piece.len ELSE c.left - 1
             /\ d.left \in Nat
  <2>1. CASE c.state = "head"
    <3>1. piece.method \in {"GET", "POST"} /\ piece.len \in Nat
      BY <1>7, <2>1 DEF AskPiece, BodyPiece
    <3>2. PICK r : r = [method |-> piece.method, len |-> piece.len]
      OBVIOUS
    <3>3. r \in Hearing
      BY <3>1, <3>2 DEF Hearing
    <3>4. d = [c EXCEPT !.ask = r, !.left = piece.len, !.state = "body"]
      BY <1>6, <2>1, <3>2
    <3>5. d \in ConnRec
      BY <3>1, <3>3, <3>4 DEF ConnRec
    <3>6. d.ask = r /\ d.left = piece.len /\ d.state = "body" /\ d.out = c.out /\ d.src = c.src
          /\ d.armed = c.armed
      BY <3>4 DEF ConnRec
    <3>7. QED
      BY <1>2, <2>1, <3>1, <3>3, <3>5, <3>6 DEF Heard
  <2>2. CASE c.state # "head"
    <3>1. c.state = "body" /\ c.left > 0 /\ c.ask # None
      BY <1>1, <1>2, <2>2 DEF Staging
    <3>2. c.left \in Nat /\ c.left - 1 \in Nat /\ c.ask \in Hearing
      BY <3>1 DEF ConnRec
    <3>3. d = [c EXCEPT !.left = c.left - 1]
      BY <1>6, <2>2
    <3>4. d \in ConnRec
      BY <3>2, <3>3 DEF ConnRec
    <3>5. d.ask = c.ask /\ d.left = c.left - 1 /\ d.state = c.state /\ d.out = c.out /\ d.src = c.src
          /\ d.armed = c.armed
      BY <3>3 DEF ConnRec
    <3>6. QED
      BY <1>2, <2>2, <3>1, <3>2, <3>4, <3>5 DEF Heard
  <2>3. QED
    BY <2>1, <2>2
<1>8. CASE (c.state = "head" => piece.op = "request") /\ EndsRequest(c, piece) /\ Dispatch(l, d, w)
  <2>1. d.left = 0
    BY <1>7, <1>8 DEF EndsRequest
  <2>2. QED
    BY <1>7, <1>8, <2>1, DispatchStep
<1>9. CASE (c.state = "head" => piece.op = "request") /\ ~EndsRequest(c, piece)
           /\ conn' = [conn EXCEPT ![l] = d] /\ wire' = w /\ UNCHANGED <<listening, table, heard, said>>
  <2>1. d.left > 0
    BY <1>7, <1>9 DEF EndsRequest, ConnRec
  <2>2. d.ask # None
    BY <1>7, <1>9, NoneIsNoRecord
  <2>3. PICK m \in Saying \cup {None} : m = None
    OBVIOUS
  <2>4. Serving(TRUE, "up", d, m)
    BY <1>7, <1>9, <2>1, <2>2, <2>3, NoneIsNoRecord DEF Serving, Staging, Heard
  <2>5. said' = [said EXCEPT ![l] = m] /\ heard' \in [Links -> Hearing \cup {None}]
    BY <1>1, <1>3, <1>9, <2>3
  <2>6. QED
    BY <1>7, <1>9, <2>4, <2>5, StagedStep
<1>10. QED
  BY <1>2, <1>4, <1>5, <1>6, <1>8, <1>9 DEF FeedRequest, Limits

LEMMA TailOf ==
  ASSUME NEW S, NEW q \in Seq(S), q # <<>>
  PROVE  /\ Head(q) \in S /\ Tail(q) \in Seq(S) /\ Len(Tail(q)) = Len(q) - 1 /\ Len(q) > 0
         /\ Head(q) = q[1] /\ \A j \in 1..Len(Tail(q)) : Tail(q)[j] = q[j + 1]
  OBVIOUS

LEMMA ServerReceiveStep ==
  ASSUME SystemOK, Served, Resting, NEW l \in table, ServerReceive(l)
  PROVE  SystemOK'
<1>1. PICK x \in LinkRec : x = wire[l] /\ x.s = "up" /\ x.c \in {"up", "closed"} /\ x.up # <<>>
  BY InTable DEF ServerReceive
<1>2. PICK q \in Seq(AskPiece) : q = x.up /\ q # <<>>
  BY <1>1 DEF LinkRec
<1>3. PICK piece, rest : piece = Head(q) /\ rest = Tail(q)
  OBVIOUS
<1>4. piece \in AskPiece /\ rest \in Seq(AskPiece)
  BY <1>2, <1>3, TailOf
<1>5. PICK y : y = [x EXCEPT !.up = rest]
  OBVIOUS
<1>6. y \in LinkRec /\ y.c = x.c /\ y.s = "up" /\ y.down = x.down
  BY <1>1, <1>4, <1>5 DEF LinkRec
<1>7. LinkServed(wire[l], y)
  BY <1>1, <1>6 DEF LinkServed
<1>8. PICK w : w = [wire EXCEPT ![l].up = Tail(@)]
  OBVIOUS
<1>9. w = [wire EXCEPT ![l] = y]
  BY <1>1, <1>2, <1>3, <1>5, <1>8
<1>10. FeedRequest(l, conn[l], piece, w) /\ conn[l].state \in {"head", "body"}
  BY <1>1, <1>2, <1>3, <1>8 DEF ServerReceive, Receives
<1>11. QED
  BY <1>4, <1>6, <1>7, <1>9, <1>10, FeedRequestStep

LEMMA ServerSendStep ==
  ASSUME SystemOK, Served, Resting, NEW l \in table, ServerSend(l)
  PROVE  SystemOK'
<1>1. PICK x \in LinkRec : /\ x = wire[l] /\ x.s = "up" /\ x.c \in {"up", "closed"}
                           /\ x.c = "closed" => x.down = <<>>
  BY InTable
<1>2. PICK b \in ConnRec : b = conn[l] /\ b.out # <<>> /\ b.armed
  BY InTable DEF ServerSend, Sends
<1>3. PICK q \in Seq(ReplyPiece) : q = b.out /\ q # <<>>
  BY <1>2 DEF ConnRec
<1>4. PICK piece, rest : piece = Head(q) /\ rest = Tail(q)
  OBVIOUS
<1>5. piece \in ReplyPiece /\ rest \in Seq(ReplyPiece)
  BY <1>3, <1>4, TailOf
<1>6. PICK c : c = [b EXCEPT !.out = rest]
  OBVIOUS
<1>7. c \in ConnRec /\ c.out = rest /\ c.state = b.state /\ c.src = b.src /\ c.armed /\ c.left = b.left
      /\ c.ask = b.ask
  BY <1>2, <1>5, <1>6 DEF ConnRec
<1>8. PICK m \in Saying \cup {None} : m = said[l]
  BY InTable
<1>9. /\ Staging(b, m) /\ m # None /\ SayingOK(m) /\ b.state \in {"sending", "streaming"}
  <2>1. Staging(b, m) /\ (m # None => SayingOK(m)) /\ (m # None <=> b.state \in {"sending", "streaming"})
        /\ b.state # None
    BY <1>2, <1>8, InTable
  <2>2. b.state \in {"sending", "streaming"}
    BY <1>2, <2>1 DEF Staging, ConnRec
  <2>3. QED
    BY <2>1, <2>2
<1>10. PICK more : more = Append(x.down, piece)
  OBVIOUS
<1>11. more \in Seq(ReplyPiece)
  <2>1. x.down \in Seq(ReplyPiece)
    BY <1>1 DEF LinkRec
  <2>2. QED
    BY <1>5, <1>10, <2>1
<1>12. PICK y : y = IF x.c = "closed" THEN x ELSE [x EXCEPT !.down = more]
  OBVIOUS
<1>13. y \in LinkRec /\ y.c = x.c /\ y.s = "up" /\ (x.c = "closed" => y.down = <<>>)
  BY <1>1, <1>11, <1>12 DEF LinkRec
<1>14. LinkServed(wire[l], y)
  BY <1>1, <1>13 DEF LinkServed
<1>15. PICK w : w = IF x.c = "closed" THEN wire ELSE [wire EXCEPT ![l].down = Append(@, piece)]
  OBVIOUS
<1>16. /\ wire \in [Links -> LinkRec] /\ l \in Links /\ conn \in [Links -> ConnRec]
       /\ said \in [Links -> Saying \cup {None}] /\ heard \in [Links -> Hearing \cup {None}]
  BY NowIs DEF SystemOK, Wiring, ServerTyped
<1>17. w = [wire EXCEPT ![l] = y]
  BY <1>1, <1>10, <1>12, <1>15, <1>16
<1>18. PICK d : d = IF rest = <<>> THEN [c EXCEPT !.state = "streaming"] ELSE c
  OBVIOUS
<1>19. /\ UNCHANGED <<listening, heard, said>>
       /\ IF rest = <<>> /\ Finished(c) THEN Pop(l, w)
          ELSE conn' = [conn EXCEPT ![l] = d] /\ wire' = w /\ UNCHANGED table
  <2>1. c = [conn[l] EXCEPT !.out = Tail(@)]
    BY <1>2, <1>3, <1>4, <1>6, <1>16
  <2>2. w = IF x.c = "closed" THEN wire ELSE [wire EXCEPT ![l].down = Append(@, Head(conn[l].out))]
    BY <1>2, <1>3, <1>4, <1>15
  <2>3. QED
    BY <1>1, <1>7, <1>18, <2>1, <2>2 DEF ServerSend
<1>20. CASE rest = <<>> /\ Finished(c)
  BY <1>14, <1>17, <1>19, <1>20, PopStep
<1>21. CASE ~(rest = <<>> /\ Finished(c))
  <2>1. d \in ConnRec /\ d.out = rest /\ d.src = b.src /\ d.armed
        /\ d.state = IF rest = <<>> THEN "streaming" ELSE b.state
    BY <1>7, <1>18 DEF ConnRec
  <2>2. rest = <<>> => b.src # None /\ ~(b.src.eof /\ b.state = "streaming")
    BY <1>7, <1>21 DEF Finished
  <2>3. Staging(d, m)
    BY <1>9, <2>1, <2>2 DEF Staging, Sourced
  <2>4. Serving(TRUE, "up", d, m)
    BY <1>9, <2>1, <2>3, NoneIsNoRecord DEF Serving
  <2>5. said' = [said EXCEPT ![l] = m] /\ heard' \in [Links -> Hearing \cup {None}]
    BY <1>8, <1>16, <1>19
  <2>6. QED
    BY <1>13, <1>14, <1>17, <1>19, <1>21, <2>1, <2>4, <2>5, StagedStep
<1>22. QED
  BY <1>20, <1>21

LEMMA OneMoreUnit ==
  ASSUME NEW n \in Nat
  PROVE  Append(Units(n), Body(n + 1)) = Units(n + 1)
<1>1. PICK p, q, b : p = Units(n) /\ q = Units(n + 1) /\ b = Body(n + 1)
  OBVIOUS
<1>2. p \in Seq(BodyPiece) /\ Len(p) = n /\ \A i \in 1..n : p[i] = Body(i)
  BY <1>1, Pieces
<1>3. q \in Seq(BodyPiece) /\ Len(q) = n + 1 /\ \A i \in 1..n + 1 : q[i] = Body(i)
  <2>1. n + 1 \in Nat
    OBVIOUS
  <2>2. QED
    BY <1>1, <2>1, Pieces
<1>4. PICK r : r = Append(p, b)
  OBVIOUS
<1>5. b \in BodyPiece
  <2>1. n + 1 \in Nat
    OBVIOUS
  <2>2. QED
    BY <1>1, <2>1, Pieces
<1>6. r \in Seq(BodyPiece) /\ Len(r) = n + 1 /\ \A i \in 1..n + 1 : r[i] = IF i <= n THEN p[i] ELSE b
  BY <1>2, <1>4, <1>5
<1>7. \A i \in 1..n + 1 : r[i] = q[i]
  <2>1. ASSUME NEW i \in 1..n + 1 PROVE r[i] = q[i]
    <3>1. CASE i <= n
      BY <1>2, <1>3, <1>6, <3>1
    <3>2. CASE i > n
      <4>1. i = n + 1
        BY <3>2
      <4>2. QED
        BY <1>1, <1>3, <1>6, <4>1
    <3>3. QED
      BY <3>1, <3>2
  <2>2. QED
    BY <2>1
<1>8. r = q
  BY <1>3, <1>6, <1>7, SeqEqual
<1>9. QED
  BY <1>1, <1>4, <1>8

(* A connection whose source is asked for more.                             *)
LEMMA Pulling ==
  ASSUME SystemOK, Served, NEW l \in table, Pulls(l)
  PROVE  \E c \in ConnRec, src \in Source, m \in Saying :
           /\ c = conn[l] /\ src = c.src /\ m = said[l] /\ m # None /\ c.armed
           /\ c.state = "streaming" /\ c.out = <<>> /\ ~src.eof
           /\ src.frame = m.head.frame /\ src.len = m.head.len
           /\ m.head.status # "nobody" => src.sent = Len(m.body)
           /\ src.frame = "chunked" /\ m.head.status # "nobody" => ~m.whole
           /\ SayingOK(m)
<1>1. /\ conn[l] \in ConnRec /\ conn[l].state = "streaming" /\ conn[l].out = <<>>
      /\ Staging(conn[l], said[l]) /\ conn[l].armed
      /\ said[l] # None /\ SayingOK(said[l]) /\ said[l] \in Saying
  BY InTable DEF Pulls
<1>2. conn[l].src # None
  BY <1>1 DEF Staging
<1>3. Sourced(conn[l], said[l])
  BY <1>1, <1>2 DEF Staging
<1>4. conn[l].src \in Source
  BY <1>1, <1>2 DEF ConnRec
<1>5. QED
  BY <1>1, <1>3, <1>4 DEF Sourced, Source

LEMMA StillThere ==
  ASSUME SystemOK, Served, NEW l \in table, wire' = wire
  PROVE  \E y : LinkServed(wire[l], y) /\ y.s = "up" /\ wire' = [wire EXCEPT ![l] = y]
<1>1. wire[l] \in LinkRec /\ wire[l].s = "up" /\ l \in Links /\ wire \in [Links -> LinkRec]
  BY InTable, NowIs DEF SystemOK, Wiring
<1>2. PICK y : y = wire[l]
  OBVIOUS
<1>3. QED
  BY <1>1, <1>2 DEF LinkServed

LEMMA PullDataStep ==
  ASSUME SystemOK, Served, Resting, NEW l \in table, PullData(l)
  PROVE  SystemOK'
<1>1. PICK c \in ConnRec, src \in Source, m \in Saying :
           /\ c = conn[l] /\ src = c.src /\ m = said[l] /\ m # None /\ c.armed
           /\ c.state = "streaming" /\ c.out = <<>> /\ ~src.eof
           /\ src.frame = m.head.frame /\ src.len = m.head.len
           /\ m.head.status # "nobody" => src.sent = Len(m.body)
           /\ src.frame = "chunked" /\ m.head.status # "nobody" => ~m.whole
           /\ SayingOK(m)
  BY Pulling DEF PullData
<1>2. PICK n \in Nat : n = src.sent
  BY DEF Source
<1>3. CASE FailConn(l)
  BY <1>3, FailConnStep
<1>4. ASSUME ~(src.frame = "length" /\ n + 1 > src.len),
             conn' = [conn EXCEPT ![l].src.sent = @ + 1, ![l].out = <<Body(n + 1)>>],
             said' = IF m.head.status = "nobody" THEN said
                     ELSE [said EXCEPT ![l].body = Append(@, Body(n + 1)),
                                       ![l].whole = DeclaredAll(src.frame, src.len, n + 1)],
             UNCHANGED <<listening, table, heard, wire>>
      PROVE  SystemOK'
  <2>1. /\ l \in Links /\ conn \in [Links -> ConnRec] /\ said \in [Links -> Saying \cup {None}]
        /\ heard \in [Links -> Hearing \cup {None}]
    BY DEF SystemOK, ServerTyped
  <2>2. PICK unit, out : unit = Body(n + 1) /\ out = <<unit>>
    OBVIOUS
  <2>3. unit \in ReplyPiece /\ unit \in BodyPiece
    <3>1. n + 1 \in Nat
      OBVIOUS
    <3>2. QED
      BY <2>2, <3>1, Pieces
  <2>4. out \in Seq(ReplyPiece) /\ out # <<>>
    BY <2>2, <2>3
  <2>5. PICK s : s = [src EXCEPT !.sent = n + 1]
    OBVIOUS
  <2>6. s \in Source /\ s.frame = src.frame /\ s.len = src.len /\ s.sent = n + 1 /\ s.eof = src.eof
    BY <2>5 DEF Source
  <2>7. PICK d : d = [c EXCEPT !.src = s, !.out = out]
    OBVIOUS
  <2>8. d \in ConnRec /\ d.state = "streaming" /\ d.armed /\ d.out = out /\ d.src = s
    BY <1>1, <2>4, <2>6, <2>7 DEF ConnRec
  <2>9. conn' = [conn EXCEPT ![l] = d]
    <3>1. conn' = [conn EXCEPT ![l] = [[conn[l] EXCEPT !.src.sent = @ + 1] EXCEPT !.out = out]]
      BY <1>4, <2>1, <2>2
    <3>2. [c EXCEPT !.src.sent = @ + 1] = [c EXCEPT !.src = s]
      BY <1>1, <1>2, <2>5 DEF ConnRec, Source
    <3>3. QED
      BY <1>1, <2>7, <3>1, <3>2
  <2>10. PICK body, whole : body = Append(m.body, unit) /\ whole = DeclaredAll(src.frame, src.len, n + 1)
    OBVIOUS
  <2>11. m.body \in Seq(BodyPiece)
    BY DEF Saying
  <2>12. body \in Seq(BodyPiece) /\ Len(body) = Len(m.body) + 1 /\ whole \in BOOLEAN
    BY <2>3, <2>10, <2>11 DEF DeclaredAll
  <2>13. PICK v : v = IF m.head.status = "nobody" THEN m ELSE [m EXCEPT !.body = body, !.whole = whole]
    OBVIOUS
  <2>14. /\ v \in Saying /\ v # None /\ v.head = m.head
         /\ m.head.status = "nobody" => v = m
         /\ m.head.status # "nobody" => v.body = body /\ v.whole = whole
    <3>1. v \in Saying
      BY <2>12, <2>13 DEF Saying
    <3>2. QED
      BY <2>13, <3>1, NoneIsNoRecord DEF Saying
  <2>15. said' = [said EXCEPT ![l] = v]
    BY <1>1, <1>4, <2>1, <2>2, <2>10, <2>13
  <2>16. m.head.status # "nobody" => body = Units(n + 1) /\ Len(body) = n + 1
    <3>1. m.head.status # "nobody" => m.body = Units(n) /\ Len(m.body) = n
      BY <1>1, <1>2 DEF SayingOK
    <3>2. Append(Units(n), Body(n + 1)) = Units(n + 1)
      BY OneMoreUnit
    <3>3. QED
      BY <2>2, <2>10, <2>12, <3>1, <3>2
  <2>17. SayingOK(v)
    <3>1. m.head.status = "nobody" => SayingOK(v)
      BY <1>1, <2>14
    <3>2. ASSUME m.head.status # "nobody" PROVE SayingOK(v)
      <4>1. m.head.frame \in {"length", "chunked"}
        BY <1>1 DEF SayingOK
      <4>2. v.body = Units(Len(v.body))
        BY <2>14, <2>16, <3>2
      <4>3. m.head.frame = "length" => Len(v.body) <= m.head.len /\ (v.whole <=> Len(v.body) = m.head.len)
        <5>1. src.frame = "length" => (whole <=> n + 1 = src.len)
          BY <2>10 DEF DeclaredAll
        <5>2. Len(v.body) = n + 1 /\ v.whole = whole
          BY <2>14, <2>16, <3>2
        <5>3. src.len \in Nat /\ src.len = m.head.len /\ src.frame = m.head.frame
          BY <1>1 DEF Source
        <5>4. QED
          BY <1>4, <5>1, <5>2, <5>3
      <4>4. QED
        BY <2>14, <3>2, <4>1, <4>2, <4>3 DEF SayingOK
    <3>3. QED
      BY <3>1, <3>2
  <2>18. Sourced(d, v)
    BY <1>1, <2>6, <2>8, <2>10, <2>14, <2>16 DEF Sourced, DeclaredAll
  <2>19. Serving(TRUE, "up", d, v)
    BY <2>4, <2>6, <2>8, <2>14, <2>17, <2>18, NoneIsNoRecord DEF Serving, Staging
  <2>20. PICK y : LinkServed(wire[l], y) /\ y.s = "up" /\ wire' = [wire EXCEPT ![l] = y]
    BY <1>4, StillThere
  <2>21. heard' \in [Links -> Hearing \cup {None}]
    BY <1>4, <2>1
  <2>22. QED
    BY <1>4, <2>8, <2>9, <2>14, <2>15, <2>19, <2>20, <2>21, StagedStep
<1>5. QED
  BY <1>1, <1>2, <1>3, <1>4 DEF PullData

LEMMA PullEofStep ==
  ASSUME SystemOK, Served, Resting, NEW l \in table, PullEof(l)
  PROVE  SystemOK'
<1>1. PICK c \in ConnRec, src \in Source, m \in Saying :
           /\ c = conn[l] /\ src = c.src /\ m = said[l] /\ m # None /\ c.armed
           /\ c.state = "streaming" /\ c.out = <<>> /\ ~src.eof
           /\ src.frame = m.head.frame /\ src.len = m.head.len
           /\ m.head.status # "nobody" => src.sent = Len(m.body)
           /\ src.frame = "chunked" /\ m.head.status # "nobody" => ~m.whole
           /\ SayingOK(m)
  BY Pulling DEF PullEof
<1>2. CASE FailConn(l)
  BY <1>2, FailConnStep
<1>3. ASSUME src.frame = "chunked",
             conn' = [conn EXCEPT ![l].src.eof = TRUE, ![l].out = <<Last>>],
             said' = [said EXCEPT ![l].whole = TRUE],
             UNCHANGED <<listening, table, heard, wire>>
      PROVE  SystemOK'
  <2>1. /\ l \in Links /\ conn \in [Links -> ConnRec] /\ said \in [Links -> Saying \cup {None}]
        /\ heard \in [Links -> Hearing \cup {None}]
    BY DEF SystemOK, ServerTyped
  <2>2. PICK out : out = <<Last>>
    OBVIOUS
  <2>3. Last \in ReplyPiece
    BY Pieces
  <2>4. out \in Seq(ReplyPiece) /\ out # <<>>
    BY <2>2, <2>3
  <2>5. PICK s : s = [src EXCEPT !.eof = TRUE]
    OBVIOUS
  <2>6. s \in Source /\ s.frame = "chunked" /\ s.len = src.len /\ s.sent = src.sent /\ s.eof = TRUE
    BY <1>3, <2>5 DEF Source
  <2>7. PICK d : d = [c EXCEPT !.src = s, !.out = out]
    OBVIOUS
  <2>8. d \in ConnRec /\ d.state = "streaming" /\ d.armed /\ d.out = out /\ d.src = s
    BY <1>1, <2>4, <2>6, <2>7 DEF ConnRec
  <2>9. conn' = [conn EXCEPT ![l] = d]
    <3>1. conn' = [conn EXCEPT ![l] = [[conn[l] EXCEPT !.src.eof = TRUE] EXCEPT !.out = out]]
      BY <1>3, <2>1, <2>2
    <3>2. [c EXCEPT !.src.eof = TRUE] = [c EXCEPT !.src = s]
      BY <1>1, <2>5 DEF ConnRec, Source
    <3>3. QED
      BY <1>1, <2>7, <3>1, <3>2
  <2>10. PICK v : v = [m EXCEPT !.whole = TRUE]
    OBVIOUS
  <2>11. v \in Saying /\ v # None /\ v.head = m.head /\ v.body = m.body /\ v.whole = TRUE
    <3>1. v \in Saying
      BY <2>10 DEF Saying
    <3>2. QED
      BY <2>10, <3>1, NoneIsNoRecord DEF Saying
  <2>12. said' = [said EXCEPT ![l] = v]
    BY <1>1, <1>3, <2>1, <2>10
  <2>13. m.head.frame = "chunked"
    BY <1>1, <1>3
  <2>14. SayingOK(v)
    BY <1>1, <2>11, <2>13 DEF SayingOK
  <2>15. Sourced(d, v)
    BY <1>1, <2>4, <2>6, <2>8, <2>11, <2>13 DEF Sourced
  <2>16. Serving(TRUE, "up", d, v)
    BY <2>4, <2>6, <2>8, <2>11, <2>14, <2>15, NoneIsNoRecord DEF Serving, Staging
  <2>17. PICK y : LinkServed(wire[l], y) /\ y.s = "up" /\ wire' = [wire EXCEPT ![l] = y]
    BY <1>3, StillThere
  <2>18. heard' \in [Links -> Hearing \cup {None}]
    BY <1>3, <2>1
  <2>19. QED
    BY <1>3, <2>8, <2>9, <2>11, <2>12, <2>16, <2>17, <2>18, StagedStep
<1>4. QED
  BY <1>1, <1>2, <1>3 DEF PullEof

LEMMA AcceptStep ==
  ASSUME SystemOK, Served, Resting, NEW l \in Links, Accept(l)
  PROVE  SystemOK'
<1>1. /\ wire \in [Links -> LinkRec] /\ said \in [Links -> Saying \cup {None}]
      /\ heard \in [Links -> Hearing \cup {None}] /\ listening \in BOOLEAN
      /\ table \subseteq Links /\ IsFiniteSet(table)
  <2>1. table \subseteq Links /\ IsFiniteSet(Links)
    BY WireAssumption DEF SystemOK, ServerTyped, WireAssumption
  <2>2. IsFiniteSet(table)
    BY <2>1, FS_Subset
  <2>3. QED
    BY <2>1, <2>2, NowIs DEF SystemOK, Wiring, ServerTyped
<1>2. PICK x \in LinkRec : x = wire[l] /\ x.s = "backlog"
  BY <1>1 DEF Accept
<1>3. x.c \in {"up", "closed"}
  BY <1>2, LiveLink DEF SystemOK
<1>4. PICK y : y = [x EXCEPT !.s = "up"]
  OBVIOUS
<1>5. y \in LinkRec /\ y.s = "up" /\ y.c = x.c /\ y.down = x.down
  BY <1>4 DEF LinkRec
<1>6. PICK z : z = Settled(y)
  OBVIOUS
<1>7. z \in LinkRec /\ z.s = "up" /\ z.c = x.c /\ z.down \in {x.down, <<>>}
  BY <1>5, <1>6, Settles
<1>8. LinkServed(wire[l], z)
  BY <1>2, <1>3, <1>7 DEF LinkServed
<1>9. wire' = [wire EXCEPT ![l] = z]
  BY <1>1, <1>2, <1>4, <1>6 DEF Accept
<1>10. <<>> \in Seq(ReplyPiece)
  OBVIOUS
<1>11. PICK d : d = Accepted
  OBVIOUS
<1>12. d \in ConnRec /\ d.state = "head" /\ d.armed = TRUE /\ d.out = <<>> /\ d.src = None
  BY <1>10, <1>11 DEF Accepted, NoConn, ConnRec
<1>13. Serving(l \in table, wire[l].s, conn[l], said[l])
  BY DEF SystemOK, ServerInv
<1>14. said[l] = None /\ l \notin table
  BY <1>2, <1>13 DEF Serving
<1>15. PICK m \in Saying \cup {None} : m = None
  OBVIOUS
<1>16. Serving(TRUE, "up", d, m)
  BY <1>12, <1>15, NoneIsNoRecord DEF Serving, Staging
<1>17. Serving(l \in table \cup {l}, z.s, d, m)
  <2>1. (l \in table \cup {l}) = TRUE
    OBVIOUS
  <2>2. QED
    BY <1>7, <1>16, <2>1
<1>18. said' = [said EXCEPT ![l] = m] /\ conn' = [conn EXCEPT ![l] = d] /\ table' = table \cup {l}
       /\ listening' \in BOOLEAN /\ heard' \in [Links -> Hearing \cup {None}]
  BY <1>1, <1>11, <1>14, <1>15 DEF Accept
<1>19. Cardinality(table \cup {l}) <= MaxConnections
  <2>1. Cardinality(table \cup {l}) = Cardinality(table) + 1 /\ Cardinality(table) \in Nat
    BY <1>1, <1>14, FS_AddElement, FS_CardinalityType
  <2>2. Cardinality(table) < MaxConnections
    BY DEF Accept, HasRoom
  <2>3. QED
    BY <2>1, <2>2, ServerAssumption DEF ServerAssumption
<1>20. (table \cup {l}) \in {table, table \ {l}, table \cup {l}}
  OBVIOUS
<1>21. QED
  BY <1>8, <1>9, <1>12, <1>17, <1>18, <1>19, <1>20, ServedAt

LEMMA ListenStep ==
  ASSUME SystemOK, Served, Resting, Listen
  PROVE  SystemOK'
<1>1. /\ listening' = TRUE /\ table' = table /\ conn' = conn /\ heard' = heard /\ said' = said
      /\ wire' = wire /\ world' = world
  BY DEF Listen, Resting
<1>2. wire \in [Links -> LinkRec]
  BY NowIs DEF SystemOK, Wiring
<1>3. Wiring'
  <2>1. wire' \in [Links -> LinkRec] /\ \A l \in Links : LinkServed(wire[l], wire'[l])
    BY <1>1, <1>2 DEF LinkServed
  <2>2. QED
    BY <2>1, WiringServed DEF SystemOK, Resting
<1>4. ServerTyped' /\ ServerInv'
  BY <1>1 DEF SystemOK, ServerTyped, ServerInv
<1>5. QED
  BY <1>3, <1>4 DEF SystemOK

LEMMA ServerStep ==
  ASSUME SystemOK, ServerSteps
  PROVE  SystemOK'
<1>1. Served /\ Resting
  BY DEF ServerSteps, Resting
<1>2. ASSUME NEW l \in Links, Tick(l) PROVE SystemOK'
  <2>1. l \in table
    BY <1>2 DEF Tick, RequestTimeout, ServerReceive, ServerReceiveEnd, Receives, ServerSend,
                ServerSendFails, Sends, PullData, PullEof, PullRaises, Pulls
  <2>2. CASE RequestTimeout(l) \/ ServerReceiveEnd(l) \/ ServerSendFails(l) \/ PullRaises(l)
    <3>1. FailConn(l)
      BY <2>2 DEF RequestTimeout, ServerReceiveEnd, RequestEof, ServerSendFails, PullRaises, SourceFails
    <3>2. QED
      BY <1>1, <2>1, <3>1, FailConnStep
  <2>3. CASE ServerReceive(l)
    BY <1>1, <2>1, <2>3, ServerReceiveStep
  <2>4. CASE ServerSend(l)
    BY <1>1, <2>1, <2>4, ServerSendStep
  <2>5. CASE PullData(l)
    BY <1>1, <2>1, <2>5, PullDataStep
  <2>6. CASE PullEof(l)
    BY <1>1, <2>1, <2>6, PullEofStep
  <2>7. QED
    BY <1>2, <2>2, <2>3, <2>4, <2>5, <2>6 DEF Tick
<1>3. CASE ServerClose
  <2>1. CloseAll /\ said' = said /\ heard' \in [Links -> Hearing \cup {None}]
    BY <1>3 DEF ServerClose, SystemOK, ServerTyped
  <2>2. QED
    BY <1>1, <2>1, CloseAllStep
<1>4. QED
  BY <1>1, <1>2, <1>3, AcceptStep, ListenStep DEF ServerSteps, ServerHandle

-----------------------------------------------------------------------------
(* The steps of the client, of foreign peers, of the network.               *)
LEMMA ServerRests ==
  ASSUME ServerTyped, ServerInv, UNCHANGED serverState, UNCHANGED world,
         Served => \A l \in Links : \/ wire'[l].s = wire[l].s
                                    \/ wire[l].s = "none" /\ wire'[l].s = "backlog"
  PROVE  ServerTyped' /\ ServerInv'
<1>1. /\ listening' = listening /\ table' = table /\ conn' = conn /\ heard' = heard /\ said' = said
      /\ (Served' <=> Served)
  BY DEF serverState, Served
<1>2. ServerTyped'
  BY <1>1 DEF ServerTyped
<1>3. ASSUME Served, NEW l \in Links
      PROVE  Serving(l \in table, wire'[l].s, conn[l], said[l])
  <2>1. Serving(l \in table, wire[l].s, conn[l], said[l])
    BY <1>3 DEF ServerInv
  <2>2. CASE wire'[l].s = wire[l].s
    BY <2>1, <2>2
  <2>3. CASE wire[l].s = "none" /\ wire'[l].s = "backlog"
    <3>1. l \notin table /\ said[l] = None /\ conn[l] = NoConn /\ Staging(conn[l], said[l])
          /\ ~conn[l].armed
      BY <2>1, <2>3 DEF Serving
    <3>2. QED
      BY <2>3, <3>1 DEF Serving
  <2>4. QED
    BY <1>3, <2>2, <2>3
<1>4. ServerInv'
  <2>1. ASSUME Served, NEW l \in Links
        PROVE  Serving(l \in table', wire'[l].s, conn'[l], said'[l])
    BY <1>1, <1>3, <2>1
  <2>2. QED
    BY <1>1, <2>1 DEF ServerInv
<1>5. QED
  BY <1>2, <1>4

LEMMA ClientKeeps ==
  ASSUME SystemOK, ClientSteps
  PROVE  SystemOK'
<1>1. /\ Asked /\ (ClientHandle \/ ClientApp) /\ UNCHANGED serverState /\ UNCHANGED world
      /\ ClientOK /\ (Asked' <=> Asked)
  BY DEF ClientSteps, SystemOK, Wiring, Asked
<1>2. ClientOK' /\ WireKept(Now, Now')
  BY <1>1, ClientStep, ClientEffect
<1>3. Now.w = wire /\ Now'.w = wire'
  BY DEF Now
<1>4. Wired(Now)
  BY <1>1, <1>3 DEF SystemOK, Wiring, Wired
<1>5. Wired(Now') /\ Ends(Now, Now')
  BY <1>2, <1>4 DEF WireKept
<1>6. Wiring'
  BY <1>1, <1>2, <1>3, <1>5 DEF Wiring, Wired
<1>7. \A l \in Links : \/ wire'[l].s = wire[l].s
                       \/ wire[l].s = "none" /\ wire'[l].s = "backlog"
  BY <1>3, <1>5 DEF Ends
<1>8. ServerTyped' /\ ServerInv'
  BY <1>1, <1>7, ServerRests DEF SystemOK
<1>9. QED
  BY <1>6, <1>8 DEF SystemOK

(* What a peer, or the network, does to a connection in use.                *)
LEMMA ForeignAt ==
  ASSUME SystemOK, UNCHANGED <<clientState, serverState, world>>, NEW l \in Links,
         NEW x \in LinkRec, wire' = [wire EXCEPT ![l] = x], x.c \in {"up", "closed"},
         x.c = "closed" => x.down = <<>>, Asked => x.c = wire[l].c,
         Served => \/ x.s = wire[l].s
                   \/ wire[l].s = "none" /\ x.s = "backlog"
  PROVE  SystemOK'
<1>1. wire \in [Links -> LinkRec]
  BY NowIs DEF SystemOK, Wiring
<1>2. wire' \in [Links -> LinkRec] /\ wire'[l] = x /\ \A k \in Links : k # l => wire'[k] = wire[k]
  BY <1>1
<1>3. ServerTyped' /\ ServerInv'
  BY <1>2, ServerRests DEF SystemOK
<1>4. CASE Asked
  <2>1. \A k \in Links : LinkServed(wire[k], wire'[k])
    BY <1>1, <1>2, <1>4 DEF LinkServed
  <2>2. Wiring'
    BY <1>2, <2>1, WiringServed DEF SystemOK
  <2>3. QED
    BY <1>3, <2>2 DEF SystemOK
<1>5. CASE ~Asked
  <2>1. FreshLinks(wire') /\ ClosedLinks(wire')
    BY <1>2 DEF SystemOK, Wiring, FreshLinks, ClosedLinks
  <2>2. ClientOK'
    BY <1>2, ClientRestsStep DEF SystemOK, Wiring
  <2>3. client'.state = "idle" /\ ~Asked'
    BY <1>5 DEF SystemOK, Wiring, clientState, Asked
  <2>4. QED
    BY <1>3, <2>1, <2>2, <2>3 DEF SystemOK, Wiring
<1>6. QED
  BY <1>4, <1>5

LEMMA ForeignKeeps ==
  ASSUME SystemOK, NEW l \in Links, ForeignSteps(l)
  PROVE  SystemOK'
<1>1. PICK y \in LinkRec : /\ y = wire[l] /\ (y.c = "closed" => y.down = <<>>)
                           /\ y.s # "none" => y.c \in {"up", "closed"}
                           /\ y.c = "none" => y.s = "none"
  BY LiveLink DEF SystemOK
<1>2. wire \in [Links -> LinkRec] /\ UNCHANGED <<clientState, serverState, world>>
  BY NowIs DEF SystemOK, Wiring, ForeignSteps
<1>3. y.up \in Seq(AskPiece) /\ y.down \in Seq(ReplyPiece) /\ <<>> \in Seq(AskPiece) /\ <<>> \in Seq(ReplyPiece)
  BY DEF LinkRec
<1>4. CASE LinkBreaks(l)
  <2>1. PICK x : x = [y EXCEPT !.lost = TRUE, !.up = <<>>, !.down = <<>>]
    OBVIOUS
  <2>2. x \in LinkRec /\ x.c = "up" /\ x.s = y.s /\ y.c = "up"
    BY <1>1, <1>3, <1>4, <2>1 DEF LinkBreaks, LinkRec
  <2>3. wire' = [wire EXCEPT ![l] = x]
    BY <1>1, <1>2, <1>4, <2>1 DEF LinkBreaks
  <2>4. QED
    BY <1>1, <1>2, <2>2, <2>3, ForeignAt
<1>5. CASE ~Served /\ ForeignAccepts(l)
  <2>1. PICK x : x = [y EXCEPT !.s = "up"]
    OBVIOUS
  <2>2. x \in LinkRec /\ x.c = y.c /\ x.down = y.down /\ y.c \in {"up", "closed"}
    BY <1>1, <1>5, <2>1 DEF ForeignAccepts, LinkRec
  <2>3. wire' = [wire EXCEPT ![l] = x]
    BY <1>1, <1>2, <1>5, <2>1 DEF ForeignAccepts
  <2>4. QED
    BY <1>1, <1>2, <1>5, <2>2, <2>3, ForeignAt
<1>6. CASE ~Served /\ ForeignReplies_(l)
  <2>1. PICK piece \in ForeignReplies :
          wire' = [wire EXCEPT ![l].down = Append(@, piece), ![l].up = <<>>]
    BY <1>6 DEF ForeignReplies_
  <2>2. piece \in ReplyPiece /\ y.c = "up"
    BY <1>1, <1>6, WorldAssumption DEF WorldAssumption, ForeignReplies_
  <2>3. PICK more : more = Append(y.down, piece)
    OBVIOUS
  <2>4. more \in Seq(ReplyPiece)
    BY <1>3, <2>2, <2>3
  <2>5. PICK x : x = [y EXCEPT !.down = more, !.up = <<>>]
    OBVIOUS
  <2>6. x \in LinkRec /\ x.c = y.c
    BY <1>3, <2>4, <2>5 DEF LinkRec
  <2>7. wire' = [wire EXCEPT ![l] = x]
    BY <1>1, <1>2, <2>1, <2>3, <2>5
  <2>8. QED
    BY <1>1, <1>2, <1>6, <2>2, <2>6, <2>7, ForeignAt
<1>7. CASE ~Served /\ ForeignCloses(l)
  <2>1. PICK x : x = CloseServerEnd(y)
    OBVIOUS
  <2>2. x \in LinkRec /\ x.c = y.c /\ x.down \in {y.down, <<>>}
    BY <2>1, ServerEnds
  <2>3. y.c \in {"up", "closed"}
    BY <1>1, <1>7 DEF ForeignCloses
  <2>4. wire' = [wire EXCEPT ![l] = x]
    BY <1>1, <1>2, <1>7, <2>1 DEF ForeignCloses
  <2>5. QED
    BY <1>1, <1>2, <1>7, <2>2, <2>3, <2>4, ForeignAt
<1>8. CASE ~Asked /\ ForeignDials(l)
  <2>1. y.c = "none" /\ y.s = "none"
    BY <1>1, <1>8 DEF ForeignDials, Unused
  <2>2. PICK x : x = [y EXCEPT !.c = "up", !.s = "backlog"]
    OBVIOUS
  <2>3. x \in LinkRec /\ x.c = "up" /\ x.s = "backlog"
    BY <2>2 DEF LinkRec
  <2>4. wire' = [wire EXCEPT ![l] = x]
    BY <1>1, <1>2, <1>8, <2>2 DEF ForeignDials
  <2>5. QED
    BY <1>1, <1>2, <1>8, <2>1, <2>3, <2>4, ForeignAt
<1>9. CASE ~Asked /\ ForeignAsks_(l)
  <2>1. PICK piece \in ForeignAsks : wire' = [wire EXCEPT ![l].up = Append(@, piece)]
    BY <1>9 DEF ForeignAsks_
  <2>2. piece \in AskPiece /\ y.c = "up"
    BY <1>1, <1>9, WorldAssumption DEF WorldAssumption, ForeignAsks_
  <2>3. PICK more : more = Append(y.up, piece)
    OBVIOUS
  <2>4. more \in Seq(AskPiece)
    BY <1>3, <2>2, <2>3
  <2>5. PICK x : x = [y EXCEPT !.up = more]
    OBVIOUS
  <2>6. x \in LinkRec /\ x.c = y.c /\ x.s = y.s
    BY <1>3, <2>4, <2>5 DEF LinkRec
  <2>7. wire' = [wire EXCEPT ![l] = x]
    BY <1>1, <1>2, <2>1, <2>3, <2>5
  <2>8. QED
    BY <1>1, <1>2, <2>2, <2>6, <2>7, ForeignAt
<1>10. CASE ~Asked /\ ForeignReads(l)
  <2>1. y.c = "up" /\ y.down # <<>>
    BY <1>1, <1>10 DEF ForeignReads
  <2>2. PICK q : q = y.down
    OBVIOUS
  <2>3. PICK rest : rest = Tail(q)
    OBVIOUS
  <2>4. rest \in Seq(ReplyPiece)
    BY <1>3, <2>1, <2>2, <2>3, TailOf
  <2>5. PICK x : x = [y EXCEPT !.down = rest]
    OBVIOUS
  <2>6. x \in LinkRec /\ x.c = y.c /\ x.s = y.s
    BY <1>3, <2>4, <2>5 DEF LinkRec
  <2>7. wire' = [wire EXCEPT ![l] = x]
    BY <1>1, <1>2, <1>10, <2>2, <2>3, <2>5 DEF ForeignReads
  <2>8. QED
    BY <1>1, <1>2, <2>1, <2>6, <2>7, ForeignAt
<1>11. CASE ~Asked /\ ForeignLeaves(l)
  <2>1. PICK x : x = CloseClientEnd(y)
    OBVIOUS
  <2>2. x \in LinkRec /\ x.c = "closed" /\ x.down = <<>> /\ x.s = y.s
    BY <2>1, ClientEnds
  <2>3. wire' = [wire EXCEPT ![l] = x]
    BY <1>1, <1>2, <1>11, <2>1 DEF ForeignLeaves
  <2>4. QED
    BY <1>1, <1>2, <1>11, <2>2, <2>3, ForeignAt
<1>12. QED
  BY <1>4, <1>5, <1>6, <1>7, <1>8, <1>9, <1>10, <1>11 DEF ForeignSteps

-----------------------------------------------------------------------------
(* The invariant, and what follows from it.                                 *)
(* The initial states satisfy it.                                           *)
LEMMA HttpInitOK == HttpInit => SystemOK
<1> SUFFICES ASSUME HttpInit PROVE SystemOK
  OBVIOUS
<1>1. PICK p \in Policies : client = Idle(p)
  BY DEF HttpInit, ClientInit
<1>2. /\ handles = [i \in Ids |-> NoHandle] /\ wire = [l \in Links |-> NewLink]
      /\ listening = FALSE /\ table = {} /\ conn = [l \in Links |-> NoConn]
      /\ heard = [l \in Links |-> None] /\ said = [l \in Links |-> None]
  BY DEF HttpInit, ClientInit, WireInit, ServerInit
<1>3. <<>> \in Seq(AskPiece) /\ <<>> \in Seq(ReplyPiece) /\ <<>> \in Seq(BodyPiece)
      /\ <<>> \in Seq({"done", "oversized"}) /\ Len(<<>>) = 0
  OBVIOUS
<1>4. client \in ClientRec
  BY <1>1, <1>3 DEF Idle, ClientRec
<1>5. NoHandle \in HandleRec
  BY <1>3 DEF NoHandle, HandleRec
<1>6. NewLink \in LinkRec
  BY <1>3 DEF NewLink, LinkRec
<1>7. Now \in State
  BY <1>2, <1>4, <1>5, <1>6 DEF Now, State
<1>8. Now.c = client /\ Now.h = handles /\ Now.w = wire
  BY DEF Now
<1>9. client.state = "idle" /\ client.policy = p /\ client.calls = <<>>
      /\ client.connector = None /\ client.socket = None
  BY <1>1 DEF Idle
<1>10. client = [Idle(client.policy) EXCEPT !.calls = client.calls]
  BY <1>1, <1>9 DEF Idle
<1>11. HandleOK(NoHandle) /\ NoHandle.phase = "unused"
  BY ClientAssumption, <1>3 DEF HandleOK, NoHandle, ClientAssumption
<1>12. ClientInv(Now)
  BY <1>2, <1>8, <1>9, <1>10, <1>11 DEF ClientInv
<1>13. FreshLinks(wire) /\ ClosedLinks(wire) /\ Opened(Now)
  BY <1>2, <1>8, <1>9 DEF FreshLinks, ClosedLinks, Opened, NewLink
<1>14. Wiring
  BY <1>7, <1>9, <1>12, <1>13 DEF Wiring, ClientOK
<1>15. NoConn \in ConnRec /\ ~NoConn.armed
  BY ServingNone DEF NoConn
<1>16. ServerTyped
  BY <1>2, <1>15 DEF ServerTyped
<1>17. ServerInv
  <2>1. Cardinality(table) <= MaxConnections
    <3>1. Cardinality({}) = 0
      BY FS_EmptySet
    <3>2. QED
      BY <1>2, <3>1, ServerAssumption DEF ServerAssumption
  <2>2. ASSUME NEW l \in Links PROVE Serving(l \in table, wire[l].s, conn[l], said[l])
    <3>1. wire[l].s = "none" /\ conn[l] = NoConn /\ said[l] = None
      BY <1>2 DEF NewLink
    <3>2. (l \in table) = FALSE
      BY <1>2
    <3>3. Serving(FALSE, "none", NoConn, None)
      <4>1. Staging(NoConn, None)
        BY NoneIsNoRecord DEF Staging, NoConn
      <4>2. QED
        BY <1>15, <4>1 DEF Serving
    <3>4. QED
      BY <3>1, <3>2, <3>3
  <2>3. QED
    BY <2>1, <2>2 DEF ServerInv
<1>18. QED
  BY <1>14, <1>16, <1>17 DEF SystemOK

(* Every step keeps it.                                                     *)
LEMMA HttpStepOK == SystemOK /\ [HttpNext]_vars => SystemOK'
<1> SUFFICES ASSUME SystemOK, [HttpNext]_vars PROVE SystemOK'
  OBVIOUS
<1>1. CASE UNCHANGED vars
  <2>1. /\ wire' = wire /\ UNCHANGED clientState /\ UNCHANGED serverState /\ UNCHANGED world
        /\ wire' \in [Links -> LinkRec]
    BY <1>1, NowIs DEF vars, clientState, serverState, SystemOK, Wiring
  <2>2. \A l \in Links : LinkServed(wire[l], wire'[l])
    BY <2>1 DEF LinkServed
  <2>3. QED
    BY <2>1, <2>2, WiringServed, ServerRests DEF SystemOK
<1>2. QED
  BY <1>1, ClientKeeps, ServerStep, ForeignKeeps DEF HttpNext

(* The invariant holds in every reachable state of every world.             *)
THEOREM HttpInvariant == Spec => []SystemOK
  BY HttpInitOK, HttpStepOK, PTL DEF Spec

(* A client with a request.                                                 *)
LEMMA BusyIs ==
  ASSUME SystemOK, client.state # "idle"
  PROVE  Busy(Now) /\ Core(Now) /\ client.request \in Ids
  BY BusyNow, NowIs DEF SystemOK, Wiring, Core

(* Client, handles, connections and server are well typed; no body passes   *)
(* its cap and no stream its staging buffer: HttpClient.handle, HttpServer. *)
THEOREM HttpTypeCorrect == Spec => []TypeOK
<1>1. SystemOK => TypeOK
  <2> SUFFICES ASSUME SystemOK PROVE TypeOK
    OBVIOUS
  <2>1. /\ client \in ClientRec /\ handles \in [Ids -> HandleRec] /\ ClientInv(Now)
        /\ Now.c = client /\ Now.h = handles
    BY NowIs DEF SystemOK, Wiring, ClientOK
  <2>2. /\ client.state \in {"idle", "awaiting", "sending", "receiving"}
        /\ client.request \in Ids \cup {None}
        /\ client.connector \in Links \cup {None} /\ client.socket \in Links \cup {None}
    BY <2>1 DEF ClientRec
  <2>3. ASSUME client.parser # None
        PROVE  /\ client.parser.st \in {"status", "body", "chunks", "oversized"}
               /\ Len(client.parser.body) <= MaxBody
    <3>1. client.state # "idle"
      BY <2>1, <2>3 DEF ClientInv, Idle
    <3>2. QED
      BY <2>1, <3>1 DEF ClientInv, Busy, Parsing, Sound
  <2>4. ASSUME NEW i \in Ids
        PROVE  /\ handles[i].phase \in {"unused", "pending", "done"}
               /\ Len(handles[i].buf) <= handles[i].fill /\ handles[i].fill <= StreamBuffer
    BY <2>1 DEF ClientInv, HandleOK, HandleRec
  <2>5. table \subseteq Links /\ \A l \in Links : conn[l].state \in {None, "head", "body", "sending", "streaming"}
    BY DEF SystemOK, ServerTyped, ConnRec
  <2>6. QED
    BY <2>2, <2>3, <2>4, <2>5 DEF TypeOK
<1>2. QED
  BY <1>1, HttpInvariant, PTL

(* An idle client holds nothing of its last request, a busy one has one     *)
(* transport, a deadline and the hops its redirects left: _reset_socket,    *)
(* _follow_redirect.                                                        *)
THEOREM HttpIdleIsClean == Spec => []IdleIsClean
<1>1. SystemOK => IdleIsClean
  <2> SUFFICES ASSUME SystemOK PROVE IdleIsClean
    OBVIOUS
  <2>1. Now.c = client /\ Now.h = handles /\ ClientInv(Now)
    BY NowIs DEF SystemOK, Wiring, ClientOK
  <2>2. client.state = "idle" => client = [Idle(client.policy) EXCEPT !.calls = client.calls]
    BY <2>1 DEF ClientInv
  <2>3. ASSUME client.state # "idle"
        PROVE  /\ (client.connector = None) # (client.socket = None)
               /\ client.armed /\ client.parser # None
               /\ handles[client.request].phase = "pending"
               /\ handles[client.request].hops + client.left = handles[client.request].ask.redirects + 1
    <3>1. Assigned(Now) /\ Parsing(Now) /\ Transport(Now)
      BY <2>3, BusyIs DEF Busy
    <3>2. client.parser # None
      BY <2>1, <3>1, NoneIsNoValue DEF Parsing, Sound
    <3>3. (client.connector = None) # (client.socket = None)
      BY <2>1, <3>1 DEF Transport
    <3>4. QED
      BY <2>1, <3>1, <3>2, <3>3 DEF Assigned, Mine
  <2>4. QED
    BY <2>2, <2>3 DEF IdleIsClean
<1>2. QED
  BY <1>1, HttpInvariant, PTL

(* The client has no connection open but its request's; the server exactly  *)
(* those of its table, max_connections at most: _close_socket_only, close.  *)
THEOREM HttpNothingLeaks == Spec => []NothingLeaks
<1>1. SystemOK => NothingLeaks
  <2> SUFFICES ASSUME SystemOK PROVE NothingLeaks
    OBVIOUS
  <2>1. ASSUME Asked, NEW l \in Links, wire[l].c \in {"dialling", "up"}
        PROVE  l \in {client.connector, client.socket}
    BY <2>1, NowIs DEF SystemOK, Wiring, Opened
  <2>2. ASSUME Served
        PROVE  /\ table = {l \in Links : wire[l].s = "up"}
               /\ Cardinality(table) <= MaxConnections
               /\ \A l \in Links : conn[l].armed <=> l \in table
    <3>1. table \subseteq Links
      BY DEF SystemOK, ServerTyped
    <3>2. \A l \in Links : Serving(l \in table, wire[l].s, conn[l], said[l])
      BY <2>2 DEF SystemOK, ServerInv
    <3>3. ASSUME NEW l \in Links
          PROVE  (l \in table <=> wire[l].s = "up") /\ (conn[l].armed <=> l \in table)
      BY <3>2 DEF Serving
    <3>4. table = {l \in Links : wire[l].s = "up"}
      BY <3>1, <3>3
    <3>5. QED
      BY <2>2, <3>3, <3>4 DEF SystemOK, ServerInv
  <2>3. QED
    BY <2>1, <2>2 DEF NothingLeaks
<1>2. QED
  BY <1>1, HttpInvariant, PTL

-----------------------------------------------------------------------------
(* The client keeps its promise.                                            *)
PromiseRec == [phase : {"unused", "pending", "published", "done"}, stream : BOOLEAN,
               result : {"ok", "error", "dropped", None}, resp : Links \cup {None}, told : Nat]

LEMMA PromisedIs ==
  ASSUME NEW h \in HandleRec
  PROVE  /\ Promised(h) \in PromiseRec
         /\ Promised(h).phase = IF h.phase = "pending" /\ h.resp # None THEN "published" ELSE h.phase
         /\ Promised(h).stream = (h.ask # None /\ h.ask.stream)
         /\ Promised(h).result = h.result /\ Promised(h).resp = h.resp /\ Promised(h).told = h.told
<1>1. (h.ask # None /\ h.ask.stream) \in BOOLEAN
  BY DEF HandleRec, Request
<1>2. QED
  BY <1>1 DEF Promised, HandleRec, PromiseRec

LEMMA PromisesAt ==
  ASSUME NEW i \in Ids, \A j \in Ids : j # i => handles'[j] = handles[j]
  PROVE  Promises' = [Promises EXCEPT ![i] = Promised(handles'[i])]
  BY DEF Promises

LEMMA ProgressPromised ==
  ASSUME SystemOK, SystemOK', NEW i \in Ids, Progress(i, handles, handles')
  PROVE  [Exchange!Next]_Promises
<1>1. handles \in [Ids -> HandleRec] /\ HandleOK(handles[i]) /\ handles'[i] \in HandleRec
  <2>1. handles \in [Ids -> HandleRec] /\ HandleOK(handles[i])
    BY NowIs DEF SystemOK, Wiring, ClientOK, ClientInv
  <2>2. Now' \in State /\ Now'.h = handles'
    BY DEF SystemOK, Wiring, ClientOK, Now
  <2>3. QED
    BY <2>1, <2>2 DEF State
<1>2. PICK a \in HandleRec, b \in HandleRec : a = handles[i] /\ b = handles'[i] /\ Advances(a, b)
  BY <1>1 DEF Progress
<1>3. PICK p \in PromiseRec, q \in PromiseRec : p = Promised(a) /\ q = Promised(b)
  BY PromisedIs
<1>4. PICK P \in [Ids -> PromiseRec] : P = Promises
  BY <1>1, PromisedIs DEF Promises
<1>5. P[i] = p /\ Promises' = [P EXCEPT ![i] = q]
  BY <1>1, <1>2, <1>3, <1>4, PromisesAt DEF Promises, Progress
<1>6. /\ p.phase = IF a.phase = "pending" /\ a.resp # None THEN "published" ELSE a.phase
      /\ p.stream = (a.ask # None /\ a.ask.stream)
      /\ p.result = a.result /\ p.resp = a.resp /\ p.told = a.told
  BY <1>3, PromisedIs
<1>7. /\ q.phase = IF b.phase = "pending" /\ b.resp # None THEN "published" ELSE b.phase
      /\ q.stream = p.stream
      /\ q.result = b.result /\ q.resp = b.resp /\ q.told = b.told
  BY <1>2, <1>3, <1>6, PromisedIs DEF Advances
<1>8. CASE Untold(a, b)
  <2>1. q = p
    BY <1>6, <1>7, <1>8 DEF Untold, PromiseRec
  <2>2. Promises' = Promises
    BY <1>4, <1>5, <2>1
  <2>3. QED
    BY <2>2
<1>9. CASE Published(a, b)
  <2>1. p.phase = "pending" /\ p.stream /\ q.phase = "published" /\ q.resp \in Links
        /\ q.result = p.result /\ q.told = p.told
    <3>1. a.ask # None
      BY <1>1, <1>2, <1>9, NoneIsNoValue DEF HandleOK, Published
    <3>2. b.resp # None
      BY <1>9, NoneNoLink DEF Published
    <3>3. QED
      BY <1>6, <1>7, <1>9, <3>1, <3>2 DEF Published
  <2>2. q = [p EXCEPT !.phase = "published", !.resp = q.resp]
    BY <1>7, <2>1 DEF PromiseRec
  <2>3. [P EXCEPT ![i].phase = "published", ![i].resp = q.resp] = [P EXCEPT ![i] = q]
    <3>1. PICK r : r = q.resp
      OBVIOUS
    <3>2. [P EXCEPT ![i].phase = "published", ![i].resp = r]
            = [P EXCEPT ![i] = [P[i] EXCEPT !.phase = "published", !.resp = r]]
      OBVIOUS
    <3>3. QED
      BY <1>5, <2>2, <3>1, <3>2
  <2>4. Exchange!Publish(i)
    BY <1>4, <1>5, <2>1, <2>3 DEF Exchange!Publish
  <2>5. QED
    BY <2>4 DEF Exchange!Next
<1>10. CASE Ended(a, b)
  <2>1. q.phase = "done" /\ q.told = p.told + 1
    BY <1>6, <1>7, <1>10 DEF Ended
  <2>2. q = [p EXCEPT !.phase = "done", !.result = q.result, !.resp = q.resp, !.told = @ + 1]
    BY <1>7, <2>1 DEF PromiseRec
  <2>3. [P EXCEPT ![i].phase = "done", ![i].result = q.result, ![i].resp = q.resp, ![i].told = @ + 1]
          = [P EXCEPT ![i] = q]
    <3>1. PICK r, t : r = q.resp /\ t = q.result
      OBVIOUS
    <3>2. [P EXCEPT ![i].phase = "done", ![i].result = t, ![i].resp = r, ![i].told = @ + 1]
            = [P EXCEPT ![i] = [P[i] EXCEPT !.phase = "done", !.result = t, !.resp = r, !.told = @ + 1]]
      OBVIOUS
    <3>3. QED
      BY <1>5, <2>2, <3>1, <3>2
  <2>4. Exchange!Finish(i, q.result, q.resp)
    BY <1>4, <1>5, <2>3 DEF Exchange!Finish
  <2>5. CASE a.resp = None
    <3>1. p.phase = "pending"
      BY <1>6, <1>10, <2>5 DEF Ended
    <3>2. \/ q.resp = None /\ q.result \in {"error", "dropped"}
          \/ q.resp \in Links /\ q.result = "ok"
      BY <1>7, <1>10, <2>5 DEF Ended
    <3>3. Exchange!Answer(i)
      BY <1>4, <1>5, <2>4, <3>1, <3>2 DEF Exchange!Answer
    <3>4. QED
      BY <3>3 DEF Exchange!Next
  <2>6. CASE a.resp # None
    <3>1. p.phase = "published" /\ q.resp = p.resp /\ q.result \in {"ok", "error"}
      BY <1>6, <1>7, <1>10, <2>6 DEF Ended
    <3>2. Exchange!EndStream(i)
      BY <1>4, <1>5, <2>4, <3>1 DEF Exchange!EndStream
    <3>3. QED
      BY <3>2 DEF Exchange!Next
  <2>7. QED
    BY <2>5, <2>6
<1>11. QED
  BY <1>2, <1>8, <1>9, <1>10 DEF Advances

LEMMA AskPromised ==
  ASSUME SystemOK, SystemOK', NEW i \in Ids, Asks1(i, handles, handles')
  PROVE  [Exchange!Next]_Promises
<1>1. handles \in [Ids -> HandleRec] /\ handles'[i] \in HandleRec
  <2>1. handles \in [Ids -> HandleRec]
    BY NowIs DEF SystemOK, Wiring
  <2>2. Now' \in State /\ Now'.h = handles'
    BY DEF SystemOK, Wiring, ClientOK, Now
  <2>3. QED
    BY <2>1, <2>2 DEF State
<1>2. PICK a \in HandleRec, b \in HandleRec : a = handles[i] /\ b = handles'[i]
  BY <1>1
<1>3. PICK p \in PromiseRec, q \in PromiseRec : p = Promised(a) /\ q = Promised(b)
  BY PromisedIs
<1>4. PICK P \in [Ids -> PromiseRec] : P = Promises
  BY <1>1, PromisedIs DEF Promises
<1>5. P[i] = p /\ Promises' = [P EXCEPT ![i] = q]
  BY <1>1, <1>2, <1>3, <1>4, PromisesAt DEF Promises, Asks1
<1>6. p.phase = "unused" /\ p.result = None /\ p.resp = None /\ p.told = 0
  BY <1>2, <1>3, PromisedIs DEF Asks1, NoHandle
<1>7. q.phase = "pending" /\ q.result = None /\ q.resp = None /\ q.told = 0 /\ q.stream \in BOOLEAN
  <2>1. b.phase = "pending" /\ b.result = None /\ b.resp = None /\ b.told = 0
    BY <1>2 DEF Asks1
  <2>2. q.stream \in BOOLEAN
    BY DEF PromiseRec
  <2>3. QED
    BY <1>3, <2>1, <2>2, PromisedIs
<1>8. q = [p EXCEPT !.phase = "pending", !.stream = q.stream]
  BY <1>6, <1>7 DEF PromiseRec
<1>9. [P EXCEPT ![i].phase = "pending", ![i].stream = q.stream] = [P EXCEPT ![i] = q]
  <2>1. PICK r : r = q.stream
    OBVIOUS
  <2>2. [P EXCEPT ![i].phase = "pending", ![i].stream = r]
          = [P EXCEPT ![i] = [P[i] EXCEPT !.phase = "pending", !.stream = r]]
    OBVIOUS
  <2>3. QED
    BY <1>5, <1>8, <2>1, <2>2
<1>10. \A j \in Ids : P[j].phase \in {"unused", "done"}
  <2>1. ASSUME NEW j \in Ids PROVE P[j].phase \in {"unused", "done"}
    <3>1. CASE j = i
      BY <1>5, <1>6, <3>1
    <3>2. CASE j # i
      <4>1. handles[j] \in HandleRec /\ handles[j].phase # "pending" /\ P[j] = Promised(handles[j])
        BY <1>1, <1>4, <3>2 DEF Asks1, Promises
      <4>2. P[j].phase = handles[j].phase
        BY <4>1, PromisedIs
      <4>3. QED
        BY <4>1, <4>2 DEF HandleRec
    <3>3. QED
      BY <3>1, <3>2
  <2>2. QED
    BY <2>1
<1>11. Exchange!Ask(i)
  BY <1>4, <1>5, <1>6, <1>7, <1>9, <1>10 DEF Exchange!Ask
<1>12. QED
  BY <1>11 DEF Exchange!Next

(* Against any peer and whatever the network does, the client implements    *)
(* HttpExchange: each request is answered once, a stream's response comes   *)
(* before its end and stays the same.                                       *)
THEOREM HttpKeepsItsPromise == Spec => ImplementsExchange
<1>1. HttpInit => Exchange!Init
  <2> SUFFICES ASSUME HttpInit PROVE Exchange!Init
    OBVIOUS
  <2>1. handles = [i \in Ids |-> NoHandle]
    BY DEF HttpInit, ClientInit
  <2>2. Promised(NoHandle) = Exchange!Fresh
    BY DEF Promised, NoHandle, Exchange!Fresh
  <2>3. Promises = [i \in Ids |-> Exchange!Fresh]
    BY <2>1, <2>2 DEF Promises
  <2>4. QED
    BY <2>3 DEF Exchange!Init
<1>2. SystemOK /\ SystemOK' /\ [HttpNext]_vars => [Exchange!Next]_Promises
  <2> SUFFICES ASSUME SystemOK, SystemOK', [HttpNext]_vars PROVE [Exchange!Next]_Promises
    OBVIOUS
  <2>1. CASE handles' = handles
    BY <2>1 DEF Promises
  <2>2. CASE ClientSteps
    <3>1. ClientOK /\ (ClientHandle \/ ClientApp)
      BY <2>2 DEF ClientSteps, SystemOK, Wiring
    <3>2. \/ \E i \in Ids : Progress(i, handles, handles') \/ Asks1(i, handles, handles')
          \/ handles' = handles
      BY <3>1, ClientEffect
    <3>3. QED
      BY <2>1, <3>2, ProgressPromised, AskPromised
  <2>3. QED
    BY <2>1, <2>2 DEF HttpNext, ServerSteps, ForeignSteps, clientState, vars
<1>3. QED
  BY <1>1, <1>2, HttpInvariant, PTL DEF Spec, ImplementsExchange, Exchange!Spec

-----------------------------------------------------------------------------
(* What a handler may be given: a request the client made, or the GET of a  *)
(* redirect it followed.                                                    *)
Legit(r, h) ==
  \E i \in Ids : /\ h[i].phase # "unused"
                 /\ \/ r = [method |-> h[i].ask.method, len |-> h[i].ask.len]
                    \/ r = [method |-> "GET", len |-> 0] /\ h[i].hops > 1

LegitHead(p, h) == p.op = "request" /\ Legit([method |-> p.method, len |-> p.len], h)

(* At the connections F the server has read nothing: what comes first there *)
(* is a legitimate head, and so is what the client sends first.             *)
Heard1(x, own, tx, h) ==
  x.s # "closed" =>
    /\ x.up # <<>> => LegitHead(x.up[1], h)
    /\ x.up = <<>> /\ ~x.lost /\ own => LegitHead(tx[1], h)

Owns(s, l) == l \in {s.c.connector, s.c.socket} /\ s.c.state \in {"awaiting", "sending"}

AskInv(s, F) ==
  /\ \A i \in Ids : s.h[i].phase # "unused" => s.h[i].hops >= 1
  /\ \A l \in F : Heard1(s.w[l], Owns(s, l), s.c.tx, s.h)

(* No step forgets a request, what it asked for or a hop it made.           *)
Later(g, h) ==
  \A i \in Ids : /\ h[i].phase = "unused" <=> g[i].phase = "unused"
                 /\ h[i].ask = g[i].ask /\ h[i].hops >= g[i].hops

LEMMA LegitLater ==
  ASSUME NEW g \in [Ids -> HandleRec], NEW h \in [Ids -> HandleRec], Later(g, h)
  PROVE  /\ \A r : Legit(r, g) => Legit(r, h)
         /\ \A p : LegitHead(p, g) => LegitHead(p, h)
<1>1. ASSUME NEW r, Legit(r, g) PROVE Legit(r, h)
  <2>1. PICK i \in Ids : /\ g[i].phase # "unused"
                         /\ \/ r = [method |-> g[i].ask.method, len |-> g[i].ask.len]
                            \/ r = [method |-> "GET", len |-> 0] /\ g[i].hops > 1
    BY <1>1 DEF Legit
  <2>2. h[i].phase # "unused" /\ h[i].ask = g[i].ask
    BY <2>1 DEF Later
  <2>3. g[i].hops > 1 => h[i].hops > 1
    <3>1. g[i].hops \in Nat /\ h[i].hops \in Nat /\ h[i].hops >= g[i].hops
      BY DEF Later, HandleRec
    <3>2. QED
      BY <3>1
  <2>4. QED
    BY <2>1, <2>2, <2>3 DEF Legit
<1>2. QED
  BY <1>1 DEF LegitHead

LEMMA HopsLater ==
  ASSUME NEW g \in [Ids -> HandleRec], NEW h \in [Ids -> HandleRec], Later(g, h),
         \A i \in Ids : g[i].phase # "unused" => g[i].hops >= 1
  PROVE  \A i \in Ids : h[i].phase # "unused" => h[i].hops >= 1
<1>1. ASSUME NEW i \in Ids, h[i].phase # "unused" PROVE h[i].hops >= 1
  <2>1. g[i].hops \in Nat /\ h[i].hops \in Nat /\ h[i].hops >= g[i].hops /\ g[i].hops >= 1
    BY <1>1 DEF Later, HandleRec
  <2>2. QED
    BY <2>1
<1>2. QED
  BY <1>1

(* The connections and what the client has to send are as they were.        *)
LEMMA AskSame ==
  ASSUME NEW s \in State, NEW r \in State, NEW F, AskInv(s, F), Later(s.h, r.h), r.w = s.w,
         r.c.state = s.c.state, r.c.connector = s.c.connector, r.c.socket = s.c.socket,
         r.c.tx = s.c.tx
  PROVE  AskInv(r, F)
<1>1. s.h \in [Ids -> HandleRec] /\ r.h \in [Ids -> HandleRec]
  BY DEF State
<1>2. \A p : LegitHead(p, s.h) => LegitHead(p, r.h)
  BY <1>1, LegitLater
<1>3. \A i \in Ids : r.h[i].phase # "unused" => r.h[i].hops >= 1
  BY <1>1, HopsLater DEF AskInv
<1>4. ASSUME NEW l \in F PROVE Heard1(r.w[l], Owns(r, l), r.c.tx, r.h)
  <2>1. Heard1(s.w[l], Owns(s, l), s.c.tx, s.h)
    BY DEF AskInv
  <2>2. Owns(r, l) <=> Owns(s, l)
    BY DEF Owns
  <2>3. QED
    BY <1>2, <2>1, <2>2 DEF Heard1
<1>5. QED
  BY <1>3, <1>4 DEF AskInv

(* The client has nothing to send, and its requests are where they were, or *)
(* gone.                                                                    *)
LEMMA AskQuiet ==
  ASSUME NEW s \in State, NEW r \in State, NEW F, AskInv(s, F), Later(s.h, r.h),
         r.c.state \notin {"awaiting", "sending"},
         \A l \in F : r.w[l].s # "closed" /\ r.w[l].up # <<>> =>
                        r.w[l].up = s.w[l].up /\ s.w[l].s # "closed"
  PROVE  AskInv(r, F)
<1>1. s.h \in [Ids -> HandleRec] /\ r.h \in [Ids -> HandleRec]
  BY DEF State
<1>2. \A p : LegitHead(p, s.h) => LegitHead(p, r.h)
  BY <1>1, LegitLater
<1>3. \A i \in Ids : r.h[i].phase # "unused" => r.h[i].hops >= 1
  BY <1>1, HopsLater DEF AskInv
<1>4. ASSUME NEW l \in F PROVE Heard1(r.w[l], Owns(r, l), r.c.tx, r.h)
  <2>1. Heard1(s.w[l], Owns(s, l), s.c.tx, s.h)
    BY DEF AskInv
  <2>2. ~Owns(r, l)
    BY DEF Owns
  <2>3. QED
    BY <1>2, <2>1, <2>2 DEF Heard1
<1>5. QED
  BY <1>3, <1>4 DEF AskInv

LEMMA LeftAsks ==
  ASSUME NEW x \in LinkRec, CloseClientEnd(x).s # "closed", CloseClientEnd(x).up # <<>>
  PROVE  CloseClientEnd(x).up = x.up /\ x.s # "closed"
<1>1. PICK y : y = [x EXCEPT !.c = "closed", !.down = <<>>]
  OBVIOUS
<1>2. y.c = "closed" /\ y.s = x.s /\ y.up = x.up /\ y.lost = x.lost
      /\ y \in [c : {y.c}, s : {y.s}, up : {y.up}, down : {y.down}, lost : {y.lost}]
  BY <1>1 DEF LinkRec
<1>3. CloseClientEnd(x) = IF Gone(y) THEN [y EXCEPT !.up = <<>>, !.down = <<>>, !.lost = FALSE] ELSE y
  BY <1>1 DEF CloseClientEnd, Settled
<1>4. ~Gone(y)
  <2>1. SUFFICES ASSUME Gone(y) PROVE CloseClientEnd(x).up = <<>>
    OBVIOUS
  <2>2. QED
    BY <1>2, <1>3, <2>1
<1>5. QED
  BY <1>2, <1>3, <1>4

LEMMA HungUpAsks ==
  ASSUME NEW s \in State, NEW l \in Links
  PROVE  HungUp(s)[l].s # "closed" /\ HungUp(s)[l].up # <<>> =>
           HungUp(s)[l].up = s.w[l].up /\ s.w[l].s # "closed"
<1>1. s.w[l] \in LinkRec
  BY DEF State
<1>2. CASE l = Held(s.c)
  <2>1. HungUp(s)[l] = CloseClientEnd(s.w[l])
    BY <1>2, HangsUp
  <2>2. QED
    BY <1>1, <2>1, LeftAsks
<1>3. CASE l # Held(s.c)
  BY <1>3, HangsUp
<1>4. QED
  BY <1>2, <1>3

(* A completion.                                                            *)
LEMMA EndAsks ==
  ASSUME NEW s, Core(s), NEW F, F \subseteq Links, AskInv(s, F),
         NEW res \in {"ok", "error", "dropped"}
  PROVE  AskInv(Complete(s, res), F)
<1>1. s \in State /\ s.c.request \in Ids
  BY DEF Core
<1>2. PICK i \in Ids : i = s.c.request
  BY <1>1
<1>3. PICK r : r = Complete(s, res)
  OBVIOUS
<1>4. PICK e : e = Done(s.h[i], res)
  OBVIOUS
<1>5. /\ r \in State /\ r.w = HungUp(s) /\ r.c = Idling(s.c.policy, Append(s.c.calls, "done"))
      /\ r.h[i] = e /\ \A j \in Ids : j # i => r.h[j] = s.h[j]
  BY <1>1, <1>2, <1>3, <1>4, Completes
<1>6. e.phase = "done" /\ e.ask = s.h[i].ask /\ e.hops = s.h[i].hops
  BY <1>1, <1>2, <1>4, Completes
<1>7. r.c.state = "idle"
  BY <1>5 DEF Idling, Idle
<1>8. Later(s.h, r.h)
  <2>1. s.h[i].phase = "pending" /\ \A j \in Ids : s.h[j].hops \in Nat
    BY <1>1, <1>2 DEF Core, Mine, State, HandleRec
  <2>2. QED
    BY <1>5, <1>6, <2>1 DEF Later
<1>9. \A l \in F : r.w[l].s # "closed" /\ r.w[l].up # <<>> =>
                     r.w[l].up = s.w[l].up /\ s.w[l].s # "closed"
  BY <1>1, <1>5, HungUpAsks
<1>10. AskInv(r, F)
  BY <1>1, <1>5, <1>7, <1>8, <1>9, AskQuiet
<1>11. QED
  BY <1>3, <1>10

(* A redirect is followed with the request it repeats, or with a GET.       *)
LEMMA HopAsks ==
  ASSUME NEW s, Core(s), Single(s), s.c.left > 0, Unused # {}, Opened(s), FreshLinks(s.w),
         \A l \in Links : s.w[l].c = wire[l].c, NEW F, F \subseteq Links, AskInv(s, F)
  PROVE  AskInv(NextHop(s), F)
<1>1. PICK i \in Ids, k \in Links : i = s.c.request /\ k = NextLink /\ wire[k].c = "none"
  BY NextLinkIn DEF Core
<1>2. s \in State /\ s.h \in [Ids -> HandleRec]
  BY DEF Core, State
<1>3. PICK r : r = NextHop(s)
  OBVIOUS
<1>4. /\ r \in State /\ r.c.connector = k /\ r.c.socket = None
      /\ r.c.tx[1] = IF s.c.parser.status = "preserve"
                     THEN RequestHead(s.h[i].ask.method, s.h[i].ask.len)
                     ELSE RequestHead("GET", 0)
  BY <1>1, <1>3, NextHopIs
<1>5. HopOn(r.h[i], s.h[i]) /\ \A j \in Ids : j # i => r.h[j] = s.h[j]
  BY <1>1, <1>3, NextHopIs
<1>6. Dialled(r.w[k], HungUp(s)[k]) /\ \A l \in Links : l # k => r.w[l] = HungUp(s)[l]
  BY <1>1, <1>3, NextHopIs
<1>7. Later(s.h, r.h)
  <2>1. \A j \in Ids : s.h[j].hops \in Nat
    BY <1>2 DEF HandleRec
  <2>2. QED
    BY <1>5, <2>1 DEF Later, HopOn
<1>8. r.h[i].phase # "unused" /\ r.h[i].hops > 1 /\ r.h[i].ask = s.h[i].ask
  <2>1. s.h[i].phase = "pending" /\ s.h[i].hops \in Nat /\ s.h[i].hops >= 1
    BY <1>1, <1>2 DEF Core, Mine, HandleRec, AskInv
  <2>2. QED
    BY <1>5, <2>1 DEF HopOn
<1>9. LegitHead(r.c.tx[1], r.h)
  <2>1. PICK m, n : m = s.h[i].ask.method /\ n = s.h[i].ask.len
    OBVIOUS
  <2>2. CASE s.c.parser.status = "preserve"
    <3>1. r.c.tx[1] = RequestHead(m, n)
      BY <1>4, <2>1, <2>2
    <3>2. r.c.tx[1].op = "request" /\ r.c.tx[1].method = m /\ r.c.tx[1].len = n
      BY <3>1 DEF RequestHead
    <3>3. QED
      BY <1>8, <2>1, <3>2 DEF LegitHead, Legit
  <2>3. CASE s.c.parser.status # "preserve"
    <3>1. r.c.tx[1] = RequestHead("GET", 0)
      BY <1>4, <2>3
    <3>2. r.c.tx[1].op = "request" /\ r.c.tx[1].method = "GET" /\ r.c.tx[1].len = 0
      BY <3>1 DEF RequestHead
    <3>3. QED
      BY <1>8, <3>2 DEF LegitHead, Legit
  <2>4. QED
    BY <2>2, <2>3
<1>10. r.w[k].up = <<>>
  <2>1. s.w[k].c = "none"
    BY <1>1
  <2>2. k # Held(s.c)
    <3>1. s.c.connector # k /\ s.c.socket # k
      BY <2>1, NoneNoLink DEF Opened
    <3>2. QED
      BY <3>1 DEF Held
  <2>3. HungUp(s)[k] = s.w[k]
    BY <1>2, <2>2, HangsUp
  <2>4. s.w[k].up = <<>>
    BY <2>1 DEF FreshLinks, NewLink
  <2>5. QED
    BY <1>6, <2>3, <2>4 DEF Dialled
<1>11. ASSUME NEW l \in F PROVE Heard1(r.w[l], Owns(r, l), r.c.tx, r.h)
  <2>1. CASE l = k
    BY <1>9, <1>10, <2>1 DEF Heard1
  <2>2. CASE l # k
    <3>1. ~Owns(r, l)
      BY <1>4, <2>2, NoneNoLink DEF Owns
    <3>2. r.w[l] = HungUp(s)[l] /\ l \in Links
      BY <1>6, <2>2
    <3>3. r.w[l].s # "closed" /\ r.w[l].up # <<>> =>
             r.w[l].up = s.w[l].up /\ s.w[l].s # "closed"
      BY <1>2, <3>2, HungUpAsks
    <3>4. Heard1(s.w[l], Owns(s, l), s.c.tx, s.h)
      BY DEF AskInv
    <3>5. \A p : LegitHead(p, s.h) => LegitHead(p, r.h)
      BY <1>2, <1>4, <1>7, LegitLater DEF State
    <3>6. QED
      BY <3>1, <3>3, <3>4, <3>5 DEF Heard1
  <2>3. QED
    BY <2>1, <2>2
<1>12. \A j \in Ids : r.h[j].phase # "unused" => r.h[j].hops >= 1
  BY <1>2, <1>4, <1>7, HopsLater DEF AskInv, State
<1>13. QED
  BY <1>3, <1>11, <1>12 DEF AskInv

LEMMA ParsedAsks ==
  ASSUME NEW s, Reading(s), NEW r \in Parsed(s), Opened(s), FreshLinks(s.w),
         \A l \in Links : s.w[l].c = wire[l].c, NEW F, F \subseteq Links, AskInv(s, F)
  PROVE  AskInv(r, F)
<1>1. Core(s) /\ s \in State /\ Single(s) /\ s.c.state = "receiving"
  <2>1. s.c.connector = None
    BY DEF Reading, Transport
  <2>2. QED
    BY <2>1 DEF Reading, Core, Single
<1>2. CASE r = s
  BY <1>2
<1>3. CASE /\ r \in State /\ r.h = s.h /\ r.w = s.w /\ r.c.connector = s.c.connector
           /\ r.c.socket = s.c.socket /\ r.c.state = s.c.state /\ r.c.tx = s.c.tx
  <2>1. Later(s.h, r.h)
    <3>1. \A i \in Ids : s.h[i].hops \in Nat
      BY <1>1 DEF State, HandleRec
    <3>2. QED
      BY <1>3, <3>1 DEF Later
  <2>2. QED
    BY <1>1, <1>3, <2>1, AskSame
<1>4. ASSUME NEW res \in {"ok", "error", "dropped"}, r = Complete(s, res)
      PROVE  AskInv(r, F)
  BY <1>1, <1>4, EndAsks
<1>5. ASSUME r = Complete(Whole(s), "ok"), s.c.parser.status # None
      PROVE  AskInv(r, F)
  <2>1. PICK u : u = Whole(s)
    OBVIOUS
  <2>2. PICK i \in Ids : i = s.c.request
    BY <1>1 DEF Core
  <2>3. Core(u) /\ u.c = s.c /\ u.w = s.w
    BY <1>5, <2>1, WholeCore
  <2>4. u.h[i].ask = s.h[i].ask /\ u.h[i].hops = s.h[i].hops /\ \A j \in Ids : j # i => u.h[j] = s.h[j]
    BY <1>5, <2>1, <2>2, WholeRest
  <2>5. u.h[i].phase = "pending" /\ s.h[i].phase = "pending"
    BY <1>1, <2>2, <2>3 DEF Core, Mine
  <2>6. Later(s.h, u.h)
    <3>1. \A j \in Ids : s.h[j].hops \in Nat
      BY <1>1 DEF State, HandleRec
    <3>2. QED
      BY <2>4, <2>5, <3>1 DEF Later
  <2>7. u \in State
    BY <2>3 DEF Core
  <2>8. AskInv(u, F)
    BY <1>1, <2>3, <2>6, <2>7, AskSame
  <2>9. QED
    BY <1>5, <2>1, <2>3, <2>8, EndAsks
<1>6. CASE r = NextHop(s) /\ s.c.left > 0 /\ Unused # {}
  BY <1>1, <1>6, HopAsks
<1>7. QED
  BY <1>2, <1>3, <1>4, <1>5, <1>6, ParsedCases

(* The phases of handle().                                                  *)
Asking(F) == ClientOK /\ Opened(Now) /\ FreshLinks(wire) /\ ClosedLinks(wire) /\ F \subseteq Links /\ AskInv(Now, F)

LEMMA LaterSame ==
  ASSUME NEW h \in [Ids -> HandleRec]
  PROVE  Later(h, h)
<1>1. \A i \in Ids : h[i].hops \in Nat
  BY DEF HandleRec
<1>2. QED
  BY <1>1 DEF Later

LEMMA FailsAsks ==
  ASSUME NEW F, Asking(F), client.state # "idle", Becomes(Fail(Now))
  PROVE  AskInv(Now', F)
<1>1. ClientOK /\ F \subseteq Links /\ AskInv(Now, F)
  BY DEF Asking
<1>2. Core(Now)
  BY <1>1, BusyNow
<1>3. PICK r : r = Complete(Now, "error")
  OBVIOUS
<1>4. AskInv(r, F) /\ r \in State
  BY <1>1, <1>2, <1>3, EndAsks, CompleteInv
<1>5. QED
  BY <1>3, <1>4, BecomesIs DEF Fail

LEMMA ConnectorFailsAsks ==
  ASSUME NEW F, Asking(F), ConnectorFails
  PROVE  AskInv(Now', F)
<1>1. /\ ClientOK /\ F \subseteq Links /\ AskInv(Now, F)
      /\ Now.c = client /\ Now.h = handles /\ Now.w = wire
      /\ client \in ClientRec /\ handles \in [Ids -> HandleRec] /\ wire \in [Links -> LinkRec]
      /\ client.state = "awaiting" /\ client.state # "idle"
  BY NowIs DEF ConnectorFails, Asking
<1>2. Core(Now) /\ Busy(Now)
  BY <1>1, BusyNow
<1>3. PICK k \in Links : k = client.connector
  BY <1>1, <1>2 DEF Busy, Transport, ClientRec
<1>4. PICK s : s = [Now EXCEPT !.w[client.connector].c = "closed", !.c.connector = None]
  OBVIOUS
<1>5. PICK c, w : c = [client EXCEPT !.connector = None] /\ w = [wire EXCEPT ![k].c = "closed"]
  OBVIOUS
<1>6. c \in ClientRec /\ c.request = client.request /\ c.connector = None /\ c.socket = client.socket
  BY <1>1, <1>5 DEF ClientRec
<1>7. /\ w \in [Links -> LinkRec]
      /\ \A l \in Links : w[l].s = wire[l].s /\ w[l].up = wire[l].up /\ w[l].lost = wire[l].lost
  <2>1. w = [wire EXCEPT ![k] = [wire[k] EXCEPT !.c = "closed"]]
    BY <1>1, <1>5
  <2>2. [wire[k] EXCEPT !.c = "closed"] \in LinkRec
    BY <1>1 DEF LinkRec
  <2>3. QED
    BY <1>1, <2>1, <2>2 DEF LinkRec
<1>8. s.c = c /\ s.h = handles /\ s.w = w /\ s \in [c : {s.c}, h : {s.h}, w : {s.w}]
  BY <1>3, <1>4, <1>5 DEF Now
<1>9. s \in State
  BY <1>1, <1>6, <1>7, <1>8 DEF State
<1>10. Core(s)
  BY <1>1, <1>2, <1>6, <1>8, <1>9 DEF Core, Mine
<1>11. AskInv(s, F)
  <2>1. client.socket = None
    BY <1>1, <1>2 DEF Busy, Transport
  <2>2. ASSUME NEW l \in F PROVE Heard1(s.w[l], Owns(s, l), s.c.tx, s.h)
    <3>1. ~Owns(s, l) /\ l \in Links
      BY <1>1, <1>6, <1>8, <2>1, NoneNoLink DEF Owns
    <3>2. Heard1(wire[l], Owns(Now, l), client.tx, handles)
      BY <1>1 DEF AskInv
    <3>3. s.w[l].s = wire[l].s /\ s.w[l].up = wire[l].up /\ s.w[l].lost = wire[l].lost
      BY <1>7, <1>8, <3>1
    <3>4. QED
      BY <1>8, <3>1, <3>2, <3>3 DEF Heard1
  <2>3. QED
    BY <1>1, <1>8, <2>2 DEF AskInv
<1>12. PICK r : r = Complete(s, "error")
  OBVIOUS
<1>13. r \in State /\ AskInv(r, F)
  BY <1>1, <1>10, <1>11, <1>12, CompleteInv, EndAsks
<1>14. Now' = r
  BY <1>4, <1>12, <1>13, BecomesIs DEF ConnectorFails, Fail
<1>15. QED
  BY <1>13, <1>14

LEMMA ConnectorReadyAsks ==
  ASSUME NEW F, Asking(F), ConnectorReady
  PROVE  AskInv(Now', F)
<1>1. /\ ClientOK /\ F \subseteq Links /\ AskInv(Now, F) /\ Opened(Now) /\ FreshLinks(wire)
      /\ Now.c = client /\ Now.h = handles /\ Now.w = wire
      /\ client \in ClientRec /\ handles \in [Ids -> HandleRec] /\ wire \in [Links -> LinkRec]
      /\ client.state = "awaiting" /\ client.state # "idle"
  BY NowIs DEF ConnectorReady, Asking
<1>2. Core(Now) /\ Busy(Now)
  BY <1>1, BusyNow
<1>3. PICK k \in Links : k = client.connector
  BY <1>1, <1>2 DEF Busy, Transport, ClientRec
<1>4. PICK w : w = [wire EXCEPT ![k].c = "up", ![k].s = "backlog"]
  OBVIOUS
<1>5. /\ w[k].up = wire[k].up /\ w[k].lost = wire[k].lost
      /\ \A l \in Links : l # k => w[l] = wire[l]
  <2>1. w = [wire EXCEPT ![k] = [wire[k] EXCEPT !.c = "up", !.s = "backlog"]]
    BY <1>1, <1>4
  <2>2. wire[k] \in LinkRec
    BY <1>1
  <2>3. QED
    BY <1>1, <2>1, <2>2 DEF LinkRec
<1>6. /\ wire' = w /\ handles' = handles
      /\ client' = [client EXCEPT !.socket = k, !.connector = None, !.state = "sending"]
  BY <1>3, <1>4 DEF ConnectorReady, Becomes, Now
<1>7. client'.connector = None /\ client'.socket = k /\ client'.tx = client.tx /\ client'.state = "sending"
  BY <1>1, <1>6 DEF ClientRec
<1>8. Now'.c = client' /\ Now'.h = handles /\ Now'.w = w
  BY <1>6 DEF Now
<1>9. client.socket = None /\ wire[k].s = "none"
  <2>1. client.connector # None /\ client.socket = None
    BY <1>1, <1>2 DEF Busy, Transport
  <2>2. wire[k].c = "dialling"
    BY <1>1, <1>3, <2>1 DEF Opened
  <2>3. QED
    BY <1>1, <2>1, <2>2 DEF FreshLinks, NewLink
<1>10. ASSUME NEW l \in F PROVE Heard1(Now'.w[l], Owns(Now', l), Now'.c.tx, Now'.h)
  <2>1. l \in Links
    BY <1>1
  <2>2. Heard1(wire[l], Owns(Now, l), client.tx, handles)
    BY <1>1 DEF AskInv
  <2>3. Owns(Now, l) <=> l = k
    BY <1>1, <1>3, <1>9, <2>1, NoneNoLink DEF Owns
  <2>4. Owns(Now', l) <=> l = k
    BY <1>7, <1>8, <2>1, NoneNoLink DEF Owns
  <2>5. Now'.c.tx = client.tx
    BY <1>7, <1>8
  <2>6. CASE l = k
    BY <1>5, <1>8, <1>9, <2>2, <2>3, <2>4, <2>5, <2>6 DEF Heard1
  <2>7. CASE l # k
    BY <1>5, <1>8, <2>1, <2>2, <2>3, <2>4, <2>5, <2>7 DEF Heard1
  <2>8. QED
    BY <2>6, <2>7
<1>11. QED
  BY <1>1, <1>8, <1>10 DEF AskInv

LEMMA Appended ==
  ASSUME NEW S, NEW q \in Seq(S), NEW t \in Seq(S), t # <<>>, NEW r, r = Append(q, Head(t))
  PROVE  r # <<>> /\ (q # <<>> => r[1] = q[1]) /\ (q = <<>> => r[1] = t[1])
<1>1. Head(t) \in S /\ Head(t) = t[1]
  OBVIOUS
<1>2. PICK a \in S : a = Head(t) /\ a = t[1]
  BY <1>1
<1>3. r = Append(q, a) /\ Len(r) = Len(q) + 1 /\ r \in Seq(S)
  BY <1>2
<1>4. r # <<>>
  BY <1>3
<1>5. CASE q # <<>>
  <2>1. 1 \in 1..Len(q)
    BY <1>5
  <2>2. r[1] = q[1]
    BY <1>3, <2>1
  <2>3. QED
    BY <1>4, <1>5, <2>2
<1>6. CASE q = <<>>
  <2>1. Len(q) = 0
    BY <1>6
  <2>2. r[1] = a
    BY <1>3, <2>1
  <2>3. QED
    BY <1>2, <1>4, <1>6, <2>2
<1>7. QED
  BY <1>5, <1>6

LEMMA SendAsks ==
  ASSUME NEW F, Asking(F), ClientSend
  PROVE  AskInv(Now', F)
<1>1. /\ ClientOK /\ F \subseteq Links /\ AskInv(Now, F)
      /\ Now.c = client /\ Now.h = handles /\ Now.w = wire
      /\ client \in ClientRec /\ handles \in [Ids -> HandleRec] /\ wire \in [Links -> LinkRec]
      /\ client.state = "sending" /\ client.state # "idle"
  BY NowIs DEF ClientSend, Asking
<1>2. Core(Now) /\ Busy(Now)
  BY <1>1, BusyNow
<1>3. PICK k \in Links : k = client.socket
  BY <1>1, <1>2 DEF Busy, Transport, ClientRec
<1>4. CASE Becomes(Fail(Now))
  BY <1>1, <1>4, FailsAsks
<1>5. CASE ~Link.lost /\ Becomes([Now EXCEPT
             !.c.tx = Tail(@),
             !.c.state = IF Len(client.tx) = 1 THEN "receiving" ELSE @,
             !.w[client.socket].up = IF Link.s = "closed" THEN @ ELSE Append(@, Head(client.tx))])
  <2>1. PICK up : up = IF Link.s = "closed" THEN wire[k].up ELSE Append(wire[k].up, Head(client.tx))
    OBVIOUS
  <2>2. PICK w : w = [wire EXCEPT ![k].up = up]
    OBVIOUS
  <2>3. /\ w[k].s = wire[k].s /\ w[k].lost = wire[k].lost /\ w[k].up = up
        /\ \A l \in Links : l # k => w[l] = wire[l]
    <3>1. w = [wire EXCEPT ![k] = [wire[k] EXCEPT !.up = up]]
      BY <1>1, <2>2
    <3>2. wire[k] \in LinkRec
      BY <1>1
    <3>3. QED
      BY <1>1, <3>1, <3>2 DEF LinkRec
  <2>4. wire' = w /\ handles' = handles
    BY <1>1, <1>3, <1>5, <2>1, <2>2 DEF Becomes, Now
  <2>5. client' = [client EXCEPT !.tx = Tail(client.tx),
                                 !.state = IF Len(client.tx) = 1 THEN "receiving" ELSE client.state]
    BY <1>5 DEF Becomes, Now
  <2>6. client'.connector = client.connector /\ client'.socket = client.socket
    BY <1>1, <2>5 DEF ClientRec
  <2>7. Now'.c = client' /\ Now'.h = handles /\ Now'.w = w
    BY <2>4 DEF Now
  <2>8. client.connector = None /\ client.tx # <<>>
    BY <1>1, <1>2 DEF Busy, Transport
  <2>9. ASSUME NEW l \in F PROVE Heard1(w[l], Owns(Now', l), client'.tx, handles)
    <3>1. l \in Links
      BY <1>1
    <3>2. Heard1(wire[l], Owns(Now, l), client.tx, handles)
      BY <1>1 DEF AskInv
    <3>3. CASE l # k
      <4>1. ~Owns(Now', l) /\ w[l] = wire[l]
        BY <1>3, <2>3, <2>6, <2>7, <2>8, <3>1, <3>3, NoneNoLink DEF Owns
      <4>2. QED
        BY <3>2, <4>1 DEF Heard1
    <3>4. CASE l = k
      <4>1. Owns(Now, k)
        BY <1>1, <1>3 DEF Owns
      <4>2. SUFFICES ASSUME w[k].s # "closed"
                     PROVE  up # <<>> /\ LegitHead(up[1], handles)
        BY <2>3, <3>4 DEF Heard1
      <4>3. up = Append(wire[k].up, Head(client.tx))
        BY <1>3, <2>1, <2>3, <4>2 DEF Link
      <4>4. PICK q \in Seq(AskPiece), t \in Seq(AskPiece) : q = wire[k].up /\ t = client.tx
        BY <1>1 DEF LinkRec, ClientRec
      <4>5. up # <<>> /\ (q # <<>> => up[1] = q[1]) /\ (q = <<>> => up[1] = t[1])
        BY <2>8, <4>3, <4>4, Appended
      <4>6. /\ q # <<>> => LegitHead(q[1], handles)
            /\ q = <<>> => LegitHead(t[1], handles)
        BY <1>3, <1>5, <2>3, <3>2, <3>4, <4>1, <4>2, <4>4 DEF Heard1, Link
      <4>7. QED
        BY <4>5, <4>6
    <3>5. QED
      BY <3>3, <3>4
  <2>10. QED
    BY <1>1, <2>7, <2>9 DEF AskInv
<1>6. QED
  BY <1>4, <1>5 DEF ClientSend

LEMMA ReceivePieceAsks ==
  ASSUME NEW F, Asking(F), ReceivePiece
  PROVE  AskInv(Now', F)
<1>1. /\ ClientOK /\ F \subseteq Links /\ AskInv(Now, F) /\ Wired(Now)
      /\ Now.c = client /\ Now.h = handles /\ Now.w = wire /\ Now \in State
      /\ handles \in [Ids -> HandleRec] /\ wire \in [Links -> LinkRec]
  BY NowIs DEF Asking, Wired, ClientOK
<1>2. PICK piece, q, f, s :
        piece \in ReplyPiece /\ PieceRead(piece, q, f, s) /\ \E r \in Parsed(s) : Becomes(r)
  BY <1>1, ReceivePieceIs
<1>3. PICK r \in Parsed(s) : Becomes(r)
  BY <1>2
<1>4. Reading(s) /\ f.w = [wire EXCEPT ![client.socket].down = Tail(Link.down)] /\ client.socket \in Links
  BY <1>2 DEF PieceRead
<1>5. PICK i \in Ids : i = client.request
  BY <1>1, ReceivesNow DEF ReceivePiece
<1>6. /\ WireKept(Now, s) /\ s.w = f.w /\ \A l \in Links : s.w[l].c = wire[l].c
      /\ s.c.state = "receiving" /\ handles[i].phase = "pending" /\ s.h[i].phase = "pending"
      /\ s.h[i].ask = handles[i].ask /\ s.h[i].hops = handles[i].hops
      /\ \A j \in Ids : j # i => s.h[j] = handles[j]
  BY <1>1, <1>2, <1>5, PieceEffect
<1>7. Later(handles, s.h)
  <2>1. \A j \in Ids : handles[j].hops \in Nat
    BY <1>1 DEF HandleRec
  <2>2. QED
    BY <1>6, <2>1 DEF Later
<1>8. \A l \in Links : s.w[l].up = wire[l].up /\ s.w[l].lost = wire[l].lost /\ s.w[l].s = wire[l].s
  <2>1. PICK k, rest : k \in Links /\ k = client.socket /\ rest = Tail(Link.down)
    BY <1>4
  <2>2. s.w = [wire EXCEPT ![k].down = rest]
    BY <1>4, <1>6, <2>1
  <2>3. QED
    BY <1>1, <2>2, DownWired
<1>9. s \in State
  BY <1>4 DEF Reading, Core
<1>10. AskInv(s, F)
  <2>1. \A l \in F : s.w[l].s # "closed" /\ s.w[l].up # <<>> =>
                       s.w[l].up = Now.w[l].up /\ Now.w[l].s # "closed"
    BY <1>1, <1>8
  <2>2. s.c.state \notin {"awaiting", "sending"} /\ Later(Now.h, s.h)
    BY <1>1, <1>6, <1>7
  <2>3. QED
    BY <1>1, <1>9, <2>1, <2>2, AskQuiet
<1>11. Opened(s) /\ FreshLinks(s.w)
  BY <1>1, <1>6 DEF WireKept, Wired
<1>12. AskInv(r, F)
  BY <1>1, <1>4, <1>6, <1>10, <1>11, ParsedAsks
<1>13. Now' = r
  BY <1>3, <1>4, ParsedInv, BecomesIs
<1>14. QED
  BY <1>12, <1>13

LEMMA ReceiveEndAsks ==
  ASSUME NEW F, Asking(F), ReceiveEnd
  PROVE  AskInv(Now', F)
<1>1. /\ ClientOK /\ F \subseteq Links /\ AskInv(Now, F) /\ Opened(Now) /\ FreshLinks(wire)
      /\ Now.c = client /\ Now.h = handles /\ Now.w = wire /\ Now \in State
      /\ handles \in [Ids -> HandleRec]
  BY NowIs DEF Asking, ClientOK
<1>2. PICK q, f : EndRead(q, f) /\ \E r \in Parsed(f) : Becomes(r)
  BY <1>1, ReceiveEndIs
<1>3. PICK r \in Parsed(f) : Becomes(r)
  BY <1>2
<1>4. Fed(f, Now, q) /\ Reading(f) /\ f.w = wire
  BY <1>2 DEF EndRead
<1>5. /\ f.h = handles /\ f.c.connector = client.connector /\ f.c.socket = client.socket
      /\ f.c.state = client.state /\ f.c.tx = client.tx /\ f \in State
  BY <1>1, <1>4 DEF Fed
<1>6. Later(handles, handles)
  BY <1>1, LaterSame
<1>7. AskInv(f, F)
  <2>1. /\ Later(Now.h, f.h) /\ f.w = Now.w /\ f.c.state = Now.c.state /\ f.c.tx = Now.c.tx
        /\ f.c.connector = Now.c.connector /\ f.c.socket = Now.c.socket
    BY <1>1, <1>4, <1>5, <1>6
  <2>2. QED
    BY <1>1, <1>5, <2>1, AskSame
<1>8. Opened(f) /\ FreshLinks(f.w)
  BY <1>1, <1>4, <1>5 DEF Opened
<1>9. AskInv(r, F)
  BY <1>1, <1>4, <1>7, <1>8, ParsedAsks
<1>10. Now' = r
  BY <1>3, <1>4, ParsedInv, BecomesIs
<1>11. QED
  BY <1>9, <1>10

LEMMA ReadAsks ==
  ASSUME NEW F, Asking(F), ClientOK', NEW i \in Ids, ReadBodyInto(i)
  PROVE  AskInv(Now', F)
<1>1. /\ AskInv(Now, F) /\ Now.c = client /\ Now.h = handles /\ Now.w = wire /\ Now \in State
      /\ client' = client /\ wire' = wire /\ handles \in [Ids -> HandleRec] /\ Now' \in State
  BY NowIs DEF ReadBodyInto, Asking, ClientOK
<1>2. PICK b, left, f : handles' = [handles EXCEPT ![i].body = b, ![i].buf = left, ![i].fill = f]
  BY DEF ReadBodyInto
<1>3. PICK e : e = [handles[i] EXCEPT !.body = b, !.buf = left, !.fill = f]
  OBVIOUS
<1>4. handles' = [handles EXCEPT ![i] = e]
  BY <1>1, <1>2, <1>3
<1>5. handles[i] \in HandleRec
  BY <1>1
<1>6. e.phase = handles[i].phase /\ e.ask = handles[i].ask /\ e.hops = handles[i].hops
  BY <1>3, <1>5 DEF HandleRec
<1>7. handles'[i] = e /\ \A j \in Ids : j # i => handles'[j] = handles[j]
  BY <1>1, <1>4
<1>8. Later(handles, handles')
  <2>1. \A j \in Ids : handles[j].hops \in Nat
    BY <1>1 DEF HandleRec
  <2>2. QED
    BY <1>6, <1>7, <2>1 DEF Later
<1>9. Now'.c = client /\ Now'.h = handles' /\ Now'.w = wire
  BY <1>1 DEF Now
<1>10. QED
  BY <1>1, <1>8, <1>9, AskSame

LEMMA ReturnAsks ==
  ASSUME NEW F, Asking(F), CallbackReturns
  PROVE  AskInv(Now', F)
<1>1. /\ ClientOK /\ F \subseteq Links /\ AskInv(Now, F) /\ Now \in State
      /\ Now.c = client /\ Now.h = handles /\ Now.w = wire
      /\ client \in ClientRec /\ handles \in [Ids -> HandleRec] /\ Len(client.calls) > 0
  BY NowIs DEF CallbackReturns, Asking, ClientOK
<1>2. PICK s : s = Popped
  OBVIOUS
<1>3. s \in State /\ s.h = handles /\ s.w = wire
  BY <1>1, <1>2, PoppedIs
<1>4. PICK calls \in Seq({"done", "oversized"}) : s.c = [client EXCEPT !.calls = calls]
  BY <1>1, <1>2, PoppedIs
<1>5. /\ s.c.request = client.request /\ s.c.connector = client.connector
      /\ s.c.socket = client.socket /\ s.c.state = client.state /\ s.c.tx = client.tx
  BY <1>1, <1>4 DEF ClientRec
<1>6. AskInv(s, F)
  <2>1. /\ Later(Now.h, s.h) /\ s.w = Now.w /\ s.c.state = Now.c.state /\ s.c.tx = Now.c.tx
        /\ s.c.connector = Now.c.connector /\ s.c.socket = Now.c.socket
    BY <1>1, <1>3, <1>5, LaterSame
  <2>2. QED
    BY <1>1, <1>3, <2>1, AskSame
<1>7. CASE Becomes(s)
  BY <1>3, <1>6, <1>7, BecomesIs
<1>8. CASE client.parser # None /\ Becomes(Complete(s, "dropped"))
  <2>1. client.state # "idle"
    BY <1>1, <1>8 DEF ClientOK, ClientInv, Idle
  <2>2. Core(Now)
    BY <1>1, <2>1, BusyNow
  <2>3. Mine(s) = Mine(Now)
    BY <1>1, <1>3, <1>5 DEF Mine
  <2>4. Core(s)
    BY <1>1, <1>3, <1>5, <2>2, <2>3 DEF Core
  <2>5. PICK r : r = Complete(s, "dropped")
    OBVIOUS
  <2>6. r \in State /\ AskInv(r, F)
    BY <1>1, <1>6, <2>4, <2>5, CompleteInv, EndAsks
  <2>7. QED
    BY <1>8, <2>5, <2>6, BecomesIs
<1>9. QED
  BY <1>2, <1>7, <1>8 DEF CallbackReturns, Popped

(* request(): its head is the first it sends on a connection never used.    *)
LEMMA AskAsks ==
  ASSUME NEW F, Asking(F), Ask
  PROVE  AskInv(Now', F)
<1>1. /\ ClientOK /\ F \subseteq Links /\ AskInv(Now, F) /\ Now \in State /\ FreshLinks(wire)
      /\ Now.c = client /\ Now.h = handles /\ Now.w = wire
  BY NowIs DEF Asking, ClientOK
<1>2. client.state = "idle" /\ NextId \in Ids /\ handles[NextId].phase = "unused"
      /\ NextLink \in Links /\ wire[NextLink].c = "none"
  BY <1>1, NextIdIn, NextLinkIn DEF Ask, Room
<1>3. PICK i \in Ids, k \in Links : i = NextId /\ k = NextLink
  BY <1>2
<1>4. PICK ask \in Requests[i] :
        Becomes(StartHop(Begun(i, ask), k, ask.method, ask.len))
  BY <1>3 DEF Ask, Begun
<1>5. ask \in Request /\ ask.method \in {"GET", "POST"} /\ ask.len \in Nat
  BY ClientAssumption DEF ClientAssumption, Ids, Request
<1>6. PICK m \in {"GET", "POST"}, n \in Nat : m = ask.method /\ n = ask.len
  BY <1>5
<1>7. PICK s : s = Begun(i, ask)
  OBVIOUS
<1>8. /\ s \in State /\ s.w = wire /\ s.c.request = i /\ s.c.socket = None
      /\ s.h[i] = Beginning(NoHandle, ask) /\ \A j \in Ids : j # i => s.h[j] = handles[j]
  BY <1>1, <1>2, <1>3, <1>5, <1>7, BegunIs
<1>9. PICK r : r = StartHop(s, k, m, n)
  OBVIOUS
<1>10. /\ r \in State /\ r.c.connector = k /\ r.c.socket = s.c.socket /\ r.c.tx[1] = RequestHead(m, n)
       /\ HopOn(r.h[i], s.h[i]) /\ \A j \in Ids : j # i => r.h[j] = s.h[j]
  BY <1>8, <1>9, StartsHop
<1>11. Dialled(r.w[k], wire[k]) /\ \A l \in Links : l # k => r.w[l] = wire[l]
  <2>1. s \in State /\ i = s.c.request
    BY <1>8
  <2>2. Dialled(r.w[k], s.w[k]) /\ \A l \in Links : l # k => r.w[l] = s.w[l]
    BY <1>9, <2>1, StartsHop
  <2>3. QED
    BY <1>8, <2>2
<1>12. r.h[i].phase = "pending" /\ r.h[i].ask = ask /\ r.h[i].hops = 1
  <2>1. s.h[i].phase = "pending" /\ s.h[i].ask = ask /\ s.h[i].hops = 0
    BY <1>8 DEF Beginning, NoHandle
  <2>2. QED
    BY <1>10, <2>1 DEF HopOn
<1>13. \A j \in Ids : j # i => r.h[j] = handles[j]
  BY <1>8, <1>10
<1>14. handles[i].phase = "unused"
  BY <1>2, <1>3
<1>15. \A p : LegitHead(p, handles) => LegitHead(p, r.h)
  BY <1>13, <1>14 DEF LegitHead, Legit
<1>16. LegitHead(r.c.tx[1], r.h)
  <2>1. r.c.tx[1].op = "request" /\ r.c.tx[1].method = m /\ r.c.tx[1].len = n
    BY <1>10 DEF RequestHead
  <2>2. QED
    BY <1>6, <1>12, <2>1 DEF LegitHead, Legit
<1>17. r.w[k].up = <<>>
  <2>1. wire[k].up = <<>>
    BY <1>1, <1>2, <1>3 DEF FreshLinks, NewLink
  <2>2. QED
    BY <1>11, <2>1 DEF Dialled
<1>18. ASSUME NEW l \in F PROVE Heard1(r.w[l], Owns(r, l), r.c.tx, r.h)
  <2>1. CASE l = k
    BY <1>16, <1>17, <2>1 DEF Heard1
  <2>2. CASE l # k
    <3>1. ~Owns(r, l) /\ r.w[l] = wire[l]
      BY <1>1, <1>8, <1>10, <1>11, <2>2, NoneNoLink DEF Owns
    <3>2. Heard1(wire[l], Owns(Now, l), client.tx, handles)
      BY <1>1 DEF AskInv
    <3>3. QED
      BY <1>15, <3>1, <3>2 DEF Heard1
  <2>3. QED
    BY <2>1, <2>2
<1>19. \A j \in Ids : r.h[j].phase # "unused" => r.h[j].hops >= 1
  <2>1. \A j \in Ids : handles[j].phase # "unused" => handles[j].hops >= 1
    BY <1>1 DEF AskInv
  <2>2. QED
    BY <1>12, <1>13, <2>1
<1>20. AskInv(r, F)
  BY <1>18, <1>19 DEF AskInv
<1>21. Now' = r
  BY <1>4, <1>6, <1>7, <1>9, <1>10, BecomesIs
<1>22. QED
  BY <1>20, <1>21

LEMMA ClientAsks ==
  ASSUME NEW F, Asking(F), ClientOK', ClientHandle \/ ClientApp
  PROVE  AskInv(Now', F)
<1>1. CASE ClientHandle
  BY <1>1, FailsAsks, ConnectorFailsAsks, ConnectorReadyAsks, SendAsks, ReceivePieceAsks, ReceiveEndAsks
     DEF ClientHandle, Timeout, ReceiveFails, CanReceive, Handles
<1>2. CASE ClientApp
  BY <1>2, FailsAsks, AskAsks, ReadAsks, ReturnAsks DEF ClientApp, Cancel
<1>3. QED
  BY <1>1, <1>2

-----------------------------------------------------------------------------
(* What the handlers heard.  At the connections the server has not read     *)
(* from yet a legitimate head comes first; the body it reads elsewhere is   *)
(* one of a legitimate request.                                             *)
Untouched == {l \in Links : conn[l].state \in {None, "head"}}

HearInv ==
  /\ AskInv(Now, Untouched)
  /\ \A l \in Links : /\ conn[l].state = "body" => Legit(conn[l].ask, handles)
                      /\ heard[l] # None => Legit(heard[l], handles)

(* What a step other than the client's does at a connection.                *)
StillFirst(x, y) ==
  \/ y.s = "closed"
  \/ y.lost /\ y.up = <<>>
  \/ y.up = x.up /\ (x.lost => y.lost) /\ x.s # "closed"

Lets(l) ==
  /\ conn'[l].state \in {None, "head"} =>
       StillFirst(wire[l], wire'[l]) /\ (conn[l].state \in {None, "head"} \/ wire'[l].s = "closed")
  /\ conn'[l].state = "body" => Legit(conn'[l].ask, handles)
  /\ heard'[l] # None => Legit(heard'[l], handles)

LEMMA HearsAll ==
  ASSUME HearInv, UNCHANGED clientState, \A l \in Links : Lets(l)
  PROVE  HearInv'
<1>1. /\ client' = client /\ handles' = handles
      /\ Now.c = client /\ Now.h = handles /\ Now.w = wire
  BY DEF clientState, Now
<1>2. Now'.c = client /\ Now'.h = handles /\ Now'.w = wire'
  BY <1>1 DEF Now
<1>3. ASSUME NEW l \in Untouched' PROVE Heard1(wire'[l], Owns(Now', l), client.tx, handles)
  <2>1. l \in Links /\ conn'[l].state \in {None, "head"} /\ Lets(l)
    BY <1>3 DEF Untouched
  <2>2. StillFirst(wire[l], wire'[l]) /\ (conn[l].state \in {None, "head"} \/ wire'[l].s = "closed")
    BY <2>1 DEF Lets
  <2>3. Owns(Now', l) <=> Owns(Now, l)
    BY <1>1, <1>2 DEF Owns
  <2>4. CASE wire'[l].s = "closed" \/ (wire'[l].lost /\ wire'[l].up = <<>>)
    BY <2>4 DEF Heard1
  <2>5. CASE wire'[l].s # "closed" /\ ~(wire'[l].lost /\ wire'[l].up = <<>>)
    <3>1. /\ wire'[l].up = wire[l].up /\ (wire[l].lost => wire'[l].lost)
          /\ wire[l].s # "closed" /\ l \in Untouched
      BY <2>1, <2>2, <2>5 DEF StillFirst, Untouched
    <3>2. Heard1(wire[l], Owns(Now, l), client.tx, handles)
      BY <1>1, <3>1 DEF HearInv, AskInv
    <3>3. QED
      BY <2>3, <3>1, <3>2 DEF Heard1
  <2>6. QED
    BY <2>4, <2>5
<1>4. \A i \in Ids : handles[i].phase # "unused" => handles[i].hops >= 1
  BY <1>1 DEF HearInv, AskInv
<1>5. AskInv(Now', Untouched')
  BY <1>2, <1>3, <1>4 DEF AskInv
<1>6. \A l \in Links : /\ conn'[l].state = "body" => Legit(conn'[l].ask, handles)
                       /\ heard'[l] # None => Legit(heard'[l], handles)
  BY DEF Lets
<1>7. QED
  BY <1>1, <1>5, <1>6 DEF HearInv

LEMMA LetsRest ==
  ASSUME HearInv, NEW l \in Links, conn'[l] = conn[l], wire'[l] = wire[l],
         heard'[l] # None => Legit(heard'[l], handles)
  PROVE  Lets(l)
  BY DEF HearInv, Lets, StillFirst

(* A step of one connection, whose bytes to the server are as they were     *)
(* unless it is read or closed.                                             *)
LEMMA HearsAt ==
  ASSUME HearInv, UNCHANGED clientState, NEW l \in Links, NEW d, NEW y,
         conn \in [Links -> ConnRec], wire \in [Links -> LinkRec],
         conn' = [conn EXCEPT ![l] = d], wire' = [wire EXCEPT ![l] = y],
         \A k \in Links : k # l => heard'[k] = heard[k],
         heard'[l] # None => Legit(heard'[l], handles),
         d.state \in {None, "head"} =>
           StillFirst(wire[l], y) /\ (conn[l].state \in {None, "head"} \/ y.s = "closed"),
         d.state = "body" => Legit(d.ask, handles)
  PROVE  HearInv'
<1>1. conn'[l] = d /\ wire'[l] = y
  OBVIOUS
<1>2. Lets(l)
  BY <1>1 DEF Lets
<1>3. ASSUME NEW k \in Links, k # l PROVE Lets(k)
  <2>1. conn'[k] = conn[k] /\ wire'[k] = wire[k] /\ heard'[k] = heard[k]
    BY <1>3
  <2>2. heard'[k] # None => Legit(heard'[k], handles)
    BY <2>1 DEF HearInv
  <2>3. QED
    BY <2>1, <2>2, LetsRest
<1>4. QED
  BY <1>2, <1>3, HearsAll

LEMMA PopHears ==
  ASSUME HearInv, UNCHANGED clientState, SystemOK, NEW l \in Links, NEW y \in LinkRec,
         NEW w, w = [wire EXCEPT ![l] = y], Pop(l, w), heard' = heard
  PROVE  HearInv'
<1>1. conn \in [Links -> ConnRec] /\ wire \in [Links -> LinkRec]
  BY NowIs DEF SystemOK, Wiring, ServerTyped
<1>2. PICK z : z = CloseServerEnd(y)
  OBVIOUS
<1>3. z.s = "closed"
  BY <1>2, ServerEnds
<1>4. wire' = [wire EXCEPT ![l] = z] /\ conn' = [conn EXCEPT ![l] = NoConn]
  BY <1>1, <1>2 DEF Pop
<1>5. NoConn.state = None /\ heard'[l] = heard[l]
  BY DEF NoConn
<1>6. heard'[l] # None => Legit(heard'[l], handles)
  BY <1>5 DEF HearInv
<1>7. QED
  BY <1>1, <1>3, <1>4, <1>5, <1>6, NoneIsNoRecord, HearsAt DEF StillFirst

LEMMA FailConnHears ==
  ASSUME HearInv, UNCHANGED clientState, SystemOK, NEW l \in Links, FailConn(l)
  PROVE  HearInv'
<1>1. wire \in [Links -> LinkRec]
  BY NowIs DEF SystemOK, Wiring
<1>2. wire[l] \in LinkRec /\ wire = [wire EXCEPT ![l] = wire[l]]
  BY <1>1
<1>3. Pop(l, wire) /\ heard' = heard
  BY DEF FailConn
<1>4. QED
  BY <1>2, <1>3, PopHears

LEMMA CloseAllHears ==
  ASSUME HearInv, UNCHANGED clientState, SystemOK, CloseAll,
         \A l \in Links : heard'[l] # None => Legit(heard'[l], handles),
         Served
  PROVE  HearInv'
<1>1. wire \in [Links -> LinkRec] /\ conn' = [l \in Links |-> NoConn]
  BY NowIs DEF SystemOK, Wiring, CloseAll
<1>2. ASSUME NEW l \in Links PROVE Lets(l)
  <2>1. conn'[l] = NoConn /\ NoConn.state = None /\ wire[l] \in LinkRec
    BY <1>1 DEF NoConn
  <2>2. Serving(l \in table, wire[l].s, conn[l], said[l])
    BY DEF SystemOK, ServerInv
  <2>3. CASE l \in table
    <3>1. wire'[l] = CloseServerEnd(wire[l])
      BY <2>3 DEF CloseAll
    <3>2. wire'[l].s = "closed"
      BY <2>1, <3>1, ServerEnds
    <3>3. QED
      BY <2>1, <3>2, NoneIsNoRecord DEF Lets, StillFirst
  <2>4. CASE l \notin table /\ wire[l].s = "backlog"
    <3>1. PICK y : y = [wire[l] EXCEPT !.s = "closed", !.lost = TRUE, !.up = <<>>, !.down = <<>>]
      OBVIOUS
    <3>2. <<>> \in Seq(AskPiece) /\ <<>> \in Seq(ReplyPiece)
      OBVIOUS
    <3>3. y \in LinkRec /\ y.s = "closed"
      BY <2>1, <3>1, <3>2 DEF LinkRec
    <3>4. wire'[l] = Settled(y)
      BY <2>4, <3>1 DEF CloseAll
    <3>5. wire'[l].s = "closed"
      BY <3>3, <3>4, Settles
    <3>6. QED
      BY <2>1, <3>5, NoneIsNoRecord DEF Lets, StillFirst
  <2>5. CASE l \notin table /\ wire[l].s # "backlog"
    <3>1. wire'[l] = wire[l]
      BY <2>5 DEF CloseAll
    <3>2. conn[l] = NoConn
      BY <2>2, <2>5 DEF Serving
    <3>3. QED
      BY <2>1, <3>1, <3>2, LetsRest
  <2>6. QED
    BY <2>3, <2>4, <2>5
<1>3. QED
  BY <1>2, HearsAll

(* A response is staged.                                                    *)
LEMMA SayHears ==
  ASSUME HearInv, UNCHANGED clientState, SystemOK, NEW l \in Links, NEW d, NEW y,
         conn' = [conn EXCEPT ![l] = d], wire' = [wire EXCEPT ![l] = y],
         \A k \in Links : k # l => heard'[k] = heard[k],
         heard'[l] # None => Legit(heard'[l], handles),
         d.state \in {"sending", "streaming"}
  PROVE  HearInv'
<1>1. conn \in [Links -> ConnRec] /\ wire \in [Links -> LinkRec]
  BY NowIs DEF SystemOK, Wiring, ServerTyped
<1>2. d.state \notin {None, "head"} /\ d.state # "body"
  BY NoneIsNoRecord
<1>3. QED
  BY <1>1, <1>2, HearsAt

LEMMA StageResponseHears ==
  ASSUME HearInv, UNCHANGED clientState, SystemOK, NEW l \in Links, NEW y,
         wire' = [wire EXCEPT ![l] = y],
         \A k \in Links : k # l => heard'[k] = heard[k],
         heard'[l] # None => Legit(heard'[l], handles),
         NEW c, Heard(c), NEW status \in Statuses, NEW len \in Nat, NEW loc \in {None, "ok", "bad"},
         StageResponse(l, c, status, len, loc)
  PROVE  HearInv'
<1>1. PICK head : head = ResponseHead(status, "length", len, loc)
  OBVIOUS
<1>2. head \in ReplyPiece
  BY <1>1, HeadIs
<1>3. PICK units \in Seq(ReplyPiece) : units = Units(len)
  BY Pieces
<1>4. PICK d : d = Stage(c, head, units)
  OBVIOUS
<1>5. d.state = "sending" /\ conn' = [conn EXCEPT ![l] = d]
  BY <1>1, <1>2, <1>3, <1>4, StageIs DEF StageResponse
<1>6. QED
  BY <1>5, SayHears

LEMMA StageStreamHears ==
  ASSUME HearInv, UNCHANGED clientState, SystemOK, NEW l \in Links, NEW y,
         wire' = [wire EXCEPT ![l] = y],
         \A k \in Links : k # l => heard'[k] = heard[k],
         heard'[l] # None => Legit(heard'[l], handles),
         NEW c, Heard(c), NEW reply \in Reply, StageStream(l, c, reply)
  PROVE  HearInv'
<1>1. PICK head : head = ResponseHead(reply.status, reply.frame, reply.len, reply.loc)
  OBVIOUS
<1>2. head \in ReplyPiece
  <2>1. /\ reply.status \in Statuses /\ reply.frame \in {"length", "chunked"} /\ reply.len \in Nat
        /\ reply.loc \in {None, "ok", "bad"}
    BY DEF Reply, Statuses
  <2>2. QED
    BY <1>1, <2>1, HeadIs
<1>3. PICK none \in Seq(ReplyPiece) : none = <<>>
  <2>1. <<>> \in Seq(ReplyPiece)
    OBVIOUS
  <2>2. QED
    BY <2>1
<1>4. PICK e : e = Stage(c, head, none)
  OBVIOUS
<1>5. e \in ConnRec /\ e.state = "sending"
  BY <1>2, <1>4, StageIs
<1>6. PICK d : d = [e EXCEPT !.src = [frame |-> reply.frame, len |-> reply.len, sent |-> 0, eof |-> FALSE]]
  OBVIOUS
<1>7. d.state = "sending"
  BY <1>5, <1>6 DEF ConnRec
<1>8. conn' = [conn EXCEPT ![l] = d]
  BY <1>1, <1>3, <1>4, <1>6 DEF StageStream
<1>9. QED
  BY <1>7, <1>8, SayHears

LEMMA DispatchHears ==
  ASSUME HearInv, UNCHANGED clientState, SystemOK, Served, NEW l \in Links, NEW y,
         NEW w, w = [wire EXCEPT ![l] = y], NEW c, Heard(c), c.ask \in Hearing, c.left = 0,
         Legit(c.ask, handles), Dispatch(l, c, w)
  PROVE  HearInv'
<1>1. heard \in [Links -> Hearing \cup {None}]
  BY DEF SystemOK, ServerTyped
<1>2. PICK m \in {"GET", "POST"}, n \in Nat : c.ask = [method |-> m, len |-> n]
  BY DEF Hearing
<1>3. heard' = [heard EXCEPT ![l] = c.ask]
  <2>1. [method |-> c.ask.method, len |-> c.ask.len - c.left] = c.ask
    BY <1>2
  <2>2. QED
    BY <2>1 DEF Dispatch
<1>4. /\ \A k \in Links : k # l => heard'[k] = heard[k]
      /\ \A k \in Links : heard'[k] # None => Legit(heard'[k], handles)
  <2>1. heard'[l] = c.ask /\ \A k \in Links : k # l => heard'[k] = heard[k]
    BY <1>1, <1>3
  <2>2. \A k \in Links : heard[k] # None => Legit(heard[k], handles)
    BY DEF HearInv
  <2>3. QED
    BY <2>1, <2>2
<1>5. CASE CloseAll
  BY <1>4, <1>5, CloseAllHears
<1>6. CASE wire' = w /\ StageError(l, c)
  <2>1. StageResponse(l, c, "failure", 1, None)
    BY <1>6 DEF StageError
  <2>2. "failure" \in Statuses /\ 1 \in Nat /\ None \in {None, "ok", "bad"}
    BY DEF Statuses
  <2>3. QED
    BY <1>4, <1>6, <2>1, <2>2, StageResponseHears
<1>7. CASE wire' = w /\ \E r \in Replies : IF r.how = "fixed" THEN StageResponse(l, c, r.status, r.len, r.loc)
                                           ELSE StageStream(l, c, r)
  <2>1. PICK r \in Replies : IF r.how = "fixed" THEN StageResponse(l, c, r.status, r.len, r.loc)
                             ELSE StageStream(l, c, r)
    BY <1>7
  <2>2. r \in Reply
    BY ServerAssumption DEF ServerAssumption
  <2>3. r.status \in Statuses /\ r.len \in Nat /\ r.loc \in {None, "ok", "bad"}
    BY <2>2 DEF Reply, Statuses
  <2>4. QED
    BY <1>4, <1>7, <2>1, <2>2, <2>3, StageResponseHears, StageStreamHears
<1>8. QED
  BY <1>5, <1>6, <1>7 DEF Dispatch

(* A piece of a request.                                                    *)
LEMMA FeedRequestHears ==
  ASSUME HearInv, UNCHANGED clientState, SystemOK, Served, NEW l \in table, NEW y \in LinkRec,
         NEW w, w = [wire EXCEPT ![l] = y], conn[l].state \in {"head", "body"},
         NEW piece \in AskPiece, conn[l].state = "head" => LegitHead(piece, handles),
         FeedRequest(l, conn[l], piece, w)
  PROVE  HearInv'
<1>1. /\ l \in Links /\ conn[l] \in ConnRec /\ Heard(conn[l]) /\ Staging(conn[l], said[l])
  BY InTable
<1>2. PICK c \in ConnRec : c = conn[l] /\ Heard(c)
  BY <1>1
<1>3. conn \in [Links -> ConnRec] /\ wire \in [Links -> LinkRec]
  BY NowIs DEF SystemOK, Wiring, ServerTyped
<1>4. \A k \in Links : heard[k] # None => Legit(heard[k], handles)
  BY DEF HearInv
<1>5. CASE StageError(l, c) /\ wire' = w /\ UNCHANGED <<listening, table, heard>>
  <2>1. StageResponse(l, c, "failure", 1, None)
    BY <1>5 DEF StageError
  <2>2. "failure" \in Statuses /\ 1 \in Nat /\ None \in {None, "ok", "bad"}
    BY DEF Statuses
  <2>3. \A k \in Links : heard'[k] = heard[k]
    BY <1>5
  <2>4. QED
    BY <1>1, <1>2, <1>4, <1>5, <2>1, <2>2, <2>3, StageResponseHears
<1>6. CASE Pop(l, w) /\ UNCHANGED <<listening, heard, said>>
  BY <1>1, <1>6, PopHears
<1>7. PICK d : d = IF c.state = "head"
                   THEN [c EXCEPT !.ask = [method |-> piece.method, len |-> piece.len],
                                  !.left = piece.len, !.state = "body"]
                   ELSE [c EXCEPT !.left = @ - 1]
  OBVIOUS
<1>8. ASSUME c.state = "head" => piece.op = "request"
      PROVE  /\ d.ask \in Hearing /\ Heard(d) /\ d.state = "body" /\ Legit(d.ask, handles)
             /\ d.left = IF c.state = "head" THEN piece.len ELSE c.left - 1
             /\ d.left \in Nat
  <2>1. CASE c.state = "head"
    <3>1. piece.method \in {"GET", "POST"} /\ piece.len \in Nat
      BY <1>8, <2>1 DEF AskPiece, BodyPiece
    <3>2. PICK r : r = [method |-> piece.method, len |-> piece.len]
      OBVIOUS
    <3>3. r \in Hearing
      BY <3>1, <3>2 DEF Hearing
    <3>4. Legit(r, handles)
      BY <1>2, <2>1, <3>2 DEF LegitHead
    <3>5. d = [c EXCEPT !.ask = r, !.left = piece.len, !.state = "body"]
      BY <1>7, <2>1, <3>2
    <3>6. d \in ConnRec
      BY <3>1, <3>3, <3>5 DEF ConnRec
    <3>7. d.ask = r /\ d.left = piece.len /\ d.state = "body" /\ d.out = c.out /\ d.src = c.src
          /\ d.armed = c.armed
      BY <3>5 DEF ConnRec
    <3>8. QED
      BY <1>2, <2>1, <3>1, <3>3, <3>4, <3>6, <3>7 DEF Heard
  <2>2. CASE c.state # "head"
    <3>1. c.state = "body" /\ c.left > 0 /\ c.ask # None
      BY <1>1, <1>2, <2>2 DEF Staging
    <3>2. c.left \in Nat /\ c.left - 1 \in Nat /\ c.ask \in Hearing
      BY <3>1 DEF ConnRec
    <3>3. d = [c EXCEPT !.left = c.left - 1]
      BY <1>7, <2>2
    <3>4. d \in ConnRec
      BY <3>2, <3>3 DEF ConnRec
    <3>5. d.ask = c.ask /\ d.left = c.left - 1 /\ d.state = c.state /\ d.out = c.out /\ d.src = c.src
          /\ d.armed = c.armed
      BY <3>3 DEF ConnRec
    <3>6. Legit(c.ask, handles)
      BY <1>1, <1>2, <3>1 DEF HearInv
    <3>7. QED
      BY <1>2, <2>2, <3>1, <3>2, <3>4, <3>5, <3>6 DEF Heard
  <2>3. QED
    BY <2>1, <2>2
<1>9. CASE (c.state = "head" => piece.op = "request") /\ EndsRequest(c, piece) /\ Dispatch(l, d, w)
  <2>1. d.left = 0
    BY <1>8, <1>9 DEF EndsRequest
  <2>2. QED
    BY <1>1, <1>8, <1>9, <2>1, DispatchHears
<1>10. CASE (c.state = "head" => piece.op = "request") /\ ~EndsRequest(c, piece)
            /\ conn' = [conn EXCEPT ![l] = d] /\ wire' = w /\ UNCHANGED <<listening, table, heard, said>>
  <2>1. \A k \in Links : heard'[k] = heard[k]
    BY <1>10
  <2>2. d.state \notin {None, "head"}
    BY <1>8, <1>10, NoneIsNoRecord
  <2>3. QED
    BY <1>1, <1>3, <1>4, <1>8, <1>10, <2>1, <2>2, HearsAt
<1>11. QED
  BY <1>2, <1>5, <1>6, <1>7, <1>9, <1>10 DEF FeedRequest, Limits

LEMMA ServerReceiveHears ==
  ASSUME HearInv, UNCHANGED clientState, SystemOK, Served, NEW l \in table, ServerReceive(l)
  PROVE  HearInv'
<1>1. PICK x \in LinkRec : x = wire[l] /\ x.s = "up" /\ x.up # <<>>
  BY InTable DEF ServerReceive
<1>2. l \in Links /\ wire \in [Links -> LinkRec]
  BY NowIs, InTable DEF SystemOK, Wiring
<1>3. PICK q \in Seq(AskPiece) : q = x.up /\ q # <<>>
  BY <1>1 DEF LinkRec
<1>4. PICK piece, rest : piece = Head(q) /\ rest = Tail(q)
  OBVIOUS
<1>5. piece \in AskPiece /\ rest \in Seq(AskPiece) /\ piece = q[1]
  BY <1>3, <1>4, TailOf
<1>6. PICK y : y = [x EXCEPT !.up = rest]
  OBVIOUS
<1>7. y \in LinkRec
  BY <1>5, <1>6 DEF LinkRec
<1>8. PICK w : w = [wire EXCEPT ![l].up = Tail(@)]
  OBVIOUS
<1>9. w = [wire EXCEPT ![l] = y]
  BY <1>1, <1>2, <1>3, <1>4, <1>6, <1>8
<1>10. FeedRequest(l, conn[l], piece, w) /\ conn[l].state \in {"head", "body"}
  BY <1>1, <1>3, <1>4, <1>8 DEF ServerReceive, Receives
<1>11. ASSUME conn[l].state = "head" PROVE LegitHead(piece, handles)
  <2>1. l \in Untouched
    BY <1>2, <1>11 DEF Untouched
  <2>2. Heard1(wire[l], Owns(Now, l), Now.c.tx, Now.h) /\ Now.h = handles
    BY <2>1 DEF HearInv, AskInv, Now
  <2>3. QED
    BY <1>1, <1>3, <1>5, <2>2 DEF Heard1
<1>12. QED
  BY <1>7, <1>9, <1>10, <1>5, <1>11, FeedRequestHears

(* The rest of what a connection's tick does.                               *)
LEMMA StreamHears ==
  ASSUME HearInv, UNCHANGED clientState, NEW l \in Links, wire' = wire, heard' = heard,
         conn'[l].state = "streaming", \A k \in Links : k # l => conn'[k] = conn[k]
  PROVE  HearInv'
<1>1. \A k \in Links : heard'[k] # None => Legit(heard'[k], handles)
  BY DEF HearInv
<1>2. Lets(l)
  BY <1>1, NoneIsNoRecord DEF Lets
<1>3. ASSUME NEW k \in Links, k # l PROVE Lets(k)
  BY <1>1, <1>3, LetsRest
<1>4. QED
  BY <1>2, <1>3, HearsAll

LEMMA PullHears ==
  ASSUME HearInv, UNCHANGED clientState, SystemOK, Served, NEW l \in table, PullData(l) \/ PullEof(l)
  PROVE  HearInv'
<1>1. l \in Links /\ conn \in [Links -> ConnRec] /\ conn[l].state = "streaming"
  BY InTable DEF SystemOK, ServerTyped, PullData, PullEof, Pulls
<1>2. PICK c \in ConnRec : c = conn[l] /\ c.state = "streaming"
  BY <1>1
<1>3. CASE FailConn(l)
  BY <1>1, <1>3, FailConnHears
<1>4. ASSUME NEW src, NEW out, conn' = [conn EXCEPT ![l] = [[c EXCEPT !.src = src] EXCEPT !.out = out]],
             UNCHANGED <<listening, table, heard, wire>>
      PROVE  HearInv'
  <2>1. PICK d : d = [[c EXCEPT !.src = src] EXCEPT !.out = out]
    OBVIOUS
  <2>2. d.state = "streaming"
    BY <1>2, <2>1 DEF ConnRec
  <2>3. conn'[l] = d /\ \A k \in Links : k # l => conn'[k] = conn[k]
    BY <1>1, <1>4, <2>1
  <2>4. QED
    BY <1>1, <1>4, <2>2, <2>3, StreamHears
<1>5. CASE PullData(l) /\ ~FailConn(l)
  <2>1. PICK unit : unit = Body(conn[l].src.sent + 1)
    OBVIOUS
  <2>2. conn' = [conn EXCEPT ![l].src.sent = @ + 1, ![l].out = <<unit>>]
        /\ UNCHANGED <<listening, table, heard, wire>>
    BY <1>5, <2>1 DEF PullData
  <2>3. PICK src, out : src = [c.src EXCEPT !.sent = @ + 1] /\ out = <<unit>>
    OBVIOUS
  <2>4. conn' = [conn EXCEPT ![l] = [[conn[l] EXCEPT !.src.sent = @ + 1] EXCEPT !.out = out]]
    BY <1>1, <2>2, <2>3
  <2>5. [c EXCEPT !.src.sent = @ + 1] = [c EXCEPT !.src = src]
    BY <1>2, <2>3 DEF ConnRec
  <2>6. conn' = [conn EXCEPT ![l] = [[c EXCEPT !.src = src] EXCEPT !.out = out]]
    BY <1>2, <2>4, <2>5
  <2>7. QED
    BY <1>4, <2>2, <2>6
<1>6. CASE PullEof(l) /\ ~FailConn(l)
  <2>1. conn' = [conn EXCEPT ![l].src.eof = TRUE, ![l].out = <<Last>>]
        /\ UNCHANGED <<listening, table, heard, wire>>
    BY <1>6 DEF PullEof
  <2>2. PICK src, out : src = [c.src EXCEPT !.eof = TRUE] /\ out = <<Last>>
    OBVIOUS
  <2>3. conn' = [conn EXCEPT ![l] = [[conn[l] EXCEPT !.src.eof = TRUE] EXCEPT !.out = out]]
    BY <1>1, <2>1, <2>2
  <2>4. [c EXCEPT !.src.eof = TRUE] = [c EXCEPT !.src = src]
    BY <1>2, <2>2 DEF ConnRec
  <2>5. conn' = [conn EXCEPT ![l] = [[c EXCEPT !.src = src] EXCEPT !.out = out]]
    BY <1>2, <2>3, <2>4
  <2>6. QED
    BY <1>4, <2>1, <2>5
<1>7. QED
  BY <1>3, <1>5, <1>6

LEMMA ServerSendHears ==
  ASSUME HearInv, UNCHANGED clientState, SystemOK, Served, NEW l \in table, ServerSend(l)
  PROVE  HearInv'
<1>1. PICK x \in LinkRec : x = wire[l]
  BY InTable
<1>2. PICK b \in ConnRec : b = conn[l] /\ b.out # <<>> /\ Staging(b, said[l]) /\ b.state # None
  BY InTable DEF ServerSend, Sends
<1>3. b.state \in {"sending", "streaming"}
  BY <1>2 DEF Staging, ConnRec
<1>4. PICK q \in Seq(ReplyPiece) : q = b.out /\ q # <<>>
  BY <1>2 DEF ConnRec
<1>5. PICK piece, rest : piece = Head(q) /\ rest = Tail(q)
  OBVIOUS
<1>6. piece \in ReplyPiece /\ rest \in Seq(ReplyPiece)
  BY <1>4, <1>5, TailOf
<1>7. PICK c : c = [b EXCEPT !.out = rest]
  OBVIOUS
<1>8. c \in ConnRec /\ c.out = rest /\ c.state = b.state
  BY <1>2, <1>6, <1>7 DEF ConnRec
<1>9. PICK more : more = Append(x.down, piece)
  OBVIOUS
<1>10. more \in Seq(ReplyPiece)
  <2>1. x.down \in Seq(ReplyPiece)
    BY <1>1 DEF LinkRec
  <2>2. QED
    BY <1>6, <1>9, <2>1
<1>11. PICK y : y = IF x.c = "closed" THEN x ELSE [x EXCEPT !.down = more]
  OBVIOUS
<1>12. y \in LinkRec
  BY <1>10, <1>11 DEF LinkRec
<1>13. PICK w : w = IF x.c = "closed" THEN wire ELSE [wire EXCEPT ![l].down = Append(@, piece)]
  OBVIOUS
<1>14. l \in Links /\ wire \in [Links -> LinkRec] /\ conn \in [Links -> ConnRec]
  BY NowIs, InTable DEF SystemOK, Wiring, ServerTyped
<1>15. w = [wire EXCEPT ![l] = y]
  BY <1>1, <1>9, <1>11, <1>13, <1>14
<1>16. PICK d : d = IF rest = <<>> THEN [c EXCEPT !.state = "streaming"] ELSE c
  OBVIOUS
<1>17. d.state \in {"sending", "streaming"}
  BY <1>3, <1>8, <1>16 DEF ConnRec
<1>18. /\ UNCHANGED <<listening, heard, said>>
       /\ IF rest = <<>> /\ Finished(c) THEN Pop(l, w)
          ELSE conn' = [conn EXCEPT ![l] = d] /\ wire' = w /\ UNCHANGED table
  <2>1. c = [conn[l] EXCEPT !.out = Tail(@)]
    BY <1>2, <1>4, <1>5, <1>7, <1>14
  <2>2. w = IF x.c = "closed" THEN wire ELSE [wire EXCEPT ![l].down = Append(@, Head(conn[l].out))]
    BY <1>2, <1>4, <1>5, <1>13
  <2>3. QED
    BY <1>1, <1>8, <1>16, <2>1, <2>2 DEF ServerSend
<1>19. CASE rest = <<>> /\ Finished(c)
  BY <1>12, <1>14, <1>15, <1>18, <1>19, PopHears
<1>20. CASE ~(rest = <<>> /\ Finished(c))
  <2>1. \A k \in Links : heard'[k] = heard[k]
    BY <1>18
  <2>2. heard[l] # None => Legit(heard[l], handles)
    BY <1>14 DEF HearInv
  <2>3. QED
    BY <1>14, <1>15, <1>17, <1>18, <1>20, <2>1, <2>2, SayHears
<1>21. QED
  BY <1>19, <1>20

LEMMA AcceptHears ==
  ASSUME HearInv, UNCHANGED clientState, SystemOK, Served, NEW l \in Links, Accept(l)
  PROVE  HearInv'
<1>1. wire \in [Links -> LinkRec] /\ conn \in [Links -> ConnRec] /\ heard' = heard
  BY NowIs DEF SystemOK, Wiring, ServerTyped, Accept
<1>2. PICK x \in LinkRec : x = wire[l] /\ x.s = "backlog"
  BY <1>1 DEF Accept
<1>3. PICK y : y = [x EXCEPT !.s = "up"]
  OBVIOUS
<1>4. y.s = "up" /\ y.up = x.up /\ y.lost = x.lost
  BY <1>3 DEF LinkRec
<1>5. Settled(y) = y
  BY <1>4 DEF Settled, Gone
<1>6. wire' = [wire EXCEPT ![l] = y] /\ conn' = [conn EXCEPT ![l] = Accepted]
  BY <1>1, <1>2, <1>3, <1>5 DEF Accept
<1>7. conn[l].state = None
  <2>1. Serving(l \in table, wire[l].s, conn[l], said[l])
    BY DEF SystemOK, ServerInv
  <2>2. conn[l] = NoConn
    BY <1>2, <2>1 DEF Serving
  <2>3. QED
    BY <2>2 DEF NoConn
<1>8. Accepted.state = "head"
  BY DEF Accepted, NoConn
<1>9. StillFirst(wire[l], y)
  BY <1>2, <1>4 DEF StillFirst
<1>10. heard[l] # None => Legit(heard[l], handles)
  BY DEF HearInv
<1>11. QED
  BY <1>1, <1>6, <1>7, <1>8, <1>9, <1>10, HearsAt

(* Every step of the server.                                                *)
LEMMA ServerHears ==
  ASSUME HearInv, SystemOK, ServerSteps
  PROVE  HearInv'
<1>1. Served /\ UNCHANGED clientState
  BY DEF ServerSteps
<1>2. \A l \in Links : heard[l] # None => Legit(heard[l], handles)
  BY DEF HearInv
<1>3. ASSUME NEW l \in Links, Tick(l) PROVE HearInv'
  <2>1. l \in table
    BY <1>3 DEF Tick, RequestTimeout, ServerReceive, ServerReceiveEnd, Receives, ServerSend,
                ServerSendFails, Sends, PullData, PullEof, PullRaises, Pulls
  <2>2. CASE RequestTimeout(l) \/ ServerReceiveEnd(l) \/ ServerSendFails(l) \/ PullRaises(l)
    <3>1. FailConn(l)
      BY <2>2 DEF RequestTimeout, ServerReceiveEnd, RequestEof, ServerSendFails, PullRaises, SourceFails
    <3>2. QED
      BY <1>1, <1>3, <3>1, FailConnHears
  <2>3. QED
    BY <1>1, <1>3, <2>1, <2>2, ServerReceiveHears, ServerSendHears, PullHears DEF Tick
<1>4. CASE ServerClose
  BY <1>1, <1>2, <1>4, CloseAllHears DEF ServerClose
<1>5. CASE Listen
  <2>1. conn' = conn /\ wire' = wire /\ heard' = heard
    BY <1>5 DEF Listen
  <2>2. QED
    BY <1>1, <1>2, <2>1, LetsRest, HearsAll
<1>6. QED
  BY <1>1, <1>3, <1>4, <1>5, AcceptHears DEF ServerSteps, ServerHandle

(* Every step of the client: what was legitimate stays so.                  *)
LEMMA LegitKept ==
  ASSUME ClientOK, ClientOK', ClientHandle \/ ClientApp, NEW r, Legit(r, handles)
  PROVE  Legit(r, handles')
<1>1. handles \in [Ids -> HandleRec] /\ handles' \in [Ids -> HandleRec]
  <2>1. Now \in State /\ Now' \in State
    BY DEF ClientOK
  <2>2. Now.h = handles /\ Now'.h = handles'
    BY DEF Now
  <2>3. QED
    BY <2>1, <2>2 DEF State
<1>2. CASE handles' = handles
  BY <1>2
<1>3. ASSUME NEW i \in Ids, Progress(i, handles, handles') PROVE Legit(r, handles')
  <2>1. PICK a \in HandleRec, b \in HandleRec : a = handles[i] /\ b = handles'[i] /\ Advances(a, b)
    BY <1>1, <1>3 DEF Progress
  <2>2. a.hops \in Nat /\ b.hops \in Nat /\ b.ask = a.ask /\ b.hops \in {a.hops, a.hops + 1}
    BY <2>1 DEF Advances, HandleRec
  <2>3. b.hops >= a.hops
    BY <2>2
  <2>4. a.phase # "unused" => b.phase # "unused"
    BY <2>1 DEF Advances, Untold, Published, Ended
  <2>5. PICK j \in Ids : /\ handles[j].phase # "unused"
                         /\ \/ r = [method |-> handles[j].ask.method, len |-> handles[j].ask.len]
                            \/ r = [method |-> "GET", len |-> 0] /\ handles[j].hops > 1
    BY DEF Legit
  <2>6. CASE j # i
    <3>1. handles'[j] = handles[j]
      BY <1>3, <2>6 DEF Progress
    <3>2. QED
      BY <2>5, <3>1 DEF Legit
  <2>7. CASE j = i
    <3>1. a.hops > 1 => b.hops > 1
      BY <2>2, <2>3
    <3>2. b.phase # "unused" /\ b.ask = a.ask
      BY <2>1, <2>2, <2>4, <2>5, <2>7
    <3>3. QED
      BY <2>1, <2>5, <2>7, <3>1, <3>2 DEF Legit
  <2>8. QED
    BY <2>6, <2>7
<1>4. ASSUME NEW i \in Ids, Asks1(i, handles, handles') PROVE Legit(r, handles')
  <2>1. handles[i].phase = "unused" /\ \A j \in Ids : j # i => handles'[j] = handles[j]
    BY <1>4 DEF Asks1, NoHandle
  <2>2. QED
    BY <2>1 DEF Legit
<1>5. QED
  BY <1>2, <1>3, <1>4, ClientEffect

LEMMA ClientHears ==
  ASSUME HearInv, SystemOK, SystemOK', ClientSteps
  PROVE  HearInv'
<1>1. Asked /\ (ClientHandle \/ ClientApp) /\ conn' = conn /\ heard' = heard
  BY DEF ClientSteps, serverState
<1>2. ClientOK /\ ClientOK'
  BY DEF SystemOK, Wiring
<1>3. Asking(Untouched)
  <2>1. Untouched \subseteq Links
    BY DEF Untouched
  <2>2. QED
    BY <1>1, <2>1 DEF HearInv, SystemOK, Wiring, Asking
<1>4. AskInv(Now', Untouched) /\ Untouched' = Untouched
  <2>1. AskInv(Now', Untouched)
    BY <1>1, <1>2, <1>3, ClientAsks
  <2>2. QED
    BY <1>1, <2>1 DEF Untouched
<1>5. ASSUME NEW l \in Links
      PROVE  /\ conn'[l].state = "body" => Legit(conn'[l].ask, handles')
             /\ heard'[l] # None => Legit(heard'[l], handles')
  <2>1. /\ conn[l].state = "body" => Legit(conn[l].ask, handles)
        /\ heard[l] # None => Legit(heard[l], handles)
    BY DEF HearInv
  <2>2. QED
    BY <1>1, <1>2, <2>1, LegitKept
<1>6. QED
  BY <1>4, <1>5 DEF HearInv

(* In a pair nothing else happens to a connection than that it breaks.      *)
LEMMA ForeignHears ==
  ASSUME HearInv, SystemOK, NEW l \in Links, ForeignSteps(l), world = "pair"
  PROVE  HearInv'
<1>1. LinkBreaks(l) /\ UNCHANGED clientState /\ conn' = conn /\ heard' = heard
  BY DEF ForeignSteps, Served, Asked, serverState
<1>2. wire \in [Links -> LinkRec] /\ conn \in [Links -> ConnRec]
  BY NowIs DEF SystemOK, Wiring, ServerTyped
<1>3. PICK y : y = [wire[l] EXCEPT !.lost = TRUE, !.up = <<>>, !.down = <<>>]
  OBVIOUS
<1>4. wire' = [wire EXCEPT ![l] = y]
  BY <1>1, <1>2, <1>3 DEF LinkBreaks
<1>5. y.lost = TRUE /\ y.up = <<>>
  <2>1. wire[l] \in LinkRec
    BY <1>2
  <2>2. QED
    BY <1>3, <2>1 DEF LinkRec
<1>6. \A k \in Links : heard'[k] # None => Legit(heard'[k], handles)
  BY <1>1 DEF HearInv
<1>7. wire'[l] = y /\ \A k \in Links : k # l => wire'[k] = wire[k]
  BY <1>2, <1>4
<1>8. Lets(l)
  BY <1>1, <1>5, <1>6, <1>7 DEF HearInv, Lets, StillFirst
<1>9. ASSUME NEW k \in Links, k # l PROVE Lets(k)
  BY <1>1, <1>6, <1>7, <1>9, LetsRest
<1>10. QED
  BY <1>1, <1>8, <1>9, HearsAll

LEMMA HearStep == (world = "pair" => HearInv) /\ SystemOK /\ SystemOK' /\ [HttpNext]_vars
                  => (world = "pair" => HearInv)'
<1> SUFFICES ASSUME world = "pair" => HearInv, SystemOK, SystemOK', [HttpNext]_vars, (world = "pair")'
             PROVE  HearInv'
  OBVIOUS
<1>1. world' = world
  BY DEF HttpNext, vars, ClientSteps, ServerSteps, ForeignSteps
<1>2. world = "pair" /\ HearInv
  BY <1>1
<1>3. CASE UNCHANGED vars
  <2>1. UNCHANGED clientState /\ conn' = conn /\ wire' = wire /\ heard' = heard
    BY <1>3 DEF vars, clientState
  <2>2. \A l \in Links : heard'[l] # None => Legit(heard'[l], handles)
    BY <1>2, <2>1 DEF HearInv
  <2>3. QED
    BY <1>2, <2>1, <2>2, LetsRest, HearsAll
<1>4. QED
  BY <1>2, <1>3, ClientHears, ServerHears, ForeignHears DEF HttpNext

LEMMA HearInit == HttpInit => HearInv
<1> SUFFICES ASSUME HttpInit PROVE HearInv
  OBVIOUS
<1>1. PICK p \in Policies : client = Idle(p)
  BY DEF HttpInit, ClientInit
<1>2. /\ handles = [i \in Ids |-> NoHandle] /\ wire = [l \in Links |-> NewLink]
      /\ conn = [l \in Links |-> NoConn] /\ heard = [l \in Links |-> None]
  BY DEF HttpInit, ClientInit, WireInit, ServerInit
<1>3. Now.c = client /\ Now.h = handles /\ Now.w = wire
  BY DEF Now
<1>4. \A i \in Ids : handles[i].phase = "unused"
  BY <1>2 DEF NoHandle
<1>5. client.state = "idle"
  BY <1>1 DEF Idle
<1>6. ASSUME NEW l \in Links
      PROVE  /\ Heard1(wire[l], Owns(Now, l), client.tx, handles)
             /\ conn[l].state = None /\ heard[l] = None
  <2>1. wire[l].up = <<>> /\ conn[l].state = None /\ heard[l] = None
    BY <1>2 DEF NewLink, NoConn
  <2>2. ~Owns(Now, l)
    BY <1>3, <1>5 DEF Owns
  <2>3. QED
    BY <2>1, <2>2 DEF Heard1
<1>7. AskInv(Now, Untouched)
  BY <1>3, <1>4, <1>6 DEF AskInv, Untouched
<1>8. QED
  BY <1>6, <1>7, NoneIsNoRecord DEF HearInv

(* A handler is only ever given a request the client made, whole, or the    *)
(* GET of a redirect it followed, whatever deadlines, closes and resets cut *)
(* short: HttpServer._dispatch_handler, HttpClient._follow_redirect.        *)
THEOREM HttpHandlerHears == Spec => []HandlerHears
<1>1. HttpInit => (world = "pair" => HearInv)
  BY HearInit
<1>2. (world = "pair" => HearInv) => HandlerHears
  BY DEF HearInv, HandlerHears, Legit
<1>3. QED
  BY <1>1, <1>2, HearStep, HttpInvariant, PTL DEF Spec

-----------------------------------------------------------------------------
(* What the application is shown of a response, and what is on its way.     *)
From(q, n) == \A j \in 1..Len(q) : q[j] = Body(n + j)

Shown(h, S) ==
  /\ h.phase # "done" => h.result # "ok"
  /\ h.resp # None =>
       LET m == S[h.resp]  got == Len(h.body) + Len(h.buf) IN
       /\ m # None /\ m.head.status = h.status
       /\ From(h.body, 0) /\ From(h.buf, Len(h.body)) /\ got <= Len(m.body)
       /\ h.result = "ok" => m.whole /\ got = Len(m.body)

(* The pieces of a response: its head, its units, the last chunk.           *)
Total(m) == 1 + Len(m.body) + (IF m.head.frame = "chunked" /\ m.whole THEN 1 ELSE 0)

IsPiece(m, n, p) ==
  IF n = 1 THEN p = m.head
  ELSE m.head.status # "nobody" => IF n <= 1 + Len(m.body) THEN p = Body(n - 1)
                                   ELSE n = Total(m) /\ p = Last

Brought(m, n) == IF m.head.status = "nobody" THEN n >= 1 ELSE n = Total(m)

(* After the r pieces that were read come those on the connection, and then *)
(* those the server has still to send.                                      *)
Flow(m, out, in, x, r) ==
  IF m = None THEN x.down = <<>> /\ r = 0
  ELSE /\ \A j \in 1..Len(x.down) : IsPiece(m, r + j, x.down[j])
       /\ ~x.lost => /\ \A j \in 1..Len(out) : IsPiece(m, r + Len(x.down) + j, out[j])
                     /\ in => Brought(m, r + Len(x.down) + Len(out))

(* A parser that has read the head of a response and u units of its body.   *)
ParserAt(p, m, u) ==
  /\ m # None /\ m.head.status # "nobody" /\ p.status = m.head.status /\ u <= Len(m.body)
  /\ p.st = "body" => m.head.frame = "length" /\ p.left # None /\ p.left + u = m.head.len
  /\ p.st = "chunks" => m.head.frame = "chunked"

LEMMA FeedHead ==
  ASSUME NEW m \in Saying, SayingOK(m), NEW stream \in BOOLEAN
  PROVE  LET q == Feed(NewParser, stream, m.head) IN
         /\ q.st \in {"body", "chunks", "done", "oversized"} /\ q.status = m.head.status /\ q.body = <<>>
         /\ q.st \in {"body", "chunks"} => ParserAt(q, m, 0)
         /\ q.st = "done" => m.whole /\ Len(m.body) = 0
<1>1. PICK head \in HeadPiece : head = m.head
  BY DEF Saying
<1>2. PICK k \in Nat : k = head.len
  BY DEF HeadPiece
<1>3. PICK n \in Nat : n = Len(m.body)
  BY DEF Saying
<1>4. head.op = "head" /\ head.frame \in {"length", "chunked"} /\ head.status \in Statuses
  BY <1>1 DEF HeadPiece, SayingOK
<1>5. PICK t : t = [NewParser EXCEPT !.status = head.status, !.loc = head.loc]
  OBVIOUS
<1>6. t.status = head.status /\ t.body = <<>> /\ t.left = None /\ t.st = "status"
      /\ t \in [st : {"status"}, status : {head.status}, loc : {head.loc}, left : {None}, body : {<<>>}]
  BY <1>5 DEF NewParser
<1>7. PICK q : q = Feed(NewParser, stream, head)
  OBVIOUS
<1>8. q = Framed(t, head, stream)
  <2>1. q = EnterBody(NewParser, head, stream)
    BY <1>4, <1>7 DEF Feed, NewParser
  <2>2. QED
    BY <1>5, <2>1, EnterBodyIs
<1>9. m # None
  BY NoneIsNoRecord
<1>10. CASE head.status = "nobody"
  <2>1. q = [t EXCEPT !.st = "done"]
    BY <1>8, <1>10 DEF Framed
  <2>2. q.st = "done" /\ q.status = head.status /\ q.body = <<>>
    BY <1>6, <2>1
  <2>3. m.whole /\ Len(m.body) = 0
    BY <1>1, <1>10 DEF SayingOK
  <2>4. QED
    BY <1>1, <1>7, <2>2, <2>3
<1>11. CASE head.status # "nobody" /\ head.frame = "chunked"
  <2>1. q = [t EXCEPT !.st = "chunks"]
    BY <1>8, <1>11 DEF Framed
  <2>2. q.st = "chunks" /\ q.status = head.status /\ q.body = <<>>
    BY <1>6, <2>1
  <2>3. ParserAt(q, m, 0)
    BY <1>1, <1>3, <1>9, <1>11, <2>2 DEF ParserAt
  <2>4. QED
    BY <1>1, <1>7, <2>2, <2>3
<1>12. CASE head.status # "nobody" /\ head.frame = "length"
  <2>1. n <= k /\ (m.whole <=> n = k)
    BY <1>1, <1>2, <1>3, <1>12 DEF SayingOK
  <2>2. q = IF k > MaxBody /\ ~stream THEN Oversized(t)
            ELSE [t EXCEPT !.left = k, !.st = IF k = 0 THEN "done" ELSE "body"]
    BY <1>2, <1>8, <1>12 DEF Framed
  <2>3. CASE k > MaxBody /\ ~stream
    <3>1. q = [t EXCEPT !.st = "oversized"]
      BY <2>2, <2>3 DEF Oversized
    <3>2. q.st = "oversized" /\ q.status = head.status /\ q.body = <<>>
      BY <1>6, <3>1
    <3>3. QED
      BY <1>1, <1>7, <3>2
  <2>4. CASE ~(k > MaxBody /\ ~stream)
    <3>1. q = [t EXCEPT !.left = k, !.st = IF k = 0 THEN "done" ELSE "body"]
      BY <2>2, <2>4
    <3>2. q.st = (IF k = 0 THEN "done" ELSE "body") /\ q.status = head.status /\ q.body = <<>> /\ q.left = k
      BY <1>6, <3>1
    <3>3. k = 0 => m.whole /\ n = 0
      BY <2>1
    <3>4. k # 0 => ParserAt(q, m, 0)
      BY <1>1, <1>2, <1>3, <1>9, <1>12, <3>2, NoneNoLink DEF ParserAt
    <3>5. QED
      BY <1>1, <1>3, <1>7, <3>2, <3>3, <3>4
  <2>5. QED
    BY <2>3, <2>4
<1>13. QED
  BY <1>4, <1>10, <1>11, <1>12

LEMMA FeedUnit ==
  ASSUME NEW p, NEW stream \in BOOLEAN, Sound(p, stream), p.st \in {"body", "chunks"},
         NEW m \in Saying, SayingOK(m), NEW u \in Nat, ParserAt(p, m, u), u + 1 <= Len(m.body),
         ~stream => Len(p.body) = u /\ From(p.body, 0)
  PROVE  LET q == Feed(p, stream, Body(u + 1)) IN
         /\ q.st \in {"body", "chunks", "done", "oversized"} /\ q.status = p.status
         /\ q.st \in {"body", "chunks"} => ParserAt(q, m, u + 1)
         /\ q.st = "done" => m.whole /\ Len(m.body) = u + 1
         /\ q.st # "oversized" /\ ~stream => Len(q.body) = u + 1 /\ From(q.body, 0)
<1>1. PICK n \in Nat : n = Len(m.body)
  BY DEF Saying
<1>2. PICK b : b = Body(u + 1)
  OBVIOUS
<1>3. b.op = "body" /\ b \in ReplyPiece /\ Unit(b) = b
  <2>1. u + 1 \in Nat
    OBVIOUS
  <2>2. b \in ReplyPiece
    BY <1>2, <2>1, Pieces
  <2>3. b.op = "body"
    BY <1>2 DEF Body
  <2>4. QED
    BY <2>2, <2>3 DEF Unit
<1>4. p \in Parser
  BY DEF Sound
<1>5. PICK k \in Parser : k = Keep(p, stream, b)
  BY <1>3, <1>4, KeepIs
<1>6. k.st = p.st /\ k.status = p.status /\ k.left = p.left
      /\ (~stream => k.body = Append(p.body, b))
  BY <1>3, <1>4, <1>5, KeepIs
<1>7. ASSUME ~stream PROVE Len(k.body) = u + 1 /\ From(k.body, 0)
  <2>1. PICK a \in Seq(BodyPiece) : a = p.body /\ Len(a) = u /\ \A j \in 1..u : a[j] = Body(0 + j)
    BY <1>4, <1>7 DEF Parser, From
  <2>2. PICK c : c = Append(a, b)
    OBVIOUS
  <2>3. Len(c) = u + 1 /\ c[u + 1] = b /\ \A j \in 1..u : c[j] = a[j]
    BY <2>1, <2>2
  <2>4. ASSUME NEW j \in 1..(u + 1) PROVE c[j] = Body(0 + j)
    <3>1. CASE j \in 1..u
      BY <2>1, <2>3, <3>1
    <3>2. CASE j = u + 1
      <4>1. 0 + j = u + 1
        BY <3>2
      <4>2. QED
        BY <1>2, <2>3, <3>2, <4>1
    <3>3. QED
      BY <3>1, <3>2
  <2>5. k.body = c
    BY <1>6, <1>7, <2>1, <2>2
  <2>6. QED
    BY <2>3, <2>4, <2>5 DEF From
<1>8. PICK q : q = Feed(p, stream, b)
  OBVIOUS
<1>9. m # None /\ m.head.status # "nobody" /\ p.status = m.head.status /\ u + 1 <= n
  BY <1>1 DEF ParserAt
<1>10. CASE p.st = "body"
  <2>1. PICK f \in Nat : f = p.left /\ f > 0 /\ m.head.frame = "length" /\ f + u = m.head.len /\ p.left # None
    BY <1>4, <1>10 DEF ParserAt, Sound, Parser
  <2>2. n <= f + u /\ (m.whole <=> n = f + u)
    BY <1>1, <1>9, <2>1 DEF SayingOK
  <2>3. q = [k EXCEPT !.left = f - 1, !.st = IF f = 1 THEN "done" ELSE "body"] /\ f - 1 \in Nat
    BY <1>5, <1>8, <1>10, <2>1 DEF Feed, AbsorbBody
  <2>4. q.st = (IF f = 1 THEN "done" ELSE "body") /\ q.left = f - 1 /\ q.status = p.status /\ q.body = k.body
    BY <1>6, <2>3 DEF Parser
  <2>5. f = 1 => m.whole /\ n = u + 1
    BY <1>9, <2>2
  <2>6. f - 1 + (u + 1) = f + u
    BY <2>1
  <2>7. f # 1 => ParserAt(q, m, u + 1)
    <3>1. q.left + (u + 1) = m.head.len
      BY <2>1, <2>4, <2>6
    <3>2. q.left # None
      BY <2>3, <2>4, NoneNoLink
    <3>3. QED
      BY <1>1, <1>9, <2>1, <2>4, <3>1, <3>2 DEF ParserAt
  <2>8. QED
    BY <1>1, <1>2, <1>7, <1>8, <2>4, <2>5, <2>7
<1>11. CASE p.st = "chunks"
  <2>1. m.head.frame = "chunked"
    BY <1>11 DEF ParserAt
  <2>2. q = AbsorbChunk(p, stream, b)
    BY <1>8, <1>11 DEF Feed
  <2>3. q = IF ~stream /\ Len(p.body) + 1 > MaxBody THEN Oversized(p) ELSE k
    BY <1>3, <1>5, <2>2 DEF AbsorbChunk
  <2>4. CASE q = Oversized(p)
    <3>1. q.st = "oversized" /\ q.status = p.status
      BY <1>4, <2>4 DEF Oversized, Parser
    <3>2. QED
      BY <1>2, <1>8, <3>1
  <2>5. CASE q = k
    <3>1. ParserAt(q, m, u + 1)
      BY <1>1, <1>6, <1>9, <1>11, <2>1, <2>5 DEF ParserAt
    <3>2. QED
      BY <1>2, <1>6, <1>7, <1>8, <1>11, <2>5, <3>1
  <2>6. QED
    BY <2>3, <2>4, <2>5
<1>12. QED
  BY <1>10, <1>11

LEMMA FeedLast ==
  ASSUME NEW p \in Parser, NEW stream, p.st = "chunks"
  PROVE  LET q == Feed(p, stream, Last) IN q.st = "done" /\ q.status = p.status /\ q.body = p.body
<1>1. Feed(p, stream, Last) = [p EXCEPT !.st = "done"]
  BY DEF Feed, AbsorbChunk, Last
<1>2. QED
  BY <1>1 DEF Parser

(* The piece that comes next.                                               *)
LEMMA NextPiece ==
  ASSUME NEW m \in Saying, SayingOK(m), NEW u \in Nat, NEW p, ParserAt(p, m, u),
         p.st \in {"body", "chunks"}, NEW piece, IsPiece(m, 2 + u, piece)
  PROVE  \/ piece = Body(u + 1) /\ u + 1 <= Len(m.body)
         \/ piece = Last /\ p.st = "chunks" /\ m.whole /\ u = Len(m.body)
<1>1. PICK n \in Nat : n = Len(m.body)
  BY DEF Saying
<1>2. u <= n /\ m.head.status # "nobody"
  BY <1>1 DEF ParserAt
<1>3. 2 + u # 1 /\ (2 + u) - 1 = u + 1
  OBVIOUS
<1>4. CASE 2 + u <= 1 + n
  <2>1. piece = Body(u + 1)
    BY <1>1, <1>2, <1>3, <1>4 DEF IsPiece
  <2>2. QED
    BY <1>1, <1>4, <2>1
<1>5. CASE ~(2 + u <= 1 + n)
  <2>1. 2 + u = Total(m) /\ piece = Last
    BY <1>1, <1>2, <1>3, <1>5 DEF IsPiece
  <2>2. m.head.frame = "chunked" /\ m.whole
    <3>1. SUFFICES ASSUME ~(m.head.frame = "chunked" /\ m.whole) PROVE FALSE
      OBVIOUS
    <3>2. Total(m) = 1 + n + 0
      BY <1>1, <3>1 DEF Total
    <3>3. QED
      BY <1>5, <2>1, <3>2
  <2>3. u = n
    BY <1>2, <1>5
  <2>4. p.st = "chunks"
    BY <2>2 DEF ParserAt
  <2>5. QED
    BY <1>1, <2>1, <2>2, <2>3, <2>4
<1>6. QED
  BY <1>4, <1>5

(* What the client has read of the response, and whether it keeps it: the   *)
(* body of a redirect that is streamed is thrown away.                      *)
Taken(s) == IF s.c.stream THEN Len(Mine(s).body) + Len(Mine(s).buf) ELSE Len(s.c.parser.body)
Tracked(s) == s.c.stream /\ s.c.parser.st # "status" => Mine(s).resp # None

(* The connection brings the rest of the response the handler decided on.   *)
Relayed(s, S, K, T) ==
  s.c.socket # None /\ s.c.parser.st \in {"status", "body", "chunks"} /\ Tracked(s) =>
    LET l == s.c.socket  p == s.c.parser  flow(r) == Flow(S[l], K[l].out, l \in T, s.w[l], r) IN
    IF p.st = "status" THEN flow(0)
    ELSE flow(1 + Taken(s)) /\ ParserAt(p, S[l], Taken(s)) /\ (~s.c.stream => From(p.body, 0))

(* The same, while a piece that was read is dealt with.                     *)
Caught(s, S, K, T) ==
  /\ \A i \in Ids : Shown(s.h[i], S)
  /\ s.c.parser.st # "status"
  /\ s.c.parser.st \in {"body", "chunks", "done"} /\ Tracked(s) =>
       LET l == s.c.socket  p == s.c.parser  m == S[l] IN
       /\ m # None /\ p.status = m.head.status /\ (~s.c.stream => From(p.body, 0))
       /\ IF p.st = "done" THEN m.whole /\ Taken(s) = Len(m.body)
          ELSE Flow(m, K[l].out, l \in T, s.w[l], 1 + Taken(s)) /\ ParserAt(p, m, Taken(s))

LEMMA ShownAs ==
  ASSUME NEW S, NEW a, NEW b, Shown(a, S), b.resp = a.resp, b.status = a.status,
         b.body = a.body, b.buf = a.buf,
         b.result = "ok" => /\ b.phase = "done"
                            /\ b.resp # None =>
                                 /\ S[b.resp].whole
                                 /\ Len(b.body) + Len(b.buf) = Len(S[b.resp].body)
  PROVE  Shown(b, S)
<1>1. b.phase # "done" => b.result # "ok"
  OBVIOUS
<1>2. ASSUME b.resp # None
      PROVE  LET m == S[b.resp]  got == Len(b.body) + Len(b.buf) IN
             /\ m # None /\ m.head.status = b.status
             /\ From(b.body, 0) /\ From(b.buf, Len(b.body)) /\ got <= Len(m.body)
             /\ b.result = "ok" => m.whole /\ got = Len(m.body)
  BY <1>2 DEF Shown
<1>3. QED
  BY <1>1, <1>2 DEF Shown

(* A request that ends: what it shows is what it showed.                    *)
LEMMA EndShown ==
  ASSUME NEW s, Core(s), NEW S, \A i \in Ids : Shown(s.h[i], S),
         NEW res \in {"ok", "error", "dropped"},
         res = "ok" /\ Mine(s).resp # None =>
           /\ S[Mine(s).resp].whole
           /\ Len(Mine(s).body) + Len(Mine(s).buf) = Len(S[Mine(s).resp].body),
         NEW K, NEW T
  PROVE  LET r == Complete(s, res) IN
         Relayed(r, S, K, T) /\ \A i \in Ids : Shown(r.h[i], S)
<1>1. PICK i \in Ids : i = s.c.request
  BY DEF Core
<1>2. s \in State
  BY DEF Core
<1>3. PICK r : r = Complete(s, res)
  OBVIOUS
<1>4. /\ r.c = Idling(s.c.policy, Append(s.c.calls, "done"))
      /\ \A j \in Ids : j # i => r.h[j] = s.h[j]
  BY <1>1, <1>2, <1>3, Completes
<1>5. PICK b : b = Done(s.h[i], res)
  OBVIOUS
<1>6. /\ r.h[i] = b /\ b.phase = "done" /\ b.result = res
      /\ b.resp = s.h[i].resp /\ b.status = s.h[i].status /\ b.body = s.h[i].body
      /\ b.buf = s.h[i].buf
  BY <1>1, <1>2, <1>3, <1>5, Completes
<1>7. Shown(s.h[i], S) /\ Mine(s) = s.h[i]
  BY <1>1 DEF Mine
<1>8. Shown(b, S)
  BY <1>6, <1>7, ShownAs
<1>9. r.c.socket = None
  BY <1>4 DEF Idling, Idle
<1>10. QED
  BY <1>3, <1>4, <1>6, <1>8, <1>9 DEF Relayed

(* What is made of a piece that was caught.                                 *)
LEMMA ParsedReply ==
  ASSUME NEW s, Reading(s), NEW S, NEW K, NEW T, Caught(s, S, K, T), NEW r \in Parsed(s)
  PROVE  Relayed(r, S, K, T) /\ \A i \in Ids : Shown(r.h[i], S)
<1>1. Core(s) /\ s \in State /\ Assigned(s)
  BY DEF Reading, Core
<1>2. PICK i \in Ids : i = s.c.request /\ Mine(s) = s.h[i]
  BY <1>1 DEF Core, Mine
<1>3. \A j \in Ids : Shown(s.h[j], S)
  BY DEF Caught
<1>4. CASE r = s /\ s.c.parser.st \in {"status", "body", "chunks"}
  <2>1. s.c.parser.st \in {"body", "chunks"}
    BY <1>4 DEF Caught
  <2>2. Relayed(s, S, K, T)
    BY <2>1 DEF Caught, Relayed
  <2>3. QED
    BY <1>3, <1>4, <2>2
<1>5. CASE s.c.parser.st = "oversized" /\ r.h = s.h /\ r.c.parser = s.c.parser
  BY <1>3, <1>5 DEF Relayed
<1>6. CASE \E res \in {"error", "dropped"} : r = Complete(s, res)
  BY <1>1, <1>3, <1>6, EndShown
<1>7. CASE r = Complete(s, "ok") /\ s.c.stream /\ Mine(s).resp # None /\ s.c.parser.st = "done"
  <2>1. Mine(s).resp = s.c.socket
    BY <1>1, <1>7 DEF Assigned
  <2>2. S[s.c.socket].whole /\ Taken(s) = Len(S[s.c.socket].body)
    BY <1>7 DEF Caught, Tracked
  <2>3. S[Mine(s).resp].whole /\ Len(Mine(s).body) + Len(Mine(s).buf) = Len(S[Mine(s).resp].body)
    BY <1>7, <2>1, <2>2 DEF Taken
  <2>4. QED
    BY <1>1, <1>3, <1>7, <2>3, EndShown
<1>8. CASE /\ r = Complete(Whole(s), "ok") /\ ~s.c.stream /\ Mine(s).resp = None
           /\ s.c.parser.st = "done" /\ s.c.parser.status # None
  <2>1. PICK t : t = Whole(s)
    OBVIOUS
  <2>2. /\ Core(t) /\ t.c = s.c /\ Mine(t).resp = s.c.socket /\ Mine(t).status = s.c.parser.status
        /\ Mine(t).body = s.c.parser.body
    BY <1>8, <2>1, WholeCore
  <2>3. t.h[i].result = s.h[i].result /\ t.h[i].buf = s.h[i].buf /\ \A j \in Ids : j # i => t.h[j] = s.h[j]
    BY <1>2, <1>8, <2>1, WholeRest
  <2>4. Mine(t) = t.h[i]
    BY <1>2, <2>2 DEF Mine
  <2>5. s.h[i].buf = <<>>
    BY <1>1, <1>2, <1>8 DEF Core, HandleOK
  <2>6. PICK p, m : p \in Parser /\ p = s.c.parser /\ m = S[s.c.socket]
    BY DEF Reading, Sound
  <2>7. m # None /\ p.status = m.head.status /\ From(p.body, 0) /\ m.whole /\ Len(p.body) = Len(m.body)
    BY <1>8, <2>6 DEF Caught, Tracked, Taken
  <2>8. Len(p.body) \in Nat
    BY <2>6 DEF Parser
  <2>9. s.h[i].result # "ok"
    BY <1>1, <1>2, <1>3 DEF Core, Shown
  <2>10. Shown(t.h[i], S)
    <3>1. PICK b : b = t.h[i]
      OBVIOUS
    <3>2. b.resp = s.c.socket /\ b.status = p.status /\ b.body = p.body /\ b.buf = <<>> /\ b.result # "ok"
      BY <2>2, <2>3, <2>4, <2>5, <2>6, <2>9, <3>1
    <3>3. From(b.buf, Len(b.body))
      BY <3>2 DEF From
    <3>4. Len(b.body) + Len(b.buf) <= Len(m.body)
      BY <2>7, <2>8, <3>2
    <3>5. QED
      BY <2>6, <2>7, <3>1, <3>2, <3>3, <3>4 DEF Shown
  <2>11. \A j \in Ids : Shown(t.h[j], S)
    BY <1>3, <2>3, <2>10
  <2>12. S[Mine(t).resp].whole /\ Len(Mine(t).body) + Len(Mine(t).buf) = Len(S[Mine(t).resp].body)
    <3>1. PICK b : b = Mine(t)
      OBVIOUS
    <3>2. b.buf = <<>>
      BY <2>3, <2>4, <2>5, <3>1
    <3>3. b.resp = s.c.socket /\ b.body = p.body
      BY <2>2, <2>6, <3>1
    <3>4. Len(b.body) + Len(b.buf) = Len(m.body)
      BY <2>7, <2>8, <3>2, <3>3
    <3>5. QED
      BY <2>6, <2>7, <3>1, <3>3, <3>4
  <2>13. QED
    BY <1>8, <2>1, <2>2, <2>11, <2>12, EndShown
<1>9. CASE r = NextHop(s) /\ s.c.left > 0 /\ Unused # {}
  <2>1. PICK link \in Links : link = NextLink
    BY <1>9, NextLinkIn
  <2>2. r.c.socket = None /\ HopOn(r.h[i], s.h[i]) /\ \A j \in Ids : j # i => r.h[j] = s.h[j]
    BY <1>1, <1>2, <1>9, <2>1, NextHopIs
  <2>3. Shown(r.h[i], S)
    <3>1. PICK a, b : a = s.h[i] /\ b = r.h[i] /\ Shown(a, S)
      BY <1>3
    <3>2. /\ b.resp = a.resp /\ b.status = a.status /\ b.body = a.body /\ b.buf = a.buf
          /\ b.phase = a.phase /\ b.result = a.result
      BY <2>2, <3>1 DEF HopOn
    <3>3. b.result # "ok"
      BY <1>1, <1>2, <3>1, <3>2 DEF Core, Shown
    <3>4. QED
      BY <3>1, <3>2, <3>3, ShownAs
  <2>4. QED
    BY <1>3, <2>2, <2>3 DEF Relayed
<1>10. QED
  BY <1>4, <1>5, <1>6, <1>7, <1>8, <1>9, ParsedCases

(* A read takes the next piece.                                             *)
LEMMA FlowRead ==
  ASSUME NEW m, NEW out, NEW in, NEW x \in LinkRec, NEW y, x.down # <<>>,
         y.down = Tail(x.down), y.lost = x.lost, NEW r \in Nat, Flow(m, out, in, x, r)
  PROVE  m # None /\ IsPiece(m, r + 1, Head(x.down)) /\ Flow(m, out, in, y, r + 1)
<1>1. m # None
  BY DEF Flow
<1>2. PICK d \in Seq(ReplyPiece) : d = x.down
  BY DEF LinkRec
<1>3. PICK e : e = Tail(d)
  OBVIOUS
<1>4. /\ Len(d) > 0 /\ Len(e) = Len(d) - 1 /\ Head(d) = d[1] /\ Len(e) \in Nat
      /\ \A j \in 1..Len(e) : e[j] = d[j + 1]
  BY <1>2, <1>3, TailOf
<1>5. \A j \in 1..Len(d) : IsPiece(m, r + j, d[j])
  BY <1>1, <1>2 DEF Flow
<1>6. IsPiece(m, r + 1, Head(d))
  BY <1>4, <1>5
<1>7. ASSUME NEW j \in 1..Len(e) PROVE IsPiece(m, (r + 1) + j, e[j])
  <2>1. j + 1 \in 1..Len(d) /\ r + (j + 1) = (r + 1) + j
    BY <1>4
  <2>2. IsPiece(m, r + (j + 1), d[j + 1])
    BY <1>5, <2>1
  <2>3. QED
    BY <1>4, <2>1, <2>2
<1>8. (r + 1) + Len(e) = r + Len(d)
  BY <1>4
<1>9. ~x.lost => /\ \A j \in 1..Len(out) : IsPiece(m, r + Len(d) + j, out[j])
                 /\ in => Brought(m, r + Len(d) + Len(out))
  BY <1>1, <1>2 DEF Flow
<1>10. ~x.lost => /\ \A j \in 1..Len(out) : IsPiece(m, (r + 1) + Len(e) + j, out[j])
                  /\ in => Brought(m, (r + 1) + Len(e) + Len(out))
  BY <1>8, <1>9
<1>11. Flow(m, out, in, y, r + 1)
  BY <1>1, <1>2, <1>3, <1>7, <1>10 DEF Flow
<1>12. QED
  BY <1>1, <1>2, <1>6, <1>11

ReplyInv ==
  /\ Relayed(Now, said, conn, table)
  /\ \A i \in Ids : Shown(handles[i], said)

Replied(r) ==
  /\ Relayed(r, said, conn, table)
  /\ \A i \in Ids : Shown(r.h[i], said)

LEMMA CaughtIs ==
  ASSUME NEW s, NEW S, NEW K, NEW T, NEW l, l = s.c.socket, NEW q, q = s.c.parser, q.st # "status",
         NEW m, m = S[l], NEW t, t = Taken(s), \A i \in Ids : Shown(s.h[i], S),
         q.st \in {"body", "chunks", "done"} /\ Tracked(s) =>
           /\ m # None /\ q.status = m.head.status /\ (~s.c.stream => From(q.body, 0))
           /\ q.st = "done" => m.whole /\ t = Len(m.body)
           /\ q.st \in {"body", "chunks"} =>
                Flow(m, K[l].out, l \in T, s.w[l], 1 + t) /\ ParserAt(q, m, t)
  PROVE  Caught(s, S, K, T)
  BY DEF Caught

(* The request whose connection is read.                                    *)
LEMMA PieceIs ==
  ASSUME ClientOK, NEW piece \in ReplyPiece, NEW q, NEW f, NEW s, PieceRead(piece, q, f, s),
         NEW i \in Ids, i = client.request
  PROVE  /\ Core(f) /\ f.h = handles /\ f.c.parser = q /\ f.c.socket = client.socket
         /\ f.c.stream = client.stream /\ f.c.request = i /\ Mine(f) = handles[i]
         /\ Mine(Now) = handles[i] /\ handles[i] \in HandleRec /\ HandleOK(handles[i])
         /\ handles[i].phase = "pending" /\ client.socket # None
         /\ client.stream /\ client.parser.st # "status" /\ handles[i].resp = None => Redirected(f)
         /\ handles[i].resp # None => /\ client.stream /\ handles[i].resp = client.socket
                                      /\ handles[i].status = client.parser.status
         /\ client.parser.st = "status" => client.parser = NewParser /\ handles[i].resp = None
         /\ client.parser.st \in {"status", "body", "chunks"} /\ Sound(client.parser, client.stream)
         /\ client.stream \in BOOLEAN
<1>1. /\ Now.c = client /\ Now.h = handles /\ Receiving(Now) /\ Fed(f, Now, q) /\ Sound(q, client.stream)
      /\ q = Feed(client.parser, client.stream, piece)
  BY NowIs DEF PieceRead
<1>2. /\ client.stream \in BOOLEAN /\ Sound(client.parser, client.stream)
      /\ client.parser.st \in {"status", "body", "chunks"} /\ Busy(Now) /\ Core(Now)
  BY <1>1, ReceivingIs
<1>3. client.parser.st # "status" => q.st # "status" /\ q.status = client.parser.status
                                     /\ q.loc = client.parser.loc
  BY <1>1, <1>2, FeedSound
<1>4. /\ Core(f) /\ Mine(f) = Mine(Now) /\ f.c.socket # None
      /\ f.c.stream /\ client.parser.st # "status" /\ Mine(f).resp = None => Redirected(f)
  BY <1>1, <1>3, FedIs
<1>5. f.h = handles /\ f.c.parser = q /\ f.c.socket = client.socket
      /\ f.c.stream = client.stream /\ f.c.request = i
  BY <1>1 DEF Fed
<1>6. Mine(Now) = handles[i]
  BY <1>1 DEF Mine
<1>7. handles[i] \in HandleRec /\ HandleOK(handles[i]) /\ handles[i].phase = "pending"
  BY <1>1, <1>2, <1>6, NowIs DEF Core
<1>8. /\ handles[i].resp # None => client.stream /\ handles[i].resp = client.socket
                                   /\ handles[i].status = client.parser.status
      /\ client.parser.st = "status" => handles[i].resp = None
  BY <1>1, <1>2, <1>6 DEF Busy, Assigned, Parsing
<1>9. client.parser.st = "status" => client.parser = NewParser
  BY <1>2 DEF Sound
<1>10. QED
  BY <1>2, <1>4, <1>5, <1>6, <1>7, <1>8, <1>9

LEMMA Sums ==
  ASSUME NEW n \in Nat, NEW k \in Nat, NEW u \in Nat
  PROVE  n + k \in Nat /\ u + 1 \in Nat /\ (u = n + k => n + (k + 1) = u + 1)
  OBVIOUS

LEMMA SaidIs ==
  ASSUME SystemOK, Served, NEW l \in Links
  PROVE  /\ said[l] \in Saying \cup {None} /\ (said[l] # None => SayingOK(said[l]))
         /\ wire[l] \in LinkRec
<1>1. Serving(l \in table, wire[l].s, conn[l], said[l])
  BY DEF SystemOK, ServerInv
<1>2. said \in [Links -> Saying \cup {None}] /\ wire \in [Links -> LinkRec]
  BY NowIs DEF SystemOK, Wiring, ServerTyped
<1>3. QED
  BY <1>1, <1>2 DEF Serving

LEMMA UnitShown ==
  ASSUME NEW S, NEW a \in HandleRec, NEW b, Shown(a, S), a.resp # None, NEW u \in Nat,
         u = Len(a.body) + Len(a.buf), S[a.resp].body \in Seq(BodyPiece), u + 1 <= Len(S[a.resp].body),
         b.resp = a.resp, b.status = a.status, b.body = a.body, b.buf = Append(a.buf, Body(u + 1)),
         b.result # "ok"
  PROVE  Shown(b, S) /\ Len(b.body) + Len(b.buf) = u + 1
<1>1. PICK m, v : m = S[a.resp] /\ v = Body(u + 1)
  OBVIOUS
<1>2. m # None /\ m.head.status = a.status /\ From(a.body, 0) /\ From(a.buf, Len(a.body))
  BY <1>1 DEF Shown
<1>3. PICK c \in Seq(BodyPiece) : c = a.buf
  BY DEF HandleRec
<1>4. PICK n \in Nat : n = Len(a.body)
  BY DEF HandleRec
<1>5. PICK d : d = Append(c, v)
  OBVIOUS
<1>6. Len(d) = Len(c) + 1 /\ d[Len(c) + 1] = v /\ \A j \in 1..Len(c) : d[j] = c[j]
  BY <1>3, <1>5
<1>7. n + (Len(c) + 1) = u + 1 /\ Len(c) \in Nat
  <2>1. PICK k \in Nat : k = Len(c)
    BY <1>3
  <2>2. u = n + k
    BY <1>3, <1>4, <2>1
  <2>3. n + (k + 1) = u + 1
    BY <1>4, <2>1, <2>2, Sums
  <2>4. QED
    BY <2>1, <2>3
<1>8. \A j \in 1..Len(c) : c[j] = Body(n + j)
  BY <1>2, <1>3, <1>4 DEF From
<1>9. ASSUME NEW j \in 1..Len(d) PROVE d[j] = Body(n + j)
  <2>1. CASE j \in 1..Len(c)
    BY <1>6, <1>8, <2>1
  <2>2. CASE j = Len(c) + 1
    BY <1>1, <1>6, <1>7, <2>2
  <2>3. QED
    BY <1>6, <1>7, <2>1, <2>2
<1>10. b.buf = d /\ Len(b.body) = n
  BY <1>1, <1>3, <1>4, <1>5
<1>11. From(b.buf, Len(b.body))
  BY <1>9, <1>10 DEF From
<1>12. n + Len(d) = u + 1
  BY <1>6, <1>7
<1>13. Len(b.body) + Len(b.buf) <= Len(m.body)
  BY <1>1, <1>10, <1>12
<1>14. QED
  BY <1>1, <1>2, <1>10, <1>11, <1>12, <1>13 DEF Shown

(* The head of a response.                                                  *)
LEMMA PieceHead ==
  ASSUME SystemOK, Served, ReplyInv, NEW piece \in ReplyPiece, NEW q, NEW f, NEW s,
         PieceRead(piece, q, f, s), client.parser.st = "status"
  PROVE  Caught(s, said, conn, table)
<1>1. ClientOK
  BY DEF SystemOK, Wiring
<1>2. PICK i \in Ids : i = client.request
  BY ReceivingIs, NowIs, <1>1 DEF PieceRead, Core
<1>3. /\ Core(f) /\ f.h = handles /\ f.c.parser = q /\ f.c.socket = client.socket
      /\ f.c.stream = client.stream /\ f.c.request = i /\ Mine(f) = handles[i]
      /\ handles[i] \in HandleRec /\ HandleOK(handles[i]) /\ handles[i].phase = "pending"
      /\ client.parser = NewParser /\ handles[i].resp = None /\ client.stream \in BOOLEAN
  BY <1>1, <1>2, PieceIs
<1>4. PICK l \in Links : l = client.socket
  BY DEF PieceRead
<1>5. PICK x \in LinkRec : x = wire[l]
  BY SaidIs
<1>6. PICK y : y = f.w[l]
  OBVIOUS
<1>7. /\ x.down # <<>> /\ piece = Head(x.down) /\ y.down = Tail(x.down) /\ y.lost = x.lost
      /\ q = Feed(client.parser, client.stream, piece) /\ Sound(q, client.stream)
      /\ s = IF client.stream THEN Streamed(f, piece, Absorbs(client.parser, piece)) ELSE f
  <2>1. /\ Link.down # <<>> /\ piece = Head(Link.down) /\ f.w = [wire EXCEPT ![client.socket].down = Tail(Link.down)]
        /\ q = Feed(client.parser, client.stream, piece) /\ Sound(q, client.stream)
        /\ s = IF client.stream THEN Streamed(f, piece, Absorbs(client.parser, piece)) ELSE f
    BY DEF PieceRead
  <2>2. PICK rest : rest = Tail(Link.down)
    OBVIOUS
  <2>3. Link = x
    BY <1>4, <1>5 DEF Link
  <2>4. f.w = [wire EXCEPT ![l].down = rest] /\ wire \in [Links -> LinkRec]
    BY <1>1, <1>4, <2>1, <2>2, NowIs
  <2>5. y.down = rest /\ y.lost = x.lost
    BY <1>5, <1>6, <2>4, DownWired
  <2>6. QED
    BY <2>1, <2>2, <2>3, <2>5
<1>8. PICK m, out, in : m = said[l] /\ out = conn[l].out /\ in = (l \in table)
  OBVIOUS
<1>9. Flow(m, out, in, x, 0)
  <2>1. Tracked(Now) /\ Now.c = client /\ Now.w = wire /\ l # None
    BY <1>1, <1>3, NowIs, NoneNoLink DEF Tracked, NewParser
  <2>2. Relayed(Now, said, conn, table)
    BY DEF ReplyInv
  <2>3. QED
    BY <1>4, <1>5, <1>8, <2>1, <2>2 DEF Relayed
<1>10. m # None /\ IsPiece(m, 1, piece) /\ Flow(m, out, in, y, 1)
  <2>1. 0 \in Nat /\ 0 + 1 = 1
    OBVIOUS
  <2>2. QED
    BY <1>5, <1>7, <1>9, <2>1, FlowRead
<1>11. m \in Saying /\ SayingOK(m)
  BY <1>8, <1>10, SaidIs
<1>12. piece = m.head
  BY <1>10 DEF IsPiece
<1>13. /\ q.st \in {"body", "chunks", "done", "oversized"} /\ q.status = m.head.status /\ q.body = <<>>
       /\ q.st \in {"body", "chunks"} => ParserAt(q, m, 0)
       /\ q.st = "done" => m.whole /\ Len(m.body) = 0
  BY <1>3, <1>7, <1>11, <1>12, FeedHead
<1>14. \A j \in Ids : Shown(handles[j], said)
  BY DEF ReplyInv
<1>15. From(q.body, 0)
  BY <1>13 DEF From
<1>16. ASSUME s.c = f.c, s.w = f.w, \A j \in Ids : Shown(s.h[j], said), Tracked(s) => Taken(s) = 0
       PROVE  Caught(s, said, conn, table)
  <2>1. PICK t : t = Taken(s)
    OBVIOUS
  <2>2. l = s.c.socket /\ q = s.c.parser
    BY <1>3, <1>4, <1>16
  <2>3. ASSUME Tracked(s)
        PROVE  /\ q.st = "done" => m.whole /\ t = Len(m.body)
               /\ q.st \in {"body", "chunks"} => Flow(m, conn[l].out, l \in table, s.w[l], 1 + t) /\ ParserAt(q, m, t)
    <3>1. t = 0 /\ 1 + t = 1
      BY <1>16, <2>1, <2>3
    <3>2. Flow(m, conn[l].out, l \in table, s.w[l], 1 + t)
      BY <1>6, <1>8, <1>10, <1>16, <3>1
    <3>3. QED
      BY <1>13, <3>1, <3>2
  <2>4. q.st # "status"
    BY <1>13
  <2>5. QED
    BY <1>8, <1>10, <1>13, <1>15, <1>16, <2>1, <2>2, <2>3, <2>4, CaughtIs
<1>17. CASE ~client.stream
  <2>1. s = f
    BY <1>7, <1>17
  <2>2. Taken(s) = 0
    BY <1>3, <1>13, <1>17, <2>1 DEF Taken
  <2>3. QED
    BY <1>3, <1>14, <1>16, <2>1, <2>2
<1>18. CASE client.stream
  <2>0. PICK absorbed \in BOOLEAN : absorbed = Absorbs(client.parser, piece)
    BY DEF Absorbs
  <2>1. \/ s = f /\ (f.c.parser.st \in {"status", "error"} \/ Redirected(f))
        \/ s = Publish(f)
    <3>1. f.c.parser \in Parser /\ s = Streamed(f, piece, absorbed)
      BY <1>3, <1>7, <1>18, <2>0 DEF Sound
    <3>2. QED
      BY <1>3, <3>1, StreamedCases
  <2>2. CASE s = f
    <3>1. Mine(s).resp = None /\ s.c.stream /\ s.c.parser.st # "status"
      BY <1>3, <1>13, <1>18, <2>2
    <3>2. ~Tracked(s)
      BY <3>1 DEF Tracked
    <3>3. QED
      BY <1>3, <1>14, <1>16, <2>2, <3>2
  <2>3. CASE s = Publish(f)
    <3>1. q \in Parser /\ q.status # None
      BY <1>7, <1>13 DEF Sound
    <3>2. f \in State
      BY <1>3 DEF Core
    <3>3. /\ s.w = f.w /\ s.c = f.c /\ \A j \in Ids : j # i => s.h[j] = f.h[j]
          /\ s.h[i].resp = l /\ s.h[i].status = q.status /\ s.h[i].result = f.h[i].result
          /\ s.h[i].body = f.h[i].body /\ s.h[i].buf = f.h[i].buf
      BY <1>3, <1>4, <2>3, <3>1, <3>2, Publishes
    <3>4. PICK b : b = s.h[i]
      OBVIOUS
    <3>5. b.body = <<>> /\ b.buf = <<>> /\ b.resp = l /\ b.status = m.head.status
      BY <1>3, <1>13, <3>3, <3>4 DEF HandleOK
    <3>6. b.result # "ok"
      BY <1>3, <1>14, <3>3, <3>4 DEF Shown
    <3>7. Len(b.body) = 0 /\ Len(b.buf) = 0 /\ From(b.body, 0) /\ From(b.buf, Len(b.body))
      BY <3>5 DEF From
    <3>8. Len(m.body) \in Nat
      BY <1>11 DEF Saying
    <3>9. Len(b.body) + Len(b.buf) = 0 /\ 0 <= Len(m.body)
      BY <3>7, <3>8
    <3>10. Shown(b, said)
      BY <1>8, <1>10, <3>5, <3>6, <3>7, <3>9 DEF Shown
    <3>11. \A j \in Ids : Shown(s.h[j], said)
      BY <1>3, <1>14, <3>3, <3>4, <3>10
    <3>12. Mine(s) = b /\ s.c.stream
      BY <1>3, <1>18, <3>3, <3>4 DEF Mine
    <3>13. Taken(s) = 0
      BY <3>9, <3>12 DEF Taken
    <3>14. QED
      BY <1>16, <3>3, <3>11, <3>13
  <2>4. QED
    BY <2>1, <2>2, <2>3
<1>19. QED
  BY <1>3, <1>17, <1>18

(* A piece of the body of a redirect that is streamed.                      *)
LEMMA PieceSkipped ==
  ASSUME SystemOK, Served, ReplyInv, NEW piece \in ReplyPiece, NEW q, NEW f, NEW s,
         PieceRead(piece, q, f, s), client.parser.st # "status", ~Tracked(Now)
  PROVE  Caught(s, said, conn, table)
<1>1. ClientOK /\ Now.c = client /\ Now.h = handles
  BY NowIs DEF SystemOK, Wiring
<1>2. PICK i \in Ids : i = client.request
  BY ReceivingIs, NowIs, <1>1 DEF PieceRead, Core
<1>3. /\ Core(f) /\ f.h = handles /\ f.c.parser = q /\ f.c.socket = client.socket
      /\ f.c.stream = client.stream /\ f.c.request = i /\ Mine(f) = handles[i] /\ Mine(Now) = handles[i]
      /\ client.stream /\ client.parser.st # "status" /\ handles[i].resp = None => Redirected(f)
      /\ client.parser.st \in {"status", "body", "chunks"} /\ Sound(client.parser, client.stream)
      /\ client.stream \in BOOLEAN
  BY <1>1, <1>2, PieceIs
<1>4. client.stream /\ handles[i].resp = None
  BY <1>1, <1>3 DEF Tracked
<1>5. /\ q = Feed(client.parser, client.stream, piece) /\ Sound(q, client.stream)
      /\ s = Streamed(f, piece, Absorbs(client.parser, piece))
  BY <1>4 DEF PieceRead
<1>6. q.st # "status" /\ q \in Parser
  BY <1>3, <1>5, FeedSound DEF Sound
<1>7. s = f
  <2>1. PICK absorbed \in BOOLEAN : absorbed = Absorbs(client.parser, piece)
    BY DEF Absorbs
  <2>2. QED
    BY <1>3, <1>4, <1>5, <1>6, <2>1, StreamedCases
<1>8. s.c.stream /\ s.c.parser.st # "status" /\ Mine(s).resp = None
  BY <1>3, <1>4, <1>6, <1>7
<1>9. \A j \in Ids : Shown(s.h[j], said)
  BY <1>3, <1>7 DEF ReplyInv
<1>10. QED
  BY <1>8, <1>9 DEF Caught, Tracked

(* A piece of the body that the client keeps.                               *)
LEMMA PieceBody ==
  ASSUME SystemOK, Served, ReplyInv, NEW piece \in ReplyPiece, NEW q, NEW f, NEW s,
         PieceRead(piece, q, f, s), client.parser.st # "status", Tracked(Now)
  PROVE  Caught(s, said, conn, table)
<1>1. ClientOK /\ Now.c = client /\ Now.h = handles /\ Now.w = wire
  BY NowIs DEF SystemOK, Wiring
<1>2. PICK i \in Ids : i = client.request
  BY ReceivingIs, NowIs, <1>1 DEF PieceRead, Core
<1>3. /\ Core(f) /\ f.h = handles /\ f.c.parser = q /\ f.c.socket = client.socket
      /\ f.c.stream = client.stream /\ f.c.request = i /\ Mine(f) = handles[i]
      /\ Mine(Now) = handles[i] /\ handles[i] \in HandleRec /\ HandleOK(handles[i])
      /\ handles[i].phase = "pending" /\ client.socket # None
      /\ handles[i].resp # None => client.stream /\ handles[i].resp = client.socket
      /\ client.parser.st \in {"status", "body", "chunks"} /\ Sound(client.parser, client.stream)
      /\ client.stream \in BOOLEAN
  BY <1>1, <1>2, PieceIs
<1>4. PICK l \in Links : l = client.socket
  BY DEF PieceRead
<1>5. PICK x \in LinkRec : x = wire[l]
  BY SaidIs
<1>6. PICK y : y = f.w[l]
  OBVIOUS
<1>7. /\ x.down # <<>> /\ piece = Head(x.down) /\ y.down = Tail(x.down) /\ y.lost = x.lost
      /\ q = Feed(client.parser, client.stream, piece) /\ Sound(q, client.stream)
      /\ s = IF client.stream THEN Streamed(f, piece, Absorbs(client.parser, piece)) ELSE f
  <2>1. /\ Link.down # <<>> /\ piece = Head(Link.down) /\ f.w = [wire EXCEPT ![client.socket].down = Tail(Link.down)]
        /\ q = Feed(client.parser, client.stream, piece) /\ Sound(q, client.stream)
        /\ s = IF client.stream THEN Streamed(f, piece, Absorbs(client.parser, piece)) ELSE f
    BY DEF PieceRead
  <2>2. PICK rest : rest = Tail(Link.down)
    OBVIOUS
  <2>3. Link = x
    BY <1>4, <1>5 DEF Link
  <2>4. f.w = [wire EXCEPT ![l].down = rest] /\ wire \in [Links -> LinkRec]
    BY <1>1, <1>4, <2>1, <2>2, NowIs
  <2>5. y.down = rest /\ y.lost = x.lost
    BY <1>5, <1>6, <2>4, DownWired
  <2>6. QED
    BY <2>1, <2>2, <2>3, <2>5
<1>8. PICK m, out, in : m = said[l] /\ out = conn[l].out /\ in = (l \in table)
  OBVIOUS
<1>9. PICK p \in Parser : p = client.parser /\ p.st \in {"body", "chunks"} /\ Sound(p, client.stream)
  BY <1>3 DEF Sound
<1>10. PICK u \in Nat : u = Taken(Now)
  <2>1. Len(handles[i].body) \in Nat /\ Len(handles[i].buf) \in Nat
    BY <1>3 DEF HandleRec
  <2>2. Len(p.body) \in Nat
    BY DEF Parser
  <2>3. Taken(Now) \in Nat
    <3>1. Len(handles[i].body) + Len(handles[i].buf) \in Nat
      BY <2>1, Sums
    <3>2. Taken(Now) = IF client.stream THEN Len(handles[i].body) + Len(handles[i].buf) ELSE Len(p.body)
      BY <1>1, <1>3, <1>9 DEF Taken
    <3>3. QED
      BY <2>2, <3>1, <3>2
  <2>4. QED
    BY <2>3
<1>11. Flow(m, out, in, x, 1 + u) /\ ParserAt(p, m, u) /\ (~client.stream => From(p.body, 0))
  <2>1. Relayed(Now, said, conn, table)
    BY DEF ReplyInv
  <2>2. QED
    BY <1>1, <1>3, <1>4, <1>5, <1>8, <1>9, <1>10, <2>1 DEF Relayed
<1>12. m # None /\ IsPiece(m, 2 + u, piece) /\ Flow(m, out, in, y, 2 + u)
  <2>1. 1 + u \in Nat /\ (1 + u) + 1 = 2 + u
    OBVIOUS
  <2>2. QED
    BY <1>5, <1>7, <1>11, <2>1, FlowRead
<1>13. m \in Saying /\ SayingOK(m) /\ m.body \in Seq(BodyPiece)
  BY <1>8, <1>12, SaidIs DEF Saying
<1>14. \/ piece = Body(u + 1) /\ u + 1 <= Len(m.body)
       \/ piece = Last /\ p.st = "chunks" /\ m.whole /\ u = Len(m.body)
  BY <1>9, <1>11, <1>12, <1>13, NextPiece
<1>15. \A j \in Ids : Shown(handles[j], said)
  BY DEF ReplyInv
<1>16. ~client.stream => Len(p.body) = u
  BY <1>1, <1>9, <1>10 DEF Taken
<1>17. p.status = m.head.status
  BY <1>11 DEF ParserAt
<1>18. ASSUME s.c = f.c, s.w = f.w, \A j \in Ids : Shown(s.h[j], said), NEW t \in Nat, t = Taken(s),
              q.st \in {"body", "chunks", "done", "oversized"} /\ q.status = p.status,
              q.st \in {"body", "chunks"} => ParserAt(q, m, t) /\ t = u + 1,
              q.st = "done" => m.whole /\ Len(m.body) = t,
              q.st # "oversized" /\ ~client.stream => From(q.body, 0)
       PROVE  Caught(s, said, conn, table)
  <2>1. l = s.c.socket /\ q = s.c.parser /\ s.c.stream = client.stream /\ q.st # "status"
    BY <1>3, <1>4, <1>18
  <2>2. ASSUME q.st \in {"body", "chunks"}
        PROVE  Flow(m, conn[l].out, l \in table, s.w[l], 1 + t) /\ ParserAt(q, m, t)
    <3>1. 1 + t = 2 + u
      BY <1>18, <2>2
    <3>2. QED
      BY <1>6, <1>8, <1>12, <1>18, <2>2, <3>1
  <2>3. QED
    BY <1>8, <1>12, <1>17, <1>18, <2>1, <2>2, CaughtIs
<1>19. CASE piece = Body(u + 1) /\ u + 1 <= Len(m.body)
  <2>1. /\ q.st \in {"body", "chunks", "done", "oversized"} /\ q.status = p.status
        /\ q.st \in {"body", "chunks"} => ParserAt(q, m, u + 1)
        /\ q.st = "done" => m.whole /\ Len(m.body) = u + 1
        /\ q.st # "oversized" /\ ~client.stream => Len(q.body) = u + 1 /\ From(q.body, 0)
    BY <1>3, <1>7, <1>9, <1>11, <1>13, <1>16, <1>19, FeedUnit
  <2>2. CASE ~client.stream
    <3>1. s = f
      BY <1>7, <2>2
    <3>2. CASE q.st = "oversized"
      BY <1>3, <1>15, <3>1, <3>2 DEF Caught
    <3>3. CASE q.st # "oversized"
      <4>1. Taken(s) = Len(q.body) /\ u + 1 \in Nat
        BY <1>3, <1>10, <2>2, <3>1, Sums DEF Taken
      <4>2. QED
        BY <1>3, <1>15, <1>18, <2>1, <2>2, <3>1, <3>3, <4>1
    <3>4. QED
      BY <3>2, <3>3
  <2>3. CASE client.stream
    <3>1. handles[i].resp = l /\ l # None
      BY <1>1, <1>3, <1>4, <1>9, <2>3, NoneNoLink DEF Tracked
    <3>2. piece.op = "body" /\ Unit(piece) = Body(u + 1)
      BY <1>19 DEF Body, Unit
    <3>3. Absorbs(client.parser, piece)
      BY <1>9, <3>2 DEF Absorbs
    <3>4. s = Staged(f, piece)
      BY <1>3, <1>7, <2>3, <3>1, <3>3 DEF Streamed, Staged
    <3>5. Mine(f).fill < StreamBuffer
      BY <1>3, <2>3 DEF PieceRead
    <3>6. /\ s.c = f.c /\ s.w = f.w
          /\ Mine(s).resp = handles[i].resp /\ Mine(s).status = handles[i].status
          /\ Mine(s).body = handles[i].body /\ Mine(s).buf = Append(handles[i].buf, Body(u + 1))
          /\ Mine(s).result = handles[i].result
          /\ \A j \in Ids : j # i => s.h[j] = f.h[j]
      BY <1>3, <3>1, <3>2, <3>4, <3>5, StagedIs
    <3>7. handles[i].result # "ok" /\ Shown(handles[i], said)
      BY <1>3, <1>15 DEF Shown
    <3>8. u = Len(handles[i].body) + Len(handles[i].buf)
      BY <1>1, <1>3, <1>10, <2>3 DEF Taken
    <3>9. PICK b : b = Mine(s) /\ b = s.h[i]
      BY <1>3, <3>6 DEF Mine
    <3>10. Shown(b, said) /\ Len(b.body) + Len(b.buf) = u + 1
      <4>1. PICK a \in HandleRec : a = handles[i]
        BY <1>3
      <4>2. /\ b.resp = a.resp /\ b.status = a.status /\ b.body = a.body
            /\ b.buf = Append(a.buf, Body(u + 1)) /\ b.result # "ok"
        BY <3>6, <3>7, <3>9, <4>1
      <4>3. a.resp # None /\ said[a.resp] = m
        BY <1>8, <3>1, <4>1
      <4>4. Shown(a, said) /\ u = Len(a.body) + Len(a.buf)
        BY <3>7, <3>8, <4>1
      <4>5. QED
        BY <1>13, <1>19, <4>2, <4>3, <4>4, UnitShown
    <3>11. \A j \in Ids : Shown(s.h[j], said)
      BY <1>3, <1>15, <3>6, <3>9, <3>10
    <3>12. Taken(s) = u + 1 /\ u + 1 \in Nat
      <4>1. s.c.stream
        BY <1>3, <2>3, <3>6
      <4>2. Taken(s) = Len(b.body) + Len(b.buf)
        BY <3>9, <4>1 DEF Taken
      <4>3. QED
        BY <1>10, <3>10, <4>2, Sums
    <3>13. QED
      BY <1>18, <2>1, <2>3, <3>6, <3>11, <3>12
  <2>4. QED
    BY <1>3, <2>2, <2>3
<1>20. CASE piece = Last /\ p.st = "chunks" /\ m.whole /\ u = Len(m.body)
  <2>1. q.st = "done" /\ q.status = p.status /\ q.body = p.body
    BY <1>7, <1>9, <1>20, FeedLast
  <2>2. s = f
    <3>1. CASE ~client.stream
      BY <1>7, <3>1
    <3>2. CASE client.stream
      <4>1. ~Absorbs(client.parser, piece)
        BY <1>9, <1>20 DEF Absorbs, Last
      <4>2. handles[i].resp # None
        BY <1>1, <1>3, <1>9, <3>2 DEF Tracked
      <4>3. QED
        BY <1>3, <1>7, <3>2, <4>1, <4>2 DEF Streamed
    <3>3. QED
      BY <1>3, <3>1, <3>2
  <2>3. Taken(s) = u
    <3>1. CASE ~client.stream
      BY <1>3, <1>16, <2>1, <2>2, <3>1 DEF Taken
    <3>2. CASE client.stream
      BY <1>1, <1>3, <1>10, <2>2, <3>2 DEF Taken
    <3>3. QED
      BY <1>3, <3>1, <3>2
  <2>4. QED
    BY <1>3, <1>11, <1>15, <1>18, <1>20, <2>1, <2>2, <2>3
<1>21. QED
  BY <1>14, <1>19, <1>20

LEMMA PieceCaught ==
  ASSUME SystemOK, Served, ReplyInv, NEW piece \in ReplyPiece, NEW q, NEW f, NEW s,
         PieceRead(piece, q, f, s)
  PROVE  Caught(s, said, conn, table)
  BY PieceHead, PieceSkipped, PieceBody

LEMMA RelayedAs ==
  ASSUME NEW s, NEW r, NEW S, NEW K, NEW T, Relayed(s, S, K, T), r.c.socket = s.c.socket,
         r.c.parser = s.c.parser, r.c.stream = s.c.stream, Tracked(r) => Tracked(s),
         Taken(r) = Taken(s),
         s.c.socket # None => /\ r.w[s.c.socket].down = s.w[s.c.socket].down
                              /\ r.w[s.c.socket].lost = s.w[s.c.socket].lost
  PROVE  Relayed(r, S, K, T)
<1>1. ASSUME s.c.socket # None, NEW m, NEW out, NEW in, NEW n, Flow(m, out, in, s.w[s.c.socket], n)
      PROVE  Flow(m, out, in, r.w[s.c.socket], n)
  BY <1>1 DEF Flow
<1>2. QED
  BY <1>1 DEF Relayed

(* The steps of the client.                                                 *)
LEMMA ReceivePieceReplies ==
  ASSUME SystemOK, Served, ReplyInv, ReceivePiece
  PROVE  Replied(Now')
<1>1. ClientOK
  BY DEF SystemOK, Wiring
<1>2. PICK piece, q, f, s :
        piece \in ReplyPiece /\ PieceRead(piece, q, f, s) /\ \E r \in Parsed(s) : Becomes(r)
  BY <1>1, ReceivePieceIs
<1>3. PICK r \in Parsed(s) : Becomes(r)
  BY <1>2
<1>4. Reading(s)
  BY <1>2 DEF PieceRead
<1>5. Caught(s, said, conn, table)
  BY <1>2, PieceCaught
<1>6. Replied(r)
  BY <1>3, <1>4, <1>5, ParsedReply DEF Replied
<1>7. Now' = r
  BY <1>3, <1>4, ParsedInv, BecomesIs
<1>8. QED
  BY <1>6, <1>7

(* The end of the connection never completes a body that was not complete:  *)
(* both framings the server uses say where the body ends.                   *)
LEMMA ReceiveEndReplies ==
  ASSUME SystemOK, Served, ReplyInv, ReceiveEnd
  PROVE  Replied(Now')
<1>1. ClientOK /\ Now.c = client /\ Now.h = handles
  BY NowIs DEF SystemOK, Wiring
<1>2. PICK q, f : EndRead(q, f) /\ \E r \in Parsed(f) : Becomes(r)
  BY <1>1, ReceiveEndIs
<1>3. PICK r \in Parsed(f) : Becomes(r)
  BY <1>2
<1>4. Fed(f, Now, q) /\ Reading(f) /\ Receiving(Now) /\ q = FeedEof(client.parser)
      /\ client.socket \in Links
  BY <1>2 DEF EndRead
<1>5. client.stream \in BOOLEAN /\ Sound(client.parser, client.stream)
      /\ client.parser.st \in {"status", "body", "chunks"}
  BY <1>1, <1>4, ReceivingIs
<1>6. q.st \in {"done", "error"} /\ (q.st = "done" => client.parser.st = "body" /\ client.parser.left = None)
  BY <1>4, <1>5, FeedEofSound
<1>7. f.c.parser = q /\ f.h = handles /\ f.c.stream = client.stream /\ Mine(f) = Mine(Now)
  BY <1>1, <1>4 DEF Fed, Mine
<1>8. ~(q.st = "done" /\ Tracked(f))
  <2>1. SUFFICES ASSUME q.st = "done", Tracked(f) PROVE FALSE
    OBVIOUS
  <2>2. client.parser.st = "body" /\ client.parser.left = None
    BY <1>6, <2>1
  <2>3. Tracked(Now)
    BY <1>1, <1>7, <2>1 DEF Tracked
  <2>4. client.socket # None
    BY <1>4, NoneNoLink
  <2>5. ParserAt(client.parser, said[client.socket], Taken(Now))
    BY <1>1, <2>2, <2>3, <2>4 DEF ReplyInv, Relayed
  <2>6. QED
    BY <2>2, <2>5 DEF ParserAt
<1>9. Caught(f, said, conn, table)
  BY <1>6, <1>7, <1>8 DEF Caught, ReplyInv
<1>10. Replied(r)
  BY <1>3, <1>4, <1>9, ParsedReply DEF Replied
<1>11. Now' = r
  BY <1>3, <1>4, ParsedInv, BecomesIs
<1>12. QED
  BY <1>10, <1>11

LEMMA EndReplies ==
  ASSUME NEW s, Core(s), \A i \in Ids : Shown(s.h[i], said), NEW res \in {"error", "dropped"},
         Becomes(Complete(s, res))
  PROVE  Replied(Now')
<1>1. PICK r : r = Complete(s, res)
  OBVIOUS
<1>2. r \in State
  BY <1>1, CompleteInv
<1>3. Replied(r)
  BY <1>1, EndShown DEF Replied
<1>4. QED
  BY <1>1, <1>2, <1>3, BecomesIs

LEMMA FailsReplies ==
  ASSUME ClientOK, ReplyInv, client.state # "idle", Becomes(Fail(Now))
  PROVE  Replied(Now')
<1>1. Core(Now) /\ Now.h = handles
  BY BusyNow, NowIs
<1>2. \A i \in Ids : Shown(Now.h[i], said)
  BY <1>1 DEF ReplyInv
<1>3. QED
  BY <1>1, <1>2, EndReplies DEF Fail

LEMMA ConnectorFailsReplies ==
  ASSUME ClientOK, ReplyInv, ConnectorFails
  PROVE  Replied(Now')
<1>1. /\ Now.c = client /\ Now.h = handles /\ Now.w = wire
      /\ client \in ClientRec /\ handles \in [Ids -> HandleRec] /\ wire \in [Links -> LinkRec]
      /\ client.state = "awaiting" /\ client.state # "idle"
  BY NowIs DEF ConnectorFails
<1>2. Core(Now) /\ Busy(Now)
  BY <1>1, BusyNow
<1>3. PICK k \in Links : k = client.connector
  BY <1>1, <1>2 DEF Busy, Transport, ClientRec
<1>4. PICK s : s = [Now EXCEPT !.w[client.connector].c = "closed", !.c.connector = None]
  OBVIOUS
<1>5. PICK c, w : c = [client EXCEPT !.connector = None] /\ w = [wire EXCEPT ![k].c = "closed"]
  OBVIOUS
<1>6. c \in ClientRec /\ c.request = client.request
  BY <1>1, <1>5 DEF ClientRec
<1>7. w \in [Links -> LinkRec]
  <2>1. w = [wire EXCEPT ![k] = [wire[k] EXCEPT !.c = "closed"]]
    BY <1>1, <1>5
  <2>2. [wire[k] EXCEPT !.c = "closed"] \in LinkRec
    BY <1>1 DEF LinkRec
  <2>3. QED
    BY <1>1, <2>1, <2>2
<1>8. s.c = c /\ s.h = handles /\ s.w = w /\ s \in [c : {s.c}, h : {s.h}, w : {s.w}]
  BY <1>3, <1>4, <1>5 DEF Now
<1>9. s \in State
  BY <1>1, <1>6, <1>7, <1>8 DEF State
<1>10. Core(s)
  BY <1>1, <1>2, <1>6, <1>8, <1>9 DEF Core, Mine
<1>11. \A i \in Ids : Shown(s.h[i], said)
  BY <1>8 DEF ReplyInv
<1>12. Becomes(Complete(s, "error"))
  BY <1>4 DEF ConnectorFails, Fail
<1>13. QED
  BY <1>10, <1>11, <1>12, EndReplies

(* A new connection: nothing was said on it.                                *)
LEMMA ConnectorReadyReplies ==
  ASSUME SystemOK, Served, ReplyInv, ConnectorReady
  PROVE  Replied(Now')
<1>1. /\ ClientOK /\ FreshLinks(wire)
      /\ Now.c = client /\ Now.h = handles /\ Now.w = wire
      /\ client \in ClientRec /\ handles \in [Ids -> HandleRec] /\ wire \in [Links -> LinkRec]
      /\ client.state = "awaiting" /\ client.state # "idle"
  BY NowIs DEF ConnectorReady, SystemOK, Wiring
<1>2. Core(Now) /\ Busy(Now)
  BY <1>1, BusyNow
<1>3. PICK k \in Links : k = client.connector
  BY <1>1, <1>2 DEF Busy, Transport, ClientRec
<1>4. PICK w : w = [wire EXCEPT ![k].c = "up", ![k].s = "backlog"]
  OBVIOUS
<1>5. w[k].down = wire[k].down
  <2>1. w = [wire EXCEPT ![k] = [wire[k] EXCEPT !.c = "up", !.s = "backlog"]]
    BY <1>1, <1>4
  <2>2. wire[k] \in LinkRec
    BY <1>1
  <2>3. QED
    BY <1>1, <2>1, <2>2 DEF LinkRec
<1>6. /\ wire' = w /\ handles' = handles
      /\ client' = [client EXCEPT !.socket = k, !.connector = None, !.state = "sending"]
  BY <1>3, <1>4 DEF ConnectorReady, Becomes, Now
<1>7. client'.socket = k /\ client'.parser = client.parser
  BY <1>1, <1>6 DEF ClientRec
<1>8. Now'.c = client' /\ Now'.h = handles /\ Now'.w = w
  BY <1>6 DEF Now
<1>9. wire[k].s = "none" /\ wire[k].down = <<>>
  <2>1. client.connector # None
    BY <1>1, <1>2 DEF Busy, Transport
  <2>2. client.state # "idle" /\ Asked
    BY <1>1 DEF SystemOK, Wiring
  <2>3. wire[k].c = "dialling"
    BY <1>1, <1>3, <2>1, <2>2 DEF Opened, SystemOK, Wiring
  <2>4. QED
    BY <1>1, <2>3 DEF FreshLinks, NewLink
<1>10. said[k] = None
  <2>1. Serving(k \in table, wire[k].s, conn[k], said[k])
    BY DEF SystemOK, ServerInv
  <2>2. QED
    BY <1>9, <2>1 DEF Serving
<1>11. client.parser.st = "status"
  BY <1>1, <1>2 DEF Busy, Parsing, NewParser
<1>12. Flow(said[k], conn[k].out, k \in table, w[k], 0)
  BY <1>5, <1>9, <1>10 DEF Flow
<1>13. Relayed(Now', said, conn, table)
  BY <1>7, <1>8, <1>11, <1>12 DEF Relayed
<1>14. QED
  BY <1>8, <1>13 DEF Replied, ReplyInv

LEMMA SendReplies ==
  ASSUME ClientOK, ReplyInv, ClientSend
  PROVE  Replied(Now')
<1>1. /\ Now.c = client /\ Now.h = handles /\ Now.w = wire
      /\ client \in ClientRec /\ handles \in [Ids -> HandleRec] /\ wire \in [Links -> LinkRec]
      /\ client.state = "sending" /\ client.state # "idle"
  BY NowIs DEF ClientSend
<1>2. Core(Now) /\ Busy(Now)
  BY <1>1, BusyNow
<1>3. PICK k \in Links : k = client.socket
  BY <1>1, <1>2 DEF Busy, Transport, ClientRec
<1>4. CASE Becomes(Fail(Now))
  BY <1>1, <1>4, FailsReplies
<1>5. CASE Becomes([Now EXCEPT
             !.c.tx = Tail(@),
             !.c.state = IF Len(client.tx) = 1 THEN "receiving" ELSE @,
             !.w[client.socket].up = IF Link.s = "closed" THEN @ ELSE Append(@, Head(client.tx))])
  <2>1. PICK up : up = IF Link.s = "closed" THEN wire[k].up ELSE Append(wire[k].up, Head(client.tx))
    OBVIOUS
  <2>2. PICK w : w = [wire EXCEPT ![k].up = up]
    OBVIOUS
  <2>3. w[k].down = wire[k].down /\ w[k].lost = wire[k].lost
    <3>1. w = [wire EXCEPT ![k] = [wire[k] EXCEPT !.up = up]]
      BY <1>1, <2>2
    <3>2. wire[k] \in LinkRec
      BY <1>1
    <3>3. QED
      BY <1>1, <3>1, <3>2 DEF LinkRec
  <2>4. wire' = w /\ handles' = handles
    BY <1>1, <1>3, <1>5, <2>1, <2>2 DEF Becomes, Now
  <2>5. client' = [client EXCEPT !.tx = Tail(client.tx),
                                 !.state = IF Len(client.tx) = 1 THEN "receiving" ELSE client.state]
    BY <1>5 DEF Becomes, Now
  <2>6. /\ client'.socket = client.socket /\ client'.parser = client.parser
        /\ client'.stream = client.stream /\ client'.request = client.request
    BY <1>1, <2>5 DEF ClientRec
  <2>7. Now'.c = client' /\ Now'.h = handles /\ Now'.w = w
    BY <2>4 DEF Now
  <2>8. PICK s, r : s = Now /\ r = Now'
    OBVIOUS
  <2>9. /\ r.c.socket = s.c.socket /\ r.c.parser = s.c.parser /\ r.c.stream = s.c.stream
        /\ Mine(r) = Mine(s)
    BY <1>1, <2>6, <2>7, <2>8 DEF Mine
  <2>10. (Tracked(r) => Tracked(s)) /\ Taken(r) = Taken(s)
    BY <2>9 DEF Tracked, Taken
  <2>11. r.w[s.c.socket].down = s.w[s.c.socket].down /\ r.w[s.c.socket].lost = s.w[s.c.socket].lost
    BY <1>1, <1>3, <2>3, <2>7, <2>8
  <2>12. Relayed(s, said, conn, table)
    BY <2>8 DEF ReplyInv
  <2>13. Relayed(r, said, conn, table)
    BY <2>9, <2>10, <2>11, <2>12, RelayedAs
  <2>14. \A i \in Ids : Shown(r.h[i], said)
    BY <2>7, <2>8 DEF ReplyInv
  <2>15. QED
    BY <2>8, <2>13, <2>14 DEF Replied
<1>6. QED
  BY <1>4, <1>5 DEF ClientSend

LEMMA Split ==
  ASSUME NEW a \in Seq(BodyPiece), NEW c \in Seq(BodyPiece), NEW n \in 1..Len(c),
         From(a, 0), From(c, Len(a))
  PROVE  \A d, e : /\ d = a \o SubSeq(c, 1, n)
                   /\ e = SubSeq(c, n + 1, Len(c))
                   => From(d, 0) /\ From(e, Len(d)) /\ Len(d) + Len(e) = Len(a) + Len(c)
<1>0. SUFFICES ASSUME NEW d, NEW e, d = a \o SubSeq(c, 1, n), e = SubSeq(c, n + 1, Len(c))
               PROVE  From(d, 0) /\ From(e, Len(d)) /\ Len(d) + Len(e) = Len(a) + Len(c)
  OBVIOUS
<1>1. PICK x \in Nat, y \in Nat : x = Len(a) /\ y = Len(c)
  OBVIOUS
<1>2. n \in Nat /\ 1 <= n /\ n <= y
  BY <1>1
<1>3. PICK f \in Seq(BodyPiece) : f = SubSeq(c, 1, n)
  <2>1. 1 \in Int /\ n \in Int /\ \A j \in 1..n : c[j] \in BodyPiece
    BY <1>1, <1>2
  <2>2. SubSeq(c, 1, n) \in Seq(BodyPiece)
    BY <2>1, SubSeqProperties
  <2>3. QED
    BY <2>2
<1>4. Len(f) = n /\ \A j \in 1..n : f[j] = c[j]
  BY <1>1, <1>2, <1>3
<1>5. Len(d) = x + n /\ (\A j \in 1..x : d[j] = a[j]) /\ \A j \in 1..n : d[x + j] = f[j]
  BY <1>0, <1>1, <1>2, <1>3, <1>4
<1>6. Len(e) = y - n /\ \A j \in 1..(y - n) : e[j] = c[n + j]
  <2>1. y - n = IF n + 1 <= y THEN y - (n + 1) + 1 ELSE 0
    BY <1>1, <1>2
  <2>2. QED
    BY <1>0, <1>1, <1>2, <2>1
<1>7. ASSUME NEW j \in 1..(x + n) PROVE d[j] = Body(0 + j)
  <2>1. CASE j <= x
    <3>1. j \in 1..x /\ 0 + j = j
      BY <1>1, <1>7, <2>1
    <3>2. a[j] = Body(0 + j)
      BY <1>1, <3>1 DEF From
    <3>3. QED
      BY <1>5, <3>1, <3>2
  <2>2. CASE ~(j <= x)
    <3>1. PICK k \in 1..n : j = x + k /\ 0 + j = x + k
      <4>1. j - x \in 1..n /\ j = x + (j - x) /\ 0 + j = x + (j - x)
        BY <1>1, <1>2, <1>7, <2>2
      <4>2. QED
        BY <4>1
    <3>2. k \in 1..y
      BY <1>1, <1>2
    <3>3. c[k] = Body(x + k)
      BY <1>1, <3>2 DEF From
    <3>4. QED
      BY <1>4, <1>5, <3>1, <3>3
  <2>3. QED
    BY <2>1, <2>2
<1>8. ASSUME NEW j \in 1..(y - n) PROVE e[j] = Body((x + n) + j)
  <2>1. n + j \in 1..y /\ x + (n + j) = (x + n) + j
    BY <1>1, <1>2
  <2>2. c[n + j] = Body(x + (n + j))
    BY <1>1, <2>1 DEF From
  <2>3. QED
    BY <1>6, <2>1, <2>2
<1>9. (x + n) + (y - n) = x + y
  BY <1>1, <1>2
<1>10. QED
  BY <1>1, <1>5, <1>6, <1>7, <1>8, <1>9 DEF From

LEMMA ReadReplies ==
  ASSUME ClientOK, ReplyInv, NEW i \in Ids, ReadBodyInto(i)
  PROVE  Replied(Now')
<1>1. /\ Now.c = client /\ Now.h = handles /\ Now.w = wire
      /\ client' = client /\ wire' = wire /\ handles \in [Ids -> HandleRec] /\ HandleOK(handles[i])
  BY NowIs DEF ReadBodyInto, ClientOK, ClientInv
<1>2. PICK a \in HandleRec : a = handles[i] /\ a.buf # <<>>
  BY <1>1 DEF ReadBodyInto
<1>3. PICK n, f :
        /\ n \in 1..Len(a.buf)
        /\ handles' = [handles EXCEPT ![i].body = @ \o SubSeq(handles[i].buf, 1, n),
                                      ![i].buf  = SubSeq(@, n + 1, Len(@)), ![i].fill = f]
  BY <1>2 DEF ReadBodyInto
<1>4. PICK d, e : d = a.body \o SubSeq(a.buf, 1, n) /\ e = SubSeq(a.buf, n + 1, Len(a.buf))
  OBVIOUS
<1>5. PICK b : b = [a EXCEPT !.body = d, !.buf = e, !.fill = f]
  OBVIOUS
<1>6. handles' = [handles EXCEPT ![i] = b]
  <2>1. handles' = [handles EXCEPT ![i].body = d, ![i].buf = e, ![i].fill = f]
    BY <1>1, <1>2, <1>3, <1>4
  <2>2. QED
    BY <1>1, <1>2, <1>5, <2>1
<1>7. /\ b.body = d /\ b.buf = e /\ b.resp = a.resp /\ b.status = a.status /\ b.result = a.result
      /\ b.phase = a.phase
  BY <1>5 DEF HandleRec
<1>8. handles'[i] = b /\ \A j \in Ids : j # i => handles'[j] = handles[j]
  BY <1>1, <1>6
<1>9. a.resp # None
  BY <1>1, <1>2 DEF HandleOK
<1>10. Shown(a, said)
  BY <1>2 DEF ReplyInv
<1>11. From(d, 0) /\ From(e, Len(d)) /\ Len(d) + Len(e) = Len(a.body) + Len(a.buf)
  <2>1. From(a.body, 0) /\ From(a.buf, Len(a.body))
    BY <1>9, <1>10 DEF Shown
  <2>2. PICK x \in Seq(BodyPiece), y \in Seq(BodyPiece) : x = a.body /\ y = a.buf
    BY DEF HandleRec
  <2>3. n \in 1..Len(y) /\ d = x \o SubSeq(y, 1, n) /\ e = SubSeq(y, n + 1, Len(y))
        /\ From(x, 0) /\ From(y, Len(x))
    BY <1>3, <1>4, <2>1, <2>2
  <2>4. \A v, w : /\ v = x \o SubSeq(y, 1, n)
                 /\ w = SubSeq(y, n + 1, Len(y))
                 => From(v, 0) /\ From(w, Len(v)) /\ Len(v) + Len(w) = Len(x) + Len(y)
    BY <2>3, Split, Zenon
  <2>5. From(d, 0) /\ From(e, Len(d)) /\ Len(d) + Len(e) = Len(x) + Len(y)
    BY <2>3, <2>4, Zenon
  <2>6. QED
    BY <2>2, <2>5
<1>12. Shown(b, said)
  BY <1>7, <1>9, <1>10, <1>11 DEF Shown
<1>13. Now'.c = client /\ Now'.h = handles' /\ Now'.w = wire
  BY <1>1 DEF Now
<1>14. PICK s, r : s = Now /\ r = Now'
  OBVIOUS
<1>15. r.c = s.c /\ r.w = s.w
  BY <1>1, <1>13, <1>14
<1>16. /\ Mine(r).resp = Mine(s).resp
       /\ Len(Mine(r).body) + Len(Mine(r).buf) = Len(Mine(s).body) + Len(Mine(s).buf)
  <2>1. CASE client.request = i
    BY <1>1, <1>2, <1>7, <1>8, <1>11, <1>13, <1>14, <2>1 DEF Mine
  <2>2. CASE client.request # i
    <3>1. Mine(r) = handles'[client.request] /\ Mine(s) = handles[client.request]
      BY <1>1, <1>13, <1>14 DEF Mine
    <3>2. handles'[client.request] = handles[client.request]
      BY <1>1, <1>6, <2>2
    <3>3. QED
      BY <3>1, <3>2
  <2>3. QED
    BY <2>1, <2>2
<1>17. (Tracked(r) => Tracked(s)) /\ Taken(r) = Taken(s)
  BY <1>15, <1>16 DEF Tracked, Taken
<1>18. Relayed(s, said, conn, table)
  BY <1>14 DEF ReplyInv
<1>19. Relayed(r, said, conn, table)
  BY <1>15, <1>17, <1>18, RelayedAs
<1>20. \A j \in Ids : Shown(r.h[j], said)
  BY <1>8, <1>12, <1>13, <1>14 DEF ReplyInv
<1>21. QED
  BY <1>14, <1>19, <1>20 DEF Replied

LEMMA ReturnReplies ==
  ASSUME ClientOK, ReplyInv, CallbackReturns
  PROVE  Replied(Now')
<1>1. /\ Now.c = client /\ Now.h = handles /\ Now.w = wire /\ Now \in State
      /\ client \in ClientRec /\ handles \in [Ids -> HandleRec] /\ Len(client.calls) > 0
  BY NowIs DEF CallbackReturns, ClientOK
<1>2. PICK s : s = Popped
  OBVIOUS
<1>3. s \in State /\ s.h = handles /\ s.w = wire
  BY <1>1, <1>2, PoppedIs
<1>4. PICK calls \in Seq({"done", "oversized"}) : s.c = [client EXCEPT !.calls = calls]
  BY <1>1, <1>2, PoppedIs
<1>5. /\ s.c.request = client.request /\ s.c.parser = client.parser
      /\ s.c.socket = client.socket /\ s.c.stream = client.stream
  BY <1>1, <1>4 DEF ClientRec
<1>6. Mine(s) = Mine(Now)
  BY <1>1, <1>3, <1>5 DEF Mine
<1>7. \A i \in Ids : Shown(s.h[i], said)
  BY <1>3 DEF ReplyInv
<1>8. Relayed(s, said, conn, table)
  <2>1. PICK t : t = Now
    OBVIOUS
  <2>2. /\ s.c.socket = t.c.socket /\ s.c.parser = t.c.parser /\ s.c.stream = t.c.stream
        /\ s.w = t.w /\ Mine(s) = Mine(t)
    BY <1>1, <1>3, <1>5, <1>6, <2>1
  <2>3. (Tracked(s) => Tracked(t)) /\ Taken(s) = Taken(t)
    BY <2>2 DEF Tracked, Taken
  <2>4. Relayed(t, said, conn, table)
    BY <2>1 DEF ReplyInv
  <2>5. QED
    BY <2>2, <2>3, <2>4, RelayedAs
<1>9. CASE Becomes(s)
  <2>1. Replied(s)
    BY <1>7, <1>8 DEF Replied
  <2>2. QED
    BY <1>3, <1>9, <2>1, BecomesIs
<1>10. CASE client.parser # None /\ Becomes(Complete(s, "dropped"))
  <2>1. client.state # "idle"
    BY <1>1, <1>10 DEF ClientOK, ClientInv, Idle
  <2>2. Core(Now)
    BY <2>1, BusyNow
  <2>3. Core(s)
    BY <1>1, <1>3, <1>5, <1>6, <2>2 DEF Core
  <2>4. QED
    BY <1>7, <1>10, <2>3, EndReplies
<1>11. QED
  BY <1>2, <1>9, <1>10 DEF CallbackReturns, Popped

LEMMA AskReplies ==
  ASSUME ClientOK, ReplyInv, Ask
  PROVE  Replied(Now')
<1>1. Now.c = client /\ Now.h = handles /\ Now.w = wire
  BY NowIs
<1>2. client.state = "idle" /\ NextId \in Ids /\ handles[NextId].phase = "unused" /\ NextLink \in Links
  BY NextIdIn, NextLinkIn DEF Ask, Room
<1>3. PICK i \in Ids, k \in Links : i = NextId /\ k = NextLink
  BY <1>2
<1>4. PICK ask \in Requests[i] :
        Becomes(StartHop(Begun(i, ask), k, ask.method, ask.len))
  BY <1>3 DEF Ask, Begun
<1>5. ask \in Request /\ ask.method \in {"GET", "POST"} /\ ask.len \in Nat
  BY ClientAssumption DEF ClientAssumption, Ids, Request
<1>6. PICK m \in {"GET", "POST"}, n \in Nat : m = ask.method /\ n = ask.len
  BY <1>5
<1>7. PICK s : s = Begun(i, ask)
  OBVIOUS
<1>8. /\ s \in State /\ s.c.request = i /\ s.c.socket = None
      /\ s.h[i] = Beginning(NoHandle, ask) /\ \A j \in Ids : j # i => s.h[j] = handles[j]
  BY <1>2, <1>3, <1>5, <1>7, BegunIs
<1>9. PICK r : r = StartHop(s, k, m, n)
  OBVIOUS
<1>10. /\ r \in State /\ r.c.socket = s.c.socket
       /\ HopOn(r.h[i], s.h[i]) /\ \A j \in Ids : j # i => r.h[j] = s.h[j]
  BY <1>8, <1>9, StartsHop
<1>11. r.h[i].result = None /\ r.h[i].resp = None
  <2>1. s.h[i].result = None /\ s.h[i].resp = None
    BY <1>8 DEF Beginning, NoHandle
  <2>2. QED
    BY <1>10, <2>1 DEF HopOn
<1>12. Shown(r.h[i], said)
  BY <1>11, WireAssumption DEF Shown, WireAssumption, Statuses
<1>13. Relayed(r, said, conn, table)
  BY <1>8, <1>10 DEF Relayed
<1>14. \A j \in Ids : Shown(r.h[j], said)
  BY <1>8, <1>10, <1>12 DEF ReplyInv
<1>15. Now' = r
  BY <1>4, <1>6, <1>7, <1>9, <1>10, BecomesIs
<1>16. QED
  BY <1>13, <1>14, <1>15 DEF Replied

LEMMA ClientReplies ==
  ASSUME SystemOK, Served, ReplyInv, ClientHandle \/ ClientApp
  PROVE  Replied(Now')
<1>1. ClientOK
  BY DEF SystemOK, Wiring
<1>2. CASE ClientHandle
  BY <1>1, <1>2, FailsReplies, ConnectorFailsReplies, ConnectorReadyReplies, SendReplies,
     ReceivePieceReplies, ReceiveEndReplies
     DEF ClientHandle, Timeout, ReceiveFails, CanReceive, Handles
<1>3. CASE ClientApp
  BY <1>1, <1>3, FailsReplies, AskReplies, ReadReplies, ReturnReplies DEF ClientApp, Cancel
<1>4. QED
  BY <1>2, <1>3

-----------------------------------------------------------------------------
(* What a step of the server, or of a connection, does to the responses:    *)
(* one that was decided on only grows until it is whole, and what followed  *)
(* the pieces that were read still does.                                    *)
Grown(m, n) ==
  m # None => /\ n # None /\ n.head = m.head /\ Len(m.body) <= Len(n.body)
              /\ m.whole => n.whole /\ Len(n.body) = Len(m.body)

Carries(m, out, in, x, n, rest, still, y) ==
  /\ Grown(m, n)
  /\ x.c = "up" => \A r \in Nat : Flow(m, out, in, x, r) => Flow(n, rest, still, y, r)

Relays(l) == Carries(said[l], conn[l].out, l \in table, wire[l],
                     said'[l], conn'[l].out, l \in table', wire'[l])

LEMMA GrownPiece ==
  ASSUME NEW m \in Saying, NEW n \in Saying, Grown(m, n), NEW k \in Nat, NEW p, IsPiece(m, k, p)
  PROVE  IsPiece(n, k, p)
<1>1. PICK a \in Nat, b \in Nat : a = Len(m.body) /\ b = Len(n.body)
  BY DEF Saying
<1>2. m # None
  BY NoneIsNoRecord
<1>3. n.head = m.head /\ a <= b /\ (m.whole => n.whole /\ b = a)
  BY <1>1, <1>2 DEF Grown
<1>4. CASE k = 1 \/ m.head.status = "nobody"
  BY <1>3, <1>4 DEF IsPiece
<1>5. CASE k # 1 /\ m.head.status # "nobody" /\ k <= 1 + a
  <2>1. p = Body(k - 1)
    BY <1>1, <1>5 DEF IsPiece
  <2>2. k <= 1 + b
    BY <1>3, <1>5
  <2>3. QED
    BY <1>1, <1>5, <2>1, <2>2 DEF IsPiece
<1>6. CASE k # 1 /\ m.head.status # "nobody" /\ ~(k <= 1 + a)
  <2>1. k = Total(m) /\ p = Last
    BY <1>1, <1>6 DEF IsPiece
  <2>2. m.head.frame = "chunked" /\ m.whole
    <3>1. ASSUME ~(m.head.frame = "chunked" /\ m.whole) PROVE Total(m) = 1 + a + 0
      BY <1>1, <3>1 DEF Total
    <3>2. ASSUME Total(m) = 1 + a + 0 PROVE FALSE
      BY <1>6, <2>1, <3>2
    <3>3. QED
      BY <3>1, <3>2
  <2>3. n.head.frame = "chunked" /\ n.whole /\ b = a
    BY <1>3, <2>2
  <2>4. k = Total(n) /\ ~(k <= 1 + b)
    BY <1>1, <1>6, <2>1, <2>2, <2>3 DEF Total
  <2>5. QED
    BY <1>1, <1>6, <2>1, <2>4 DEF IsPiece
<1>7. QED
  BY <1>4, <1>5, <1>6

LEMMA GrownParser ==
  ASSUME NEW m \in Saying, NEW n \in Saying, Grown(m, n), NEW p, NEW u \in Nat, ParserAt(p, m, u)
  PROVE  ParserAt(p, n, u)
<1>1. PICK a \in Nat, b \in Nat : a = Len(m.body) /\ b = Len(n.body)
  BY DEF Saying
<1>2. m # None /\ n # None
  BY NoneIsNoRecord
<1>3. n.head = m.head /\ a <= b
  BY <1>1, <1>2 DEF Grown
<1>4. u <= Len(n.body)
  <2>1. u <= a
    BY <1>1 DEF ParserAt
  <2>2. u <= b
    BY <1>3, <2>1
  <2>3. QED
    BY <1>1, <2>2
<1>5. QED
  BY <1>2, <1>3, <1>4 DEF ParserAt

LEMMA GrownShown ==
  ASSUME NEW S \in [Links -> Saying \cup {None}], NEW R \in [Links -> Saying \cup {None}],
         \A l \in Links : Grown(S[l], R[l]), NEW h \in HandleRec, Shown(h, S)
  PROVE  Shown(h, R)
<1>1. CASE h.resp = None
  BY <1>1 DEF Shown
<1>2. CASE h.resp # None
  <2>1. PICK l \in Links : l = h.resp
    BY <1>2 DEF HandleRec
  <2>2. S[l] # None /\ S[l].head.status = h.status
    BY <1>2, <2>1 DEF Shown
  <2>3. Grown(S[l], R[l])
    BY <2>1
  <2>4. R[l] # None /\ R[l].head = S[l].head
    BY <2>2, <2>3 DEF Grown
  <2>5. PICK m \in Saying, n \in Saying : m = S[l] /\ n = R[l]
    BY <2>2, <2>4
  <2>6. PICK a \in Nat, b \in Nat : a = Len(m.body) /\ b = Len(n.body)
    BY DEF Saying
  <2>7. PICK g \in Nat : g = Len(h.body) + Len(h.buf)
    BY DEF HandleRec
  <2>8. a <= b /\ (m.whole => n.whole /\ b = a)
    BY <2>2, <2>3, <2>5, <2>6 DEF Grown
  <2>9. g <= a /\ (h.result = "ok" => m.whole /\ g = a)
    BY <1>2, <2>1, <2>5, <2>6, <2>7 DEF Shown
  <2>10. g <= b /\ (h.result = "ok" => n.whole /\ g = b)
    BY <2>8, <2>9
  <2>11. From(h.body, 0) /\ From(h.buf, Len(h.body)) /\ (h.phase # "done" => h.result # "ok")
    BY <1>2 DEF Shown
  <2>12. QED
    BY <2>1, <2>2, <2>4, <2>5, <2>6, <2>7, <2>10, <2>11 DEF Shown
<1>3. QED
  BY <1>1, <1>2

LEMMA RelaysAll ==
  ASSUME ReplyInv, UNCHANGED clientState, SystemOK, Asked,
         said' \in [Links -> Saying \cup {None}], \A l \in Links : Relays(l)
  PROVE  ReplyInv'
<1>1. /\ client' = client /\ handles' = handles /\ ClientOK
      /\ client \in ClientRec /\ handles \in [Ids -> HandleRec] /\ wire \in [Links -> LinkRec]
      /\ Now.c = client /\ Now.h = handles /\ Now.w = wire
  BY NowIs DEF clientState, SystemOK, Wiring
<1>2. Now'.c = client /\ Now'.h = handles /\ Now'.w = wire'
  BY <1>1 DEF Now
<1>3. said \in [Links -> Saying \cup {None}]
  BY DEF SystemOK, ServerTyped
<1>4. PICK R : R = said'
  OBVIOUS
<1>5. \A l \in Links : Grown(said[l], R[l])
  BY <1>4 DEF Relays, Carries
<1>6. ASSUME NEW i \in Ids PROVE Shown(handles[i], said')
  <2>1. handles[i] \in HandleRec /\ Shown(handles[i], said)
    BY <1>1 DEF ReplyInv
  <2>2. Shown(handles[i], R)
    BY <1>3, <1>4, <1>5, <2>1, GrownShown
  <2>3. QED
    BY <1>4, <2>2
<1>7. ASSUME client.socket # None, client.parser.st \in {"status", "body", "chunks"}, Tracked(Now')
      PROVE  LET l == client.socket  p == client.parser
                 flow(r) == Flow(said'[l], conn'[l].out, l \in table', wire'[l], r)
             IN  IF p.st = "status" THEN flow(0)
                 ELSE /\ flow(1 + Taken(Now')) /\ ParserAt(p, said'[l], Taken(Now'))
                      /\ ~client.stream => From(p.body, 0)
  <2>1. PICK l \in Links : l = client.socket
    BY <1>1, <1>7 DEF ClientRec
  <2>2. wire[l].c = "up"
    BY <1>1, <1>7, <2>1 DEF SystemOK, Wiring, Opened
  <2>3. Grown(said[l], said'[l])
        /\ \A r \in Nat : Flow(said[l], conn[l].out, l \in table, wire[l], r)
                          => Flow(said'[l], conn'[l].out, l \in table', wire'[l], r)
    BY <2>1, <2>2 DEF Relays, Carries
  <2>4. Mine(Now') = Mine(Now)
    BY <1>1, <1>2 DEF Mine
  <2>5. Tracked(Now) /\ Taken(Now') = Taken(Now)
    BY <1>1, <1>2, <1>7, <2>4 DEF Tracked, Taken
  <2>6. CASE client.parser.st = "status"
    <3>1. Flow(said[l], conn[l].out, l \in table, wire[l], 0)
      BY <1>1, <1>7, <2>1, <2>5, <2>6 DEF ReplyInv, Relayed
    <3>2. Flow(said'[l], conn'[l].out, l \in table', wire'[l], 0)
      BY <2>3, <3>1
    <3>3. QED
      BY <2>1, <2>6, <3>2
  <2>7. CASE client.parser.st # "status"
    <3>1. /\ Flow(said[l], conn[l].out, l \in table, wire[l], 1 + Taken(Now))
          /\ ParserAt(client.parser, said[l], Taken(Now))
          /\ ~client.stream => From(client.parser.body, 0)
      BY <1>1, <1>7, <2>1, <2>5, <2>7 DEF ReplyInv, Relayed
    <3>2. PICK t \in Nat : t = Taken(Now)
      <4>1. client.state # "idle"
        BY <1>1, <1>7 DEF ClientOK, ClientInv, Idle
      <4>2. Mine(Now) \in HandleRec /\ client.parser \in Parser
        BY <1>1, <4>1, BusyIs DEF Busy, Parsing, Sound, Mine
      <4>3. Len(Mine(Now).body) \in Nat /\ Len(Mine(Now).buf) \in Nat /\ Len(client.parser.body) \in Nat
        BY <4>2 DEF HandleRec, Parser
      <4>4. PICK a \in Nat, b \in Nat, d \in Nat :
              a = Len(Mine(Now).body) /\ b = Len(Mine(Now).buf) /\ d = Len(client.parser.body)
        BY <4>3
      <4>5. Taken(Now) = IF client.stream THEN a + b ELSE d
        BY <1>1, <4>4 DEF Taken
      <4>6. a + b \in Nat
        OBVIOUS
      <4>7. Taken(Now) \in Nat
        BY <4>5, <4>6, Zenon
      <4>8. QED
        BY <4>7
    <3>3. 1 + t \in Nat
      OBVIOUS
    <3>4. Flow(said'[l], conn'[l].out, l \in table', wire'[l], 1 + t)
      BY <2>3, <3>1, <3>2, <3>3
    <3>5. said[l] # None
      BY <3>1 DEF ParserAt
    <3>6. said'[l] # None
      BY <2>3, <3>5 DEF Grown
    <3>7. PICK m \in Saying, n \in Saying : m = said[l] /\ n = said'[l]
      BY <1>3, <3>5, <3>6
    <3>8. ParserAt(client.parser, n, t)
      BY <2>3, <3>1, <3>2, <3>7, GrownParser
    <3>9. QED
      BY <2>1, <2>5, <2>7, <3>1, <3>2, <3>4, <3>7, <3>8
  <2>8. QED
    BY <2>6, <2>7
<1>8. Relayed(Now', said', conn', table')
  BY <1>2, <1>7 DEF Relayed
<1>9. QED
  BY <1>1, <1>6, <1>8 DEF ReplyInv

LEMMA GrownSame ==
  ASSUME NEW m \in Saying \cup {None}
  PROVE  Grown(m, m)
<1>1. m # None => Len(m.body) \in Nat
  BY DEF Saying
<1>2. m # None => Len(m.body) <= Len(m.body)
  BY <1>1
<1>3. QED
  BY <1>2 DEF Grown

(* Nothing happens to the response, or no more of it will be sent.          *)
LEMMA CarriesQuiet ==
  ASSUME NEW m \in Saying \cup {None}, NEW out, NEW in, NEW x, NEW rest, NEW still, NEW y,
         (rest = out /\ (still => in)) \/ (rest = <<>> /\ ~still),
         x.c = "up" => y.down = x.down /\ y.lost = x.lost
  PROVE  Carries(m, out, in, x, m, rest, still, y)
<1>1. Grown(m, m)
  BY GrownSame
<1>2. ASSUME x.c = "up", NEW r \in Nat, Flow(m, out, in, x, r)
      PROVE  Flow(m, rest, still, y, r)
  <2>1. y.down = x.down /\ (y.lost <=> x.lost)
    BY <1>2
  <2>2. CASE m = None
    BY <1>2, <2>1, <2>2 DEF Flow
  <2>3. CASE m # None /\ rest = out /\ (still => in)
    BY <1>2, <2>1, <2>3 DEF Flow
  <2>4. CASE m # None /\ rest = <<>> /\ ~still
    <3>1. \A j \in 1..Len(rest) : FALSE
      BY <2>4
    <3>2. QED
      BY <1>2, <2>1, <2>4, <3>1 DEF Flow
  <2>5. QED
    BY <2>2, <2>3, <2>4
<1>3. QED
  BY <1>1, <1>2 DEF Carries

LEMMA CarriesLost ==
  ASSUME NEW m \in Saying \cup {None}, NEW out, NEW in, NEW x, NEW rest, NEW still, NEW y,
         y.down = <<>>, m = None \/ y.lost
  PROVE  Carries(m, out, in, x, m, rest, still, y)
<1>1. Grown(m, m)
  BY GrownSame
<1>2. ASSUME NEW r \in Nat, Flow(m, out, in, x, r)
      PROVE  Flow(m, rest, still, y, r)
  <2>1. CASE m = None
    BY <1>2, <2>1 DEF Flow
  <2>2. CASE m # None
    <3>1. \A j \in 1..Len(y.down) : FALSE
      OBVIOUS
    <3>2. ~(~y.lost)
      BY <2>2
    <3>3. QED
      BY <2>2, <3>1, <3>2 DEF Flow
  <2>3. QED
    BY <2>1, <2>2
<1>3. QED
  BY <1>1, <1>2 DEF Carries

(* Nothing was decided on yet.                                              *)
LEMMA CarriesNone ==
  ASSUME NEW out, NEW in, NEW x, NEW rest, NEW still, NEW y, y.down \in {x.down, <<>>}
  PROVE  Carries(None, out, in, x, None, rest, still, y)
<1>1. Grown(None, None)
  BY DEF Grown
<1>2. ASSUME NEW r \in Nat, Flow(None, out, in, x, r)
      PROVE  Flow(None, rest, still, y, r)
  BY <1>2 DEF Flow
<1>3. QED
  BY <1>1, <1>2 DEF Carries

(* A response is decided on and staged: its head and the units there are.   *)
LEMMA CarriesStaged ==
  ASSUME NEW n \in Saying, NEW out, NEW in, NEW x, NEW y, y.down = x.down,
         NEW k \in Nat, NEW rest \in Seq(ReplyPiece), Len(rest) = 1 + k, rest[1] = n.head,
         \A j \in 1..k : rest[1 + j] = Body(j),
         n.head.status # "nobody" => Len(n.body) = k /\ ~(n.head.frame = "chunked" /\ n.whole),
         NEW still
  PROVE  Carries(None, out, in, x, n, rest, still, y)
<1>1. n # None /\ Grown(None, n)
  BY NoneIsNoRecord DEF Grown
<1>2. ASSUME NEW j \in 1..(1 + k) PROVE IsPiece(n, j, rest[j])
  <2>1. CASE j = 1
    BY <2>1 DEF IsPiece
  <2>2. CASE j # 1
    <3>1. j - 1 \in 1..k /\ 1 + (j - 1) = j /\ j <= 1 + k
      BY <1>2, <2>2
    <3>2. rest[j] = Body(j - 1)
      BY <3>1
    <3>3. QED
      BY <2>2, <3>1, <3>2 DEF IsPiece
  <2>3. QED
    BY <2>1, <2>2
<1>3. Brought(n, 1 + k)
  <2>1. CASE n.head.status = "nobody"
    BY <2>1 DEF Brought
  <2>2. CASE n.head.status # "nobody"
    <3>1. Total(n) = 1 + Len(n.body) + 0
      BY <2>2 DEF Total
    <3>2. Total(n) = 1 + k
      BY <2>2, <3>1
    <3>3. QED
      BY <2>2, <3>2 DEF Brought
  <2>3. QED
    BY <2>1, <2>2
<1>4. ASSUME NEW r \in Nat, Flow(None, out, in, x, r)
      PROVE  Flow(n, rest, still, y, r)
  <2>1. r = 0 /\ y.down = <<>>
    BY <1>4 DEF Flow
  <2>2. Len(y.down) = 0 /\ \A j \in 1..0 : FALSE
    BY <2>1
  <2>3. \A j \in 1..Len(y.down) : IsPiece(n, r + j, y.down[j])
    BY <2>2
  <2>4. \A j \in 1..Len(rest) : IsPiece(n, r + Len(y.down) + j, rest[j])
    <3>1. ASSUME NEW j \in 1..(1 + k) PROVE r + Len(y.down) + j = j
      BY <2>1, <2>2
    <3>2. QED
      BY <1>2, <3>1
  <2>5. r + Len(y.down) + Len(rest) = 1 + k
    BY <2>1, <2>2
  <2>6. Brought(n, r + Len(y.down) + Len(rest))
    BY <1>3, <2>5
  <2>7. QED
    BY <1>1, <2>3, <2>4, <2>6 DEF Flow
<1>5. QED
  BY <1>1, <1>4 DEF Carries

(* The server sends a piece.                                                *)
LEMMA CarriesSent ==
  ASSUME NEW m \in Saying \cup {None}, NEW q \in Seq(ReplyPiece), q # <<>>, NEW in, NEW x \in LinkRec,
         NEW y, y.down = Append(x.down, Head(q)), ~x.lost, ~y.lost,
         NEW still, still => in, m # None
  PROVE  Carries(m, q, in, x, m, Tail(q), still, y)
<1>1. Grown(m, m)
  BY GrownSame
<1>2. PICK d \in Seq(ReplyPiece) : d = x.down
  BY DEF LinkRec
<1>3. PICK e : e = Tail(q)
  OBVIOUS
<1>4. /\ Len(q) > 0 /\ Len(e) = Len(q) - 1 /\ Head(q) = q[1] /\ Len(e) \in Nat
      /\ \A j \in 1..Len(e) : e[j] = q[j + 1]
  BY <1>3, TailOf
<1>5. PICK n \in Nat, k \in Nat : n = Len(d) /\ k = Len(e) /\ Len(q) = k + 1
  BY <1>2, <1>4
<1>6. PICK p \in ReplyPiece : p = Head(q)
  BY TailOf
<1>7. PICK f : f = Append(d, p)
  OBVIOUS
<1>8. Len(f) = n + 1 /\ f[n + 1] = p /\ \A j \in 1..n : f[j] = d[j]
  BY <1>5, <1>7
<1>9. ASSUME NEW r \in Nat, Flow(m, q, in, x, r)
      PROVE  Flow(m, e, still, y, r)
  <2>1. /\ \A j \in 1..n : IsPiece(m, r + j, d[j])
        /\ \A j \in 1..(k + 1) : IsPiece(m, r + n + j, q[j])
        /\ in => Brought(m, r + n + (k + 1))
    BY <1>2, <1>5, <1>9 DEF Flow
  <2>2. ASSUME NEW j \in 1..(n + 1) PROVE IsPiece(m, r + j, f[j])
    <3>1. CASE j \in 1..n
      BY <1>8, <2>1, <3>1
    <3>2. CASE j \notin 1..n
      <4>1. j = n + 1 /\ r + j = r + n + 1
        BY <2>2, <3>2
      <4>2. 1 \in 1..(k + 1)
        OBVIOUS
      <4>3. IsPiece(m, r + n + 1, q[1])
        BY <2>1, <4>2
      <4>4. QED
        BY <1>4, <1>6, <1>8, <4>1, <4>3
    <3>3. QED
      BY <3>1, <3>2
  <2>3. ASSUME NEW j \in 1..k PROVE IsPiece(m, r + (n + 1) + j, e[j])
    <3>1. j + 1 \in 1..(k + 1) /\ r + n + (j + 1) = r + (n + 1) + j
      OBVIOUS
    <3>2. QED
      BY <1>4, <1>5, <2>1, <3>1
  <2>4. r + (n + 1) + k = r + n + (k + 1)
    OBVIOUS
  <2>5. y.down = f /\ Len(e) = k /\ Len(f) = n + 1
    BY <1>2, <1>5, <1>6, <1>7, <1>8
  <2>6. still => Brought(m, r + Len(f) + Len(e))
    BY <2>1, <2>4, <2>5
  <2>7. QED
    BY <2>2, <2>3, <2>5, <2>6 DEF Flow
<1>10. QED
  BY <1>1, <1>3, <1>9 DEF Carries

(* The source gives another piece.                                          *)
LEMMA CarriesMore ==
  ASSUME NEW m \in Saying, NEW n \in Saying, Grown(m, n), NEW p, NEW x \in LinkRec, NEW y, y = x,
         NEW in, in, NEW still, still,
         \A k \in Nat : Brought(m, k) => IsPiece(n, k + 1, p) /\ Brought(n, k + 1)
  PROVE  Carries(m, <<>>, in, x, n, <<p>>, still, y)
<1>1. m # None /\ n # None
  BY NoneIsNoRecord
<1>2. PICK d \in Seq(ReplyPiece), u \in Nat : d = x.down /\ u = Len(d)
  BY DEF LinkRec
<1>3. ASSUME NEW r \in Nat, Flow(m, <<>>, in, x, r)
      PROVE  Flow(n, <<p>>, still, x, r)
  <2>1. \A j \in 1..u : IsPiece(m, r + j, d[j])
    BY <1>1, <1>2, <1>3 DEF Flow
  <2>2. ASSUME NEW j \in 1..u PROVE IsPiece(n, r + j, d[j])
    <3>1. r + j \in Nat /\ IsPiece(m, r + j, d[j])
      BY <2>1
    <3>2. QED
      BY <3>1, GrownPiece
  <2>3. ASSUME ~x.lost
        PROVE  IsPiece(n, r + u + 1, p) /\ Brought(n, r + u + 1)
    <3>1. Brought(m, r + u + Len(<<>>))
      BY <1>1, <1>2, <1>3, <2>3 DEF Flow
    <3>2. r + u \in Nat /\ r + u + Len(<<>>) = r + u
      OBVIOUS
    <3>3. QED
      BY <3>1, <3>2
  <2>4. PICK o : o = <<p>>
    OBVIOUS
  <2>5. Len(o) = 1 /\ o[1] = p
    BY <2>4
  <2>6. ~x.lost => /\ \A j \in 1..Len(o) : IsPiece(n, r + u + j, o[j])
                   /\ Brought(n, r + u + Len(o))
    BY <2>3, <2>5
  <2>7. QED
    BY <1>1, <1>2, <2>2, <2>4, <2>6 DEF Flow
<1>4. QED
  BY <1>3 DEF Carries

(* What a step at one connection has to show.                               *)
LEMMA RelaysRest ==
  ASSUME SystemOK, NEW l \in Links, said'[l] = said[l], conn'[l] = conn[l], wire'[l] = wire[l],
         l \in table' => l \in table
  PROVE  Relays(l)
<1>1. said[l] \in Saying \cup {None}
  BY DEF SystemOK, ServerTyped
<1>2. PICK m, out, x : m \in Saying \cup {None} /\ m = said[l] /\ out = conn[l].out /\ x = wire[l]
  BY <1>1
<1>3. Carries(m, out, l \in table, x, m, out, l \in table', x)
  BY <1>2, CarriesQuiet
<1>4. QED
  BY <1>2, <1>3 DEF Relays

LEMMA RelaysAt ==
  ASSUME SystemOK, NEW l \in Links, NEW d, NEW y,
         conn' = [conn EXCEPT ![l] = d], wire' = [wire EXCEPT ![l] = y],
         \A k \in Links : k # l => said'[k] = said[k] /\ (k \in table' => k \in table),
         Carries(said[l], conn[l].out, l \in table, wire[l], said'[l], d.out, l \in table', y)
  PROVE  \A k \in Links : Relays(k)
<1>1. conn \in [Links -> ConnRec] /\ wire \in [Links -> LinkRec]
  BY NowIs DEF SystemOK, Wiring, ServerTyped
<1>2. conn'[l] = d /\ wire'[l] = y
  BY <1>1
<1>3. Relays(l)
  BY <1>2 DEF Relays
<1>4. ASSUME NEW k \in Links, k # l PROVE Relays(k)
  <2>1. conn'[k] = conn[k] /\ wire'[k] = wire[k] /\ said'[k] = said[k] /\ (k \in table' => k \in table)
    BY <1>1, <1>4
  <2>2. QED
    BY <2>1, RelaysRest
<1>5. QED
  BY <1>3, <1>4

LEMMA CarriesEnd ==
  ASSUME NEW m, NEW out, NEW in, NEW x, NEW n, NEW rest, NEW still, NEW y \in LinkRec, y.c = x.c,
         Carries(m, out, in, x, n, rest, still, y)
  PROVE  Carries(m, out, in, x, n, rest, still, CloseServerEnd(y))
<1>1. PICK z : z = CloseServerEnd(y)
  OBVIOUS
<1>2. y.c = "up" => z.down = y.down /\ z.lost = y.lost
  BY <1>1, ServerEnds
<1>3. ASSUME x.c = "up", NEW r \in Nat, Flow(m, out, in, x, r)
      PROVE  Flow(n, rest, still, z, r)
  <2>1. Flow(n, rest, still, y, r)
    BY <1>3 DEF Carries
  <2>2. z.down = y.down /\ z.lost = y.lost
    BY <1>2, <1>3
  <2>3. QED
    BY <2>1, <2>2 DEF Flow
<1>4. Carries(m, out, in, x, n, rest, still, z)
  BY <1>3 DEF Carries
<1>5. QED
  BY <1>1, <1>4

LEMMA PopRelays ==
  ASSUME SystemOK, NEW l \in Links, NEW y \in LinkRec, y.c = wire[l].c,
         NEW w, w = [wire EXCEPT ![l] = y], Pop(l, w), said' = said,
         Carries(said[l], conn[l].out, l \in table, wire[l], said[l], <<>>, l \in table', y)
  PROVE  \A k \in Links : Relays(k)
<1>1. conn \in [Links -> ConnRec] /\ wire \in [Links -> LinkRec]
  BY NowIs DEF SystemOK, Wiring, ServerTyped
<1>2. PICK z : z = CloseServerEnd(y)
  OBVIOUS
<1>3. wire' = [wire EXCEPT ![l] = z] /\ conn' = [conn EXCEPT ![l] = NoConn]
  BY <1>1, <1>2 DEF Pop
<1>4. NoConn.out = <<>>
  BY DEF NoConn
<1>5. Carries(said[l], conn[l].out, l \in table, wire[l], said[l], <<>>, l \in table', z)
  BY <1>2, CarriesEnd
<1>6. Carries(said[l], conn[l].out, l \in table, wire[l], said'[l], NoConn.out, l \in table', z)
  BY <1>4, <1>5
<1>7. \A k \in Links : k # l => said'[k] = said[k] /\ (k \in table' => k \in table)
  BY DEF Pop
<1>8. QED
  BY <1>3, <1>6, <1>7, RelaysAt

LEMMA FailConnRelays ==
  ASSUME SystemOK, NEW l \in Links, FailConn(l)
  PROVE  \A k \in Links : Relays(k)
<1>1. wire \in [Links -> LinkRec] /\ said[l] \in Saying \cup {None}
  BY NowIs DEF SystemOK, Wiring, ServerTyped
<1>2. wire[l] \in LinkRec /\ wire = [wire EXCEPT ![l] = wire[l]]
  BY <1>1
<1>3. Pop(l, wire) /\ said' = said /\ l \notin table'
  BY DEF FailConn, Pop
<1>4. Carries(said[l], conn[l].out, l \in table, wire[l], said[l], <<>>, l \in table', wire[l])
  BY <1>1, <1>3, CarriesQuiet
<1>5. QED
  BY <1>2, <1>3, <1>4, PopRelays

LEMMA CloseAllRelays ==
  ASSUME SystemOK, Served, CloseAll, said' = said
  PROVE  \A k \in Links : Relays(k)
<1>1. wire \in [Links -> LinkRec] /\ conn' = [l \in Links |-> NoConn] /\ table' = {}
  BY NowIs DEF SystemOK, Wiring, CloseAll
<1>2. ASSUME NEW l \in Links PROVE Relays(l)
  <2>1. conn'[l].out = <<>> /\ wire[l] \in LinkRec /\ l \notin table' /\ said[l] \in Saying \cup {None}
    BY <1>1 DEF NoConn, SystemOK, ServerTyped
  <2>2. Serving(l \in table, wire[l].s, conn[l], said[l])
    BY DEF SystemOK, ServerInv
  <2>3. Carries(said[l], conn[l].out, l \in table, wire[l], said[l], <<>>, l \in table', wire[l])
    BY <2>1, CarriesQuiet
  <2>4. CASE l \in table
    <3>1. wire'[l] = CloseServerEnd(wire[l])
      BY <2>4 DEF CloseAll
    <3>2. Carries(said[l], conn[l].out, l \in table, wire[l], said[l], <<>>, l \in table',
                  CloseServerEnd(wire[l]))
      BY <2>1, <2>3, CarriesEnd
    <3>3. QED
      BY <2>1, <3>1, <3>2 DEF Relays
  <2>5. CASE l \notin table /\ wire[l].s = "backlog"
    <3>1. PICK y : y = [wire[l] EXCEPT !.s = "closed", !.lost = TRUE, !.up = <<>>, !.down = <<>>]
      OBVIOUS
    <3>2. <<>> \in Seq(AskPiece) /\ <<>> \in Seq(ReplyPiece)
      OBVIOUS
    <3>3. y \in LinkRec /\ y.down = <<>>
      BY <2>1, <3>1, <3>2 DEF LinkRec
    <3>4. wire'[l] = Settled(y)
      BY <2>5, <3>1 DEF CloseAll
    <3>5. wire'[l].down = <<>>
      BY <3>3, <3>4, Settles
    <3>6. said[l] = None
      BY <2>2, <2>5 DEF Serving
    <3>7. Carries(said[l], conn[l].out, l \in table, wire[l], said[l], <<>>, l \in table', wire'[l])
      BY <3>5, <3>6, CarriesNone
    <3>8. QED
      BY <2>1, <3>7 DEF Relays
  <2>6. CASE l \notin table /\ wire[l].s # "backlog"
    <3>1. wire'[l] = wire[l]
      BY <2>6 DEF CloseAll
    <3>2. QED
      BY <2>1, <2>3, <3>1 DEF Relays
  <2>7. QED
    BY <2>4, <2>5, <2>6
<1>3. QED
  BY <1>2

(* A response is staged.                                                    *)
LEMMA SayRelays ==
  ASSUME SystemOK, NEW l \in Links, NEW d, NEW y, NEW n \in Saying, said[l] = None,
         conn' = [conn EXCEPT ![l] = d], wire' = [wire EXCEPT ![l] = y],
         said' = [said EXCEPT ![l] = n], table' = table, y.down = wire[l].down,
         NEW k \in Nat, d.out \in Seq(ReplyPiece), Len(d.out) = 1 + k, d.out[1] = n.head,
         \A j \in 1..k : d.out[1 + j] = Body(j),
         n.head.status # "nobody" => Len(n.body) = k /\ ~(n.head.frame = "chunked" /\ n.whole)
  PROVE  \A i \in Links : Relays(i)
<1>1. said \in [Links -> Saying \cup {None}]
  BY DEF SystemOK, ServerTyped
<1>2. said'[l] = n /\ \A i \in Links : i # l => said'[i] = said[i] /\ (i \in table' => i \in table)
  BY <1>1
<1>3. PICK rest \in Seq(ReplyPiece) : rest = d.out
  OBVIOUS
<1>4. Carries(None, conn[l].out, l \in table, wire[l], n, rest, l \in table', y)
  BY <1>3, CarriesStaged
<1>5. Carries(said[l], conn[l].out, l \in table, wire[l], said'[l], d.out, l \in table', y)
  BY <1>2, <1>3, <1>4
<1>6. QED
  BY <1>2, <1>5, RelaysAt

LEMMA StageResponseRelays ==
  ASSUME SystemOK, NEW l \in Links, NEW y, wire' = [wire EXCEPT ![l] = y], table' = table,
         y.down = wire[l].down, said[l] = None,
         NEW c, Heard(c), NEW status \in Statuses, NEW len \in Nat, NEW loc \in {None, "ok", "bad"},
         StageResponse(l, c, status, len, loc)
  PROVE  \A i \in Links : Relays(i)
<1>1. PICK head : head = ResponseHead(status, "length", len, loc)
  OBVIOUS
<1>2. head \in HeadPiece /\ head \in ReplyPiece /\ head.status = status /\ head.frame = "length"
  BY <1>1, HeadIs
<1>3. PICK units \in Seq(ReplyPiece) :
        units = Units(len) /\ units \in Seq(BodyPiece) /\ Len(units) = len
        /\ \A j \in 1..len : units[j] = Body(j)
  BY Pieces
<1>4. PICK body \in Seq(BodyPiece) : body = IF status = "nobody" THEN <<>> ELSE units
  <2>1. <<>> \in Seq(BodyPiece)
    OBVIOUS
  <2>2. QED
    BY <1>3, <2>1
<1>5. PICK n : n = Decided(head, body, TRUE)
  OBVIOUS
<1>6. n \in Saying /\ n.head = head /\ n.body = body
  BY <1>2, <1>5, SayingIs
<1>7. PICK d : d = Stage(c, head, units)
  OBVIOUS
<1>8. /\ d \in ConnRec /\ Len(d.out) = 1 + Len(units) /\ d.out[1] = head
      /\ \A j \in 1..Len(units) : d.out[1 + j] = units[j]
  BY <1>2, <1>7, StageIs
<1>9. conn' = [conn EXCEPT ![l] = d] /\ said' = [said EXCEPT ![l] = n]
  BY <1>1, <1>3, <1>4, <1>5, <1>7 DEF StageResponse
<1>10. d.out \in Seq(ReplyPiece) /\ Len(d.out) = 1 + len /\ d.out[1] = n.head
       /\ \A j \in 1..len : d.out[1 + j] = Body(j)
  BY <1>3, <1>6, <1>8 DEF ConnRec
<1>11. n.head.status # "nobody" => Len(n.body) = len /\ ~(n.head.frame = "chunked" /\ n.whole)
  BY <1>2, <1>3, <1>4, <1>6
<1>12. QED
  BY <1>6, <1>9, <1>10, <1>11, SayRelays

LEMMA StageStreamRelays ==
  ASSUME SystemOK, NEW l \in Links, NEW y, wire' = [wire EXCEPT ![l] = y], table' = table,
         y.down = wire[l].down, said[l] = None,
         NEW c, Heard(c), NEW reply \in Reply, StageStream(l, c, reply)
  PROVE  \A i \in Links : Relays(i)
<1>1. PICK head : head = ResponseHead(reply.status, reply.frame, reply.len, reply.loc)
  OBVIOUS
<1>2. head \in HeadPiece /\ head \in ReplyPiece /\ head.status = reply.status /\ head.frame = reply.frame
  <2>1. /\ reply.status \in Statuses /\ reply.frame \in {"length", "chunked"} /\ reply.len \in Nat
        /\ reply.loc \in {None, "ok", "bad"}
    BY DEF Reply, Statuses
  <2>2. QED
    BY <1>1, <2>1, HeadIs
<1>3. PICK none \in Seq(ReplyPiece) : none = <<>> /\ none \in Seq(BodyPiece) /\ Len(none) = 0
  <2>1. <<>> \in Seq(ReplyPiece) /\ <<>> \in Seq(BodyPiece)
    OBVIOUS
  <2>2. QED
    BY <2>1
<1>4. PICK whole : whole = (reply.status = "nobody" \/ DeclaredAll(reply.frame, reply.len, 0))
  OBVIOUS
<1>5. PICK n : n = Decided(head, none, whole)
  OBVIOUS
<1>6. n \in Saying /\ n.head = head /\ n.body = none /\ (n.whole <=> whole)
  <2>1. whole \in BOOLEAN
    BY <1>4
  <2>2. none \in Seq(BodyPiece)
    BY <1>3
  <2>3. n \in Saying /\ n.head = head /\ n.body = none /\ n.whole = whole
    BY <1>2, <1>5, <2>1, <2>2, SayingIs
  <2>4. QED
    BY <2>3
<1>7. PICK e : e = Stage(c, head, none)
  OBVIOUS
<1>8. e \in ConnRec /\ Len(e.out) = 1 + Len(none) /\ e.out[1] = head
  BY <1>2, <1>7, StageIs
<1>9. PICK d : d = [e EXCEPT !.src = [frame |-> reply.frame, len |-> reply.len, sent |-> 0, eof |-> FALSE]]
  OBVIOUS
<1>10. d.out = e.out
  BY <1>8, <1>9 DEF ConnRec
<1>11. conn' = [conn EXCEPT ![l] = d] /\ said' = [said EXCEPT ![l] = n]
  BY <1>1, <1>3, <1>4, <1>5, <1>7, <1>9 DEF StageStream
<1>12. d.out \in Seq(ReplyPiece) /\ Len(d.out) = 1 + 0 /\ d.out[1] = n.head
       /\ \A j \in 1..0 : d.out[1 + j] = Body(j)
  BY <1>3, <1>6, <1>8, <1>10 DEF ConnRec
<1>13. n.head.status # "nobody" => Len(n.body) = 0 /\ ~(n.head.frame = "chunked" /\ n.whole)
  BY <1>2, <1>3, <1>4, <1>6 DEF DeclaredAll
<1>14. 0 \in Nat
  OBVIOUS
<1>15. QED
  BY <1>6, <1>11, <1>12, <1>13, <1>14, SayRelays

LEMMA DispatchRelays ==
  ASSUME SystemOK, Served, NEW l \in Links, NEW y, y.down = wire[l].down, said[l] = None,
         NEW w, w = [wire EXCEPT ![l] = y], NEW c, Heard(c), Dispatch(l, c, w)
  PROVE  \A i \in Links : Relays(i)
<1>1. CASE CloseAll /\ said' = said
  BY <1>1, CloseAllRelays
<1>2. CASE wire' = w /\ table' = table /\ StageError(l, c)
  <2>1. StageResponse(l, c, "failure", 1, None)
    BY <1>2 DEF StageError
  <2>2. "failure" \in Statuses /\ 1 \in Nat /\ None \in {None, "ok", "bad"}
    BY DEF Statuses
  <2>3. QED
    BY <1>2, <2>1, <2>2, StageResponseRelays
<1>3. CASE wire' = w /\ table' = table
           /\ \E r \in Replies : IF r.how = "fixed" THEN StageResponse(l, c, r.status, r.len, r.loc)
                                 ELSE StageStream(l, c, r)
  <2>1. PICK r \in Replies : IF r.how = "fixed" THEN StageResponse(l, c, r.status, r.len, r.loc)
                             ELSE StageStream(l, c, r)
    BY <1>3
  <2>2. r \in Reply
    BY ServerAssumption DEF ServerAssumption
  <2>3. r.status \in Statuses /\ r.len \in Nat /\ r.loc \in {None, "ok", "bad"}
    BY <2>2 DEF Reply, Statuses
  <2>4. QED
    BY <1>3, <2>1, <2>2, <2>3, StageResponseRelays, StageStreamRelays
<1>4. QED
  BY <1>1, <1>2, <1>3 DEF Dispatch

(* A piece of a request.                                                    *)
LEMMA FeedRequestRelays ==
  ASSUME SystemOK, Served, NEW l \in table, NEW y \in LinkRec, y.down = wire[l].down,
         y.lost = wire[l].lost, y.c = wire[l].c,
         NEW w, w = [wire EXCEPT ![l] = y], conn[l].state \in {"head", "body"},
         NEW piece \in AskPiece, FeedRequest(l, conn[l], piece, w)
  PROVE  \A i \in Links : Relays(i)
<1>1. /\ l \in Links /\ conn[l] \in ConnRec /\ Heard(conn[l]) /\ Staging(conn[l], said[l])
      /\ said[l] = None /\ None \in Saying \cup {None}
  BY InTable
<1>2. PICK c \in ConnRec : c = conn[l] /\ Heard(c)
  BY <1>1
<1>3. CASE StageError(l, c) /\ wire' = w /\ UNCHANGED <<listening, table, heard>>
  <2>1. StageResponse(l, c, "failure", 1, None)
    BY <1>3 DEF StageError
  <2>2. "failure" \in Statuses /\ 1 \in Nat /\ None \in {None, "ok", "bad"}
    BY DEF Statuses
  <2>3. QED
    BY <1>1, <1>2, <1>3, <2>1, <2>2, StageResponseRelays
<1>4. CASE Pop(l, w) /\ UNCHANGED <<listening, heard, said>>
  <2>1. l \notin table'
    BY <1>4 DEF Pop
  <2>2. Carries(said[l], conn[l].out, l \in table, wire[l], said[l], <<>>, l \in table', y)
    BY <1>1, <2>1, CarriesQuiet
  <2>3. QED
    BY <1>1, <1>4, <2>2, PopRelays
<1>5. PICK d : d = IF c.state = "head"
                   THEN [c EXCEPT !.ask = [method |-> piece.method, len |-> piece.len],
                                  !.left = piece.len, !.state = "body"]
                   ELSE [c EXCEPT !.left = @ - 1]
  OBVIOUS
<1>6. ASSUME c.state = "head" => piece.op = "request"
      PROVE  Heard(d) /\ d.out = c.out
  <2>1. CASE c.state = "head"
    <3>1. piece.method \in {"GET", "POST"} /\ piece.len \in Nat
      BY <1>6, <2>1 DEF AskPiece, BodyPiece
    <3>2. PICK r : r = [method |-> piece.method, len |-> piece.len]
      OBVIOUS
    <3>3. r \in Hearing
      BY <3>1, <3>2 DEF Hearing
    <3>4. d = [c EXCEPT !.ask = r, !.left = piece.len, !.state = "body"]
      BY <1>5, <2>1, <3>2
    <3>5. d \in ConnRec
      BY <3>1, <3>3, <3>4 DEF ConnRec
    <3>6. d.out = c.out /\ d.src = c.src /\ d.armed = c.armed /\ d.state = "body"
      BY <3>4 DEF ConnRec
    <3>7. QED
      BY <1>2, <3>5, <3>6 DEF Heard
  <2>2. CASE c.state # "head"
    <3>1. c.state = "body" /\ c.left > 0
      BY <1>1, <1>2, <2>2 DEF Staging
    <3>2. c.left \in Nat /\ c.left - 1 \in Nat
      BY <3>1 DEF ConnRec
    <3>3. d = [c EXCEPT !.left = c.left - 1]
      BY <1>5, <2>2
    <3>4. d \in ConnRec
      BY <3>2, <3>3 DEF ConnRec
    <3>5. d.out = c.out /\ d.src = c.src /\ d.armed = c.armed /\ d.state = c.state
      BY <3>3 DEF ConnRec
    <3>6. QED
      BY <1>2, <3>4, <3>5 DEF Heard
  <2>3. QED
    BY <2>1, <2>2
<1>7. CASE (c.state = "head" => piece.op = "request") /\ Dispatch(l, d, w)
  BY <1>1, <1>6, <1>7, DispatchRelays
<1>8. CASE (c.state = "head" => piece.op = "request")
           /\ conn' = [conn EXCEPT ![l] = d] /\ wire' = w /\ UNCHANGED <<listening, table, heard, said>>
  <2>1. d.out = conn[l].out
    BY <1>2, <1>6, <1>8
  <2>2. l \in table' => l \in table
    BY <1>8
  <2>3. Carries(said[l], conn[l].out, l \in table, wire[l], said[l], d.out, l \in table', y)
    BY <1>1, <2>1, <2>2, CarriesQuiet
  <2>4. said'[l] = said[l] /\ \A k \in Links : k # l => said'[k] = said[k] /\ (k \in table' => k \in table)
    BY <1>8
  <2>5. QED
    BY <1>1, <1>8, <2>3, <2>4, RelaysAt
<1>9. QED
  BY <1>2, <1>3, <1>4, <1>5, <1>7, <1>8 DEF FeedRequest, Limits

LEMMA ServerReceiveRelays ==
  ASSUME SystemOK, Served, NEW l \in table, ServerReceive(l)
  PROVE  \A i \in Links : Relays(i)
<1>1. PICK x \in LinkRec : x = wire[l] /\ x.s = "up" /\ x.up # <<>>
  BY InTable DEF ServerReceive
<1>2. l \in Links /\ wire \in [Links -> LinkRec]
  BY NowIs, InTable DEF SystemOK, Wiring
<1>3. PICK q \in Seq(AskPiece) : q = x.up /\ q # <<>>
  BY <1>1 DEF LinkRec
<1>4. PICK piece, rest : piece = Head(q) /\ rest = Tail(q)
  OBVIOUS
<1>5. piece \in AskPiece /\ rest \in Seq(AskPiece)
  BY <1>3, <1>4, TailOf
<1>6. PICK y : y = [x EXCEPT !.up = rest]
  OBVIOUS
<1>7. y \in LinkRec
  BY <1>5, <1>6 DEF LinkRec
<1>8. y.down = x.down /\ y.lost = x.lost /\ y.c = x.c
  BY <1>6 DEF LinkRec
<1>9. PICK w : w = [wire EXCEPT ![l].up = Tail(@)]
  OBVIOUS
<1>10. w = [wire EXCEPT ![l] = y]
  BY <1>1, <1>2, <1>3, <1>4, <1>6, <1>9
<1>11. FeedRequest(l, conn[l], piece, w) /\ conn[l].state \in {"head", "body"}
  BY <1>1, <1>3, <1>4, <1>9 DEF ServerReceive, Receives
<1>12. QED
  BY <1>1, <1>5, <1>7, <1>8, <1>10, <1>11, FeedRequestRelays

(* A source gives a unit, or ends.                                          *)
LEMMA PullAt ==
  ASSUME SystemOK, NEW l \in table, l \in Links, NEW m \in Saying, m = said[l], conn[l].out = <<>>,
         NEW n \in Saying, n = said'[l], Grown(m, n), NEW d, NEW p, d.out = <<p>>,
         conn' = [conn EXCEPT ![l] = d], table' = table, wire' = wire,
         \A k \in Links : k # l => said'[k] = said[k],
         \A k \in Nat : Brought(m, k) => IsPiece(n, k + 1, p) /\ Brought(n, k + 1)
  PROVE  \A i \in Links : Relays(i)
<1>1. wire \in [Links -> LinkRec]
  BY NowIs DEF SystemOK, Wiring
<1>2. PICK x \in LinkRec : x = wire[l]
  BY <1>1
<1>3. wire' = [wire EXCEPT ![l] = x]
  BY <1>1, <1>2
<1>4. l \in table'
  OBVIOUS
<1>5. Carries(m, <<>>, l \in table, x, n, <<p>>, l \in table', x)
  BY <1>4, CarriesMore
<1>6. Carries(said[l], conn[l].out, l \in table, wire[l], said'[l], d.out, l \in table', x)
  BY <1>2, <1>5
<1>7. \A k \in Links : k # l => said'[k] = said[k] /\ (k \in table' => k \in table)
  OBVIOUS
<1>8. QED
  BY <1>3, <1>6, <1>7, RelaysAt

LEMMA PullDataRelays ==
  ASSUME SystemOK, Served, NEW l \in table, PullData(l), ~FailConn(l)
  PROVE  \A i \in Links : Relays(i)
<1>1. l \in Links /\ conn \in [Links -> ConnRec] /\ said \in [Links -> Saying \cup {None}] /\ Pulls(l)
  BY InTable DEF SystemOK, ServerTyped, PullData
<1>2. PICK c \in ConnRec, src \in Source, m \in Saying :
           /\ c = conn[l] /\ src = c.src /\ m = said[l] /\ m # None /\ c.out = <<>>
           /\ src.frame = m.head.frame /\ src.len = m.head.len
           /\ m.head.status # "nobody" => src.sent = Len(m.body)
           /\ src.frame = "chunked" /\ m.head.status # "nobody" => ~m.whole
           /\ SayingOK(m)
  BY <1>1, Pulling
<1>3. PICK s \in Nat, n \in Nat : s = src.sent /\ n = src.len
  BY DEF Source
<1>4. PICK unit : unit = Body(s + 1)
  OBVIOUS
<1>5. unit \in BodyPiece
  <2>1. s + 1 \in Nat
    OBVIOUS
  <2>2. QED
    BY <1>4, <2>1, Pieces
<1>6. /\ ~(src.frame = "length" /\ s + 1 > n)
      /\ conn' = [conn EXCEPT ![l].src.sent = @ + 1, ![l].out = <<unit>>]
      /\ said' = IF said[l].head.status = "nobody" THEN said
                 ELSE [said EXCEPT ![l].body = Append(@, unit),
                                   ![l].whole = DeclaredAll(src.frame, n, s + 1)]
      /\ UNCHANGED <<listening, table, heard, wire>>
  BY <1>2, <1>3, <1>4 DEF PullData
<1>7. PICK d : d = [[conn[l] EXCEPT !.src.sent = @ + 1] EXCEPT !.out = <<unit>>]
  OBVIOUS
<1>8. conn' = [conn EXCEPT ![l] = d]
  BY <1>1, <1>6, <1>7
<1>9. d.out = <<unit>>
  BY <1>1, <1>7 DEF ConnRec
<1>10. CASE m.head.status = "nobody"
  <2>1. said' = said /\ Grown(m, m)
    BY <1>2, <1>6, <1>10, GrownSame
  <2>2. ASSUME NEW k \in Nat, Brought(m, k) PROVE IsPiece(m, k + 1, unit) /\ Brought(m, k + 1)
    <3>1. k >= 1
      BY <1>10, <2>2 DEF Brought
    <3>2. k + 1 # 1 /\ k + 1 >= 1
      BY <3>1
    <3>3. QED
      BY <1>10, <3>2 DEF IsPiece, Brought
  <2>3. QED
    BY <1>1, <1>2, <1>6, <1>8, <1>9, <2>1, <2>2, PullAt
<1>11. CASE m.head.status # "nobody"
  <2>1. PICK body \in Seq(BodyPiece) : body = m.body /\ Len(body) = s
    BY <1>2, <1>3, <1>11 DEF Saying
  <2>2. PICK more : more = Append(body, unit)
    OBVIOUS
  <2>3. more \in Seq(BodyPiece) /\ Len(more) = s + 1
    BY <1>5, <2>1, <2>2
  <2>4. PICK whole : whole = DeclaredAll(src.frame, n, s + 1)
    OBVIOUS
  <2>5. whole \in BOOLEAN /\ (whole => src.frame = "length")
    BY <2>4 DEF DeclaredAll
  <2>6. PICK z : z = [m EXCEPT !.body = more, !.whole = whole]
    OBVIOUS
  <2>7. z \in Saying
    BY <2>3, <2>5, <2>6 DEF Saying
  <2>8. z.head = m.head /\ z.body = more /\ (z.whole <=> whole)
    BY <2>6 DEF Saying
  <2>9. said' = [said EXCEPT ![l] = z]
    BY <1>1, <1>2, <1>6, <1>11, <2>1, <2>2, <2>4, <2>6
  <2>10. said'[l] = z /\ \A k \in Links : k # l => said'[k] = said[k]
    BY <1>1, <2>9
  <2>11. ~m.whole
    <3>1. m.head.frame \in {"length", "chunked"}
      BY <1>2 DEF SayingOK
    <3>2. CASE m.head.frame = "length"
      <4>1. m.whole <=> s = n
        BY <1>2, <1>3, <1>11, <2>1, <3>2 DEF SayingOK
      <4>2. s # n
        BY <1>2, <1>6, <3>2
      <4>3. QED
        BY <4>1, <4>2
    <3>3. QED
      BY <1>2, <1>11, <3>1, <3>2
  <2>12. Grown(m, z)
    <3>1. Len(m.body) = s /\ Len(z.body) = s + 1
      BY <2>1, <2>3, <2>8
    <3>2. z # None
      BY <2>7, NoneIsNoRecord
    <3>3. QED
      BY <2>8, <2>11, <3>1, <3>2 DEF Grown
  <2>13. Total(m) = s + 1 /\ Total(z) = s + 2
    <3>1. Total(m) = 1 + Len(m.body) + 0
      BY <2>11 DEF Total
    <3>2. ~(z.head.frame = "chunked" /\ z.whole)
      BY <1>2, <2>5, <2>8
    <3>3. Total(z) = 1 + Len(z.body) + 0
      BY <3>2 DEF Total
    <3>4. Len(m.body) = s /\ Len(z.body) = s + 1
      BY <2>1, <2>3, <2>8
    <3>5. QED
      BY <3>1, <3>3, <3>4
  <2>14. ASSUME NEW k \in Nat, Brought(m, k) PROVE IsPiece(z, k + 1, unit) /\ Brought(z, k + 1)
    <3>1. k = s + 1
      BY <1>11, <2>13, <2>14 DEF Brought
    <3>2. k + 1 = s + 2 /\ k + 1 # 1 /\ k + 1 <= 1 + (s + 1) /\ (k + 1) - 1 = s + 1
      BY <3>1
    <3>3. z.head.status # "nobody" /\ Len(z.body) = s + 1
      BY <1>11, <2>3, <2>8
    <3>4. IsPiece(z, k + 1, unit)
      BY <1>4, <3>2, <3>3 DEF IsPiece
    <3>5. Brought(z, k + 1)
      BY <2>13, <3>2, <3>3 DEF Brought
    <3>6. QED
      BY <3>4, <3>5
  <2>15. /\ m = said[l] /\ conn[l].out = <<>> /\ table' = table /\ wire' = wire
         /\ z = said'[l] /\ \A k \in Links : k # l => said'[k] = said[k]
    BY <1>2, <1>6, <2>10
  <2>16. QED
    BY <1>1, <1>8, <1>9, <2>7, <2>12, <2>14, <2>15, PullAt
<1>12. QED
  BY <1>10, <1>11

LEMMA PullEofRelays ==
  ASSUME SystemOK, Served, NEW l \in table, PullEof(l), ~FailConn(l)
  PROVE  \A i \in Links : Relays(i)
<1>1. l \in Links /\ conn \in [Links -> ConnRec] /\ said \in [Links -> Saying \cup {None}] /\ Pulls(l)
  BY InTable DEF SystemOK, ServerTyped, PullEof
<1>2. PICK c \in ConnRec, src \in Source, m \in Saying :
           /\ c = conn[l] /\ src = c.src /\ m = said[l] /\ m # None /\ c.out = <<>>
           /\ src.frame = m.head.frame /\ src.len = m.head.len
           /\ m.head.status # "nobody" => src.sent = Len(m.body)
           /\ src.frame = "chunked" /\ m.head.status # "nobody" => ~m.whole
           /\ SayingOK(m)
  BY <1>1, Pulling
<1>3. /\ src.frame = "chunked"
      /\ conn' = [conn EXCEPT ![l].src.eof = TRUE, ![l].out = <<Last>>]
      /\ said' = [said EXCEPT ![l].whole = TRUE]
      /\ UNCHANGED <<listening, table, heard, wire>>
  BY <1>2 DEF PullEof
<1>4. PICK d : d = [[conn[l] EXCEPT !.src.eof = TRUE] EXCEPT !.out = <<Last>>]
  OBVIOUS
<1>5. conn' = [conn EXCEPT ![l] = d]
  BY <1>1, <1>3, <1>4
<1>6. d.out = <<Last>>
  BY <1>1, <1>4 DEF ConnRec
<1>7. PICK z : z = [m EXCEPT !.whole = TRUE]
  OBVIOUS
<1>8. z \in Saying
  BY <1>7 DEF Saying
<1>9. z.head = m.head /\ z.body = m.body /\ z.whole
  BY <1>7 DEF Saying
<1>10. said' = [said EXCEPT ![l] = z]
  BY <1>1, <1>2, <1>3, <1>7
<1>11. said'[l] = z /\ \A k \in Links : k # l => said'[k] = said[k]
  BY <1>1, <1>10
<1>12. PICK b \in Nat : b = Len(m.body) /\ b = Len(z.body)
  BY <1>9 DEF Saying
<1>13. Grown(m, z)
  <2>1. z # None
    BY <1>8, NoneIsNoRecord
  <2>2. QED
    BY <1>9, <1>12, <2>1 DEF Grown
<1>14. ASSUME NEW k \in Nat, Brought(m, k) PROVE IsPiece(z, k + 1, Last) /\ Brought(z, k + 1)
  <2>1. CASE m.head.status = "nobody"
    <3>1. k >= 1
      BY <1>14, <2>1 DEF Brought
    <3>2. k + 1 # 1 /\ k + 1 >= 1
      BY <3>1
    <3>3. QED
      BY <1>9, <2>1, <3>2 DEF IsPiece, Brought
  <2>2. CASE m.head.status # "nobody"
    <3>1. ~m.whole /\ m.head.frame = "chunked"
      BY <1>2, <1>3, <2>2
    <3>2. Total(m) = 1 + b + 0
      BY <1>12, <3>1 DEF Total
    <3>3. Total(z) = 1 + b + 1
      BY <1>9, <1>12, <3>1 DEF Total
    <3>4. k = 1 + b
      BY <1>14, <2>2, <3>2 DEF Brought
    <3>5. k + 1 = Total(z) /\ k + 1 # 1 /\ ~(k + 1 <= 1 + b)
      BY <3>3, <3>4
    <3>6. QED
      BY <1>9, <1>12, <2>2, <3>5 DEF IsPiece, Brought
  <2>3. QED
    BY <2>1, <2>2
<1>15. /\ m = said[l] /\ conn[l].out = <<>> /\ table' = table /\ wire' = wire
       /\ z = said'[l] /\ \A k \in Links : k # l => said'[k] = said[k]
  BY <1>2, <1>3, <1>11
<1>16. QED
  BY <1>1, <1>5, <1>6, <1>8, <1>13, <1>14, <1>15, PullAt

(* The rest of what the server does.                                        *)
LEMMA ServerSendRelays ==
  ASSUME SystemOK, Served, NEW l \in table, ServerSend(l)
  PROVE  \A i \in Links : Relays(i)
<1>1. PICK x \in LinkRec : x = wire[l] /\ x.c \in {"up", "closed"} /\ ~x.lost
  BY InTable DEF ServerSend
<1>2. PICK b \in ConnRec : b = conn[l] /\ b.out # <<>> /\ Staging(b, said[l]) /\ b.state # None
  BY InTable DEF ServerSend, Sends
<1>3. b.state \in {"sending", "streaming"}
  BY <1>2 DEF Staging, ConnRec
<1>4. PICK m \in Saying \cup {None} : m = said[l] /\ m # None
  BY <1>2, <1>3, InTable
<1>5. PICK q \in Seq(ReplyPiece) : q = b.out /\ q # <<>>
  BY <1>2 DEF ConnRec
<1>6. PICK piece, rest : piece = Head(q) /\ rest = Tail(q)
  OBVIOUS
<1>7. piece \in ReplyPiece /\ rest \in Seq(ReplyPiece)
  BY <1>5, <1>6, TailOf
<1>8. PICK c : c = [b EXCEPT !.out = rest]
  OBVIOUS
<1>9. c \in ConnRec /\ c.out = rest
  BY <1>2, <1>7, <1>8 DEF ConnRec
<1>10. PICK more : more = Append(x.down, piece)
  OBVIOUS
<1>11. more \in Seq(ReplyPiece)
  <2>1. x.down \in Seq(ReplyPiece)
    BY <1>1 DEF LinkRec
  <2>2. QED
    BY <1>7, <1>10, <2>1
<1>12. PICK y : y = IF x.c = "closed" THEN x ELSE [x EXCEPT !.down = more]
  OBVIOUS
<1>13. y \in LinkRec /\ y.c = x.c
  BY <1>11, <1>12 DEF LinkRec
<1>14. PICK w : w = IF x.c = "closed" THEN wire ELSE [wire EXCEPT ![l].down = Append(@, piece)]
  OBVIOUS
<1>15. l \in Links /\ wire \in [Links -> LinkRec] /\ conn \in [Links -> ConnRec]
  BY NowIs, InTable DEF SystemOK, Wiring, ServerTyped
<1>16. w = [wire EXCEPT ![l] = y]
  BY <1>1, <1>10, <1>12, <1>14, <1>15
<1>17. PICK d : d = IF rest = <<>> THEN [c EXCEPT !.state = "streaming"] ELSE c
  OBVIOUS
<1>18. d.out = rest
  BY <1>9, <1>17 DEF ConnRec
<1>19. /\ UNCHANGED <<listening, heard, said>>
       /\ IF rest = <<>> /\ Finished(c) THEN Pop(l, w)
          ELSE conn' = [conn EXCEPT ![l] = d] /\ wire' = w /\ UNCHANGED table
  <2>1. c = [conn[l] EXCEPT !.out = Tail(@)]
    BY <1>2, <1>5, <1>6, <1>8, <1>15
  <2>2. w = IF x.c = "closed" THEN wire ELSE [wire EXCEPT ![l].down = Append(@, Head(conn[l].out))]
    BY <1>2, <1>5, <1>6, <1>14
  <2>3. QED
    BY <1>1, <1>9, <1>17, <2>1, <2>2 DEF ServerSend
<1>20. table' \in {table, table \ {l}}
  BY <1>19 DEF Pop
<1>21. Carries(m, q, l \in table, x, m, rest, l \in table', y)
  <2>1. CASE x.c = "closed"
    BY <2>1, GrownSame DEF Carries
  <2>2. CASE x.c = "up"
    <3>1. y = [x EXCEPT !.down = more]
      BY <1>12, <2>2
    <3>2. y.down = Append(x.down, Head(q)) /\ ~y.lost
      BY <1>1, <1>6, <1>10, <3>1 DEF LinkRec
    <3>3. l \in table' => l \in table
      OBVIOUS
    <3>4. QED
      BY <1>1, <1>4, <1>5, <1>6, <3>2, <3>3, CarriesSent
  <2>3. QED
    BY <1>1, <2>1, <2>2
<1>22. Carries(said[l], conn[l].out, l \in table, wire[l], said[l], rest, l \in table', y)
  BY <1>1, <1>2, <1>4, <1>5, <1>21
<1>23. CASE rest = <<>> /\ Finished(c)
  <2>1. Pop(l, w) /\ said' = said /\ y.c = wire[l].c
    BY <1>1, <1>13, <1>19, <1>23
  <2>2. Carries(said[l], conn[l].out, l \in table, wire[l], said[l], <<>>, l \in table', y)
    BY <1>22, <1>23
  <2>3. QED
    BY <1>13, <1>15, <1>16, <2>1, <2>2, PopRelays
<1>24. CASE ~(rest = <<>> /\ Finished(c))
  <2>1. /\ conn' = [conn EXCEPT ![l] = d] /\ wire' = [wire EXCEPT ![l] = y] /\ said' = said
        /\ \A k \in Links : k # l => said'[k] = said[k] /\ (k \in table' => k \in table)
    BY <1>16, <1>19, <1>24
  <2>2. Carries(said[l], conn[l].out, l \in table, wire[l], said'[l], d.out, l \in table', y)
    BY <1>18, <1>22, <2>1
  <2>3. QED
    BY <1>15, <2>1, <2>2, RelaysAt
<1>25. QED
  BY <1>23, <1>24

LEMMA AcceptRelays ==
  ASSUME SystemOK, Served, NEW l \in Links, Accept(l)
  PROVE  \A i \in Links : Relays(i)
<1>1. wire \in [Links -> LinkRec] /\ conn \in [Links -> ConnRec] /\ said' = said
  BY NowIs DEF SystemOK, Wiring, ServerTyped, Accept
<1>2. PICK x \in LinkRec : x = wire[l] /\ x.s = "backlog"
  BY <1>1 DEF Accept
<1>3. PICK y : y = [x EXCEPT !.s = "up"]
  OBVIOUS
<1>4. y.s = "up" /\ y.down = x.down
  BY <1>3 DEF LinkRec
<1>5. Settled(y) = y
  BY <1>4 DEF Settled, Gone
<1>6. /\ wire' = [wire EXCEPT ![l] = y] /\ conn' = [conn EXCEPT ![l] = Accepted]
      /\ \A k \in Links : k # l => said'[k] = said[k] /\ (k \in table' => k \in table)
  BY <1>1, <1>2, <1>3, <1>5 DEF Accept
<1>7. said[l] = None
  <2>1. Serving(l \in table, wire[l].s, conn[l], said[l])
    BY DEF SystemOK, ServerInv
  <2>2. QED
    BY <1>2, <2>1 DEF Serving
<1>8. Carries(None, conn[l].out, l \in table, x, None, Accepted.out, l \in table', y)
  BY <1>4, CarriesNone
<1>9. Carries(said[l], conn[l].out, l \in table, wire[l], said'[l], Accepted.out, l \in table', y)
  BY <1>1, <1>2, <1>7, <1>8
<1>10. QED
  BY <1>6, <1>9, RelaysAt

LEMMA ServerRelays ==
  ASSUME SystemOK, ServerSteps
  PROVE  \A i \in Links : Relays(i)
<1>1. Served /\ UNCHANGED clientState
  BY DEF ServerSteps
<1>2. ASSUME NEW l \in Links, Tick(l) PROVE \A i \in Links : Relays(i)
  <2>1. l \in table
    BY <1>2 DEF Tick, RequestTimeout, ServerReceive, ServerReceiveEnd, Receives, ServerSend,
                ServerSendFails, Sends, PullData, PullEof, PullRaises, Pulls
  <2>2. CASE FailConn(l)
    BY <1>2, <2>2, FailConnRelays
  <2>3. CASE RequestTimeout(l) \/ ServerReceiveEnd(l) \/ ServerSendFails(l) \/ PullRaises(l)
    <3>1. FailConn(l)
      BY <2>3 DEF RequestTimeout, ServerReceiveEnd, RequestEof, ServerSendFails, PullRaises, SourceFails
    <3>2. QED
      BY <2>2, <3>1
  <2>4. QED
    BY <1>1, <1>2, <2>1, <2>2, <2>3, ServerReceiveRelays, ServerSendRelays, PullDataRelays,
       PullEofRelays DEF Tick
<1>3. CASE ServerClose
  BY <1>1, <1>3, CloseAllRelays DEF ServerClose
<1>4. CASE Listen
  <2>1. conn' = conn /\ wire' = wire /\ said' = said /\ table' = table
    BY <1>4 DEF Listen
  <2>2. QED
    BY <2>1, RelaysRest
<1>5. QED
  BY <1>1, <1>2, <1>3, <1>4, AcceptRelays DEF ServerSteps, ServerHandle

(* In a pair nothing else happens to a connection than that it breaks.      *)
LEMMA ForeignRelays ==
  ASSUME SystemOK, NEW l \in Links, ForeignSteps(l), world = "pair"
  PROVE  \A i \in Links : Relays(i)
<1>1. LinkBreaks(l) /\ conn' = conn /\ said' = said /\ table' = table
  BY DEF ForeignSteps, Served, Asked, serverState
<1>2. wire \in [Links -> LinkRec] /\ conn \in [Links -> ConnRec] /\ said[l] \in Saying \cup {None}
  BY NowIs DEF SystemOK, Wiring, ServerTyped
<1>3. PICK y : y = [wire[l] EXCEPT !.lost = TRUE, !.up = <<>>, !.down = <<>>]
  OBVIOUS
<1>4. wire' = [wire EXCEPT ![l] = y] /\ conn' = [conn EXCEPT ![l] = conn[l]]
  BY <1>1, <1>2, <1>3 DEF LinkBreaks
<1>5. y.lost /\ y.down = <<>>
  <2>1. wire[l] \in LinkRec
    BY <1>2
  <2>2. QED
    BY <1>3, <2>1 DEF LinkRec
<1>6. Carries(said[l], conn[l].out, l \in table, wire[l], said[l], conn[l].out, l \in table', y)
  BY <1>2, <1>5, CarriesLost
<1>7. Carries(said[l], conn[l].out, l \in table, wire[l], said'[l], conn[l].out, l \in table', y)
  BY <1>1, <1>6
<1>8. \A k \in Links : k # l => said'[k] = said[k] /\ (k \in table' => k \in table)
  BY <1>1
<1>9. QED
  BY <1>4, <1>7, <1>8, RelaysAt

-----------------------------------------------------------------------------
(* Every step keeps the invariant of the responses.                         *)
LEMMA ReplyStep == (world = "pair" => ReplyInv) /\ SystemOK /\ SystemOK' /\ [HttpNext]_vars
                   => (world = "pair" => ReplyInv)'
<1> SUFFICES ASSUME world = "pair" => ReplyInv, SystemOK, SystemOK', [HttpNext]_vars, (world = "pair")'
             PROVE  ReplyInv'
  OBVIOUS
<1>1. world' = world
  BY DEF HttpNext, vars, ClientSteps, ServerSteps, ForeignSteps
<1>2. world = "pair" /\ ReplyInv /\ Served /\ Asked
  BY <1>1 DEF Served, Asked
<1>3. said' \in [Links -> Saying \cup {None}]
  BY DEF SystemOK, ServerTyped
<1>4. ASSUME UNCHANGED clientState, \A l \in Links : Relays(l) PROVE ReplyInv'
  BY <1>2, <1>3, <1>4, RelaysAll
<1>5. CASE UNCHANGED vars
  <2>1. UNCHANGED clientState /\ conn' = conn /\ wire' = wire /\ said' = said /\ table' = table
    BY <1>5 DEF vars, clientState
  <2>2. \A l \in Links : Relays(l)
    BY <2>1, RelaysRest
  <2>3. QED
    BY <1>4, <2>1, <2>2
<1>6. CASE ServerSteps
  <2>1. UNCHANGED clientState
    BY <1>6 DEF ServerSteps
  <2>2. QED
    BY <1>4, <1>6, <2>1, ServerRelays
<1>7. ASSUME NEW l \in Links, ForeignSteps(l) PROVE ReplyInv'
  <2>1. UNCHANGED clientState
    BY <1>7 DEF ForeignSteps
  <2>2. \A i \in Links : Relays(i)
    BY <1>2, <1>7, ForeignRelays
  <2>3. QED
    BY <1>4, <2>1, <2>2
<1>8. CASE ClientSteps
  <2>1. (ClientHandle \/ ClientApp) /\ said' = said /\ conn' = conn /\ table' = table
    BY <1>8 DEF ClientSteps, serverState
  <2>2. Replied(Now')
    BY <1>2, <2>1, ClientReplies
  <2>3. Now'.h = handles'
    BY DEF Now
  <2>4. QED
    BY <2>1, <2>2, <2>3 DEF Replied, ReplyInv
<1>9. QED
  BY <1>5, <1>6, <1>7, <1>8 DEF HttpNext

LEMMA ReplyInit == HttpInit => ReplyInv
<1> SUFFICES ASSUME HttpInit PROVE ReplyInv
  OBVIOUS
<1>1. PICK p \in Policies : client = Idle(p)
  BY DEF HttpInit, ClientInit
<1>2. handles = [i \in Ids |-> NoHandle]
  BY DEF HttpInit, ClientInit
<1>3. Now.c = client /\ client.socket = None
  BY <1>1 DEF Now, Idle
<1>4. ASSUME NEW i \in Ids PROVE Shown(handles[i], said)
  BY <1>2, WireAssumption DEF Shown, NoHandle, WireAssumption, Statuses
<1>5. QED
  BY <1>3, <1>4 DEF ReplyInv, Relayed

(* What is shown of a response are its first units.                         *)
LEMMA ShownFaithful ==
  ASSUME NEW m \in Saying, SayingOK(m), NEW h \in HandleRec, h.resp # None, NEW S, S[h.resp] = m,
         Shown(h, S)
  PROVE  LET got == h.body \o h.buf IN
         /\ m.head.status = h.status /\ got = SubSeq(m.body, 1, Len(got))
         /\ h.result = "ok" => m.whole /\ got = m.body
<1>1. PICK a \in Seq(BodyPiece), b \in Seq(BodyPiece), c \in Seq(BodyPiece) :
        a = h.body /\ b = h.buf /\ c = m.body
  BY DEF HandleRec, Saying
<1>2. PICK n \in Nat, k \in Nat, u \in Nat : n = Len(a) /\ k = Len(b) /\ u = Len(c)
  OBVIOUS
<1>3. /\ m.head.status = h.status /\ n + k <= u
      /\ \A j \in 1..n : a[j] = Body(0 + j)
      /\ \A j \in 1..k : b[j] = Body(n + j)
      /\ h.result = "ok" => m.whole /\ n + k = u
  BY <1>1, <1>2 DEF Shown, From
<1>4. \A j \in 1..u : c[j] = Body(j)
  <2>1. CASE m.head.status = "nobody"
    <3>1. u = 0
      BY <1>1, <1>2, <2>1 DEF SayingOK
    <3>2. QED
      BY <3>1
  <2>2. CASE m.head.status # "nobody"
    <3>1. c = Units(u)
      BY <1>1, <1>2, <2>2 DEF SayingOK
    <3>2. QED
      BY <3>1, Pieces
  <2>3. QED
    BY <2>1, <2>2
<1>5. PICK g : g = a \o b
  OBVIOUS
<1>6. g \in Seq(BodyPiece) /\ Len(g) = n + k
      /\ \A j \in 1..(n + k) : g[j] = IF j <= n THEN a[j] ELSE b[j - n]
  BY <1>2, <1>5, ConcatProperties
<1>7. ASSUME NEW j \in 1..(n + k) PROVE g[j] = c[j]
  <2>1. c[j] = Body(j)
    BY <1>3, <1>4
  <2>2. CASE j <= n
    <3>1. j \in 1..n /\ 0 + j = j
      BY <2>2
    <3>2. QED
      BY <1>3, <1>6, <2>1, <2>2, <3>1
  <2>3. CASE ~(j <= n)
    <3>1. j - n \in 1..k /\ n + (j - n) = j
      BY <2>3
    <3>2. b[j - n] = Body(n + (j - n))
      BY <1>3, <3>1
    <3>3. QED
      BY <1>6, <2>1, <2>3, <3>1, <3>2
  <2>4. QED
    BY <2>2, <2>3
<1>8. PICK f : f = SubSeq(c, 1, n + k)
  OBVIOUS
<1>9. f \in Seq(BodyPiece) /\ Len(f) = n + k /\ \A j \in 1..(n + k) : f[j] = c[j]
  <2>1. \A j \in 1..(n + k) : c[j] \in BodyPiece
    BY <1>2, <1>3
  <2>2. 1 \in Int /\ n + k \in Int
    OBVIOUS
  <2>3. /\ f \in Seq(BodyPiece) /\ Len(f) = IF 1 <= n + k THEN (n + k) - 1 + 1 ELSE 0
        /\ \A j \in 1..((n + k) - 1 + 1) : f[j] = c[1 + j - 1]
    BY <1>8, <2>1, <2>2, SubSeqProperties
  <2>4. (IF 1 <= n + k THEN (n + k) - 1 + 1 ELSE 0) = n + k /\ (n + k) - 1 + 1 = n + k
    OBVIOUS
  <2>5. \A j \in 1..(n + k) : 1 + j - 1 = j
    OBVIOUS
  <2>6. QED
    BY <2>3, <2>4, <2>5
<1>10. g = f
  BY <1>6, <1>7, <1>9, SeqEqual
<1>11. h.result = "ok" => m.whole /\ g = c
  <2>1. ASSUME h.result = "ok" PROVE g = c
    <3>1. Len(g) = Len(c) /\ \A j \in 1..Len(g) : g[j] = c[j]
      BY <1>2, <1>3, <1>6, <1>7, <2>1
    <3>2. QED
      BY <1>6, <3>1, SeqEqual
  <2>2. QED
    BY <1>3, <2>1
<1>12. QED
  BY <1>1, <1>3, <1>5, <1>6, <1>8, <1>10, <1>11

LEMMA ReplyFaithful ==
  ASSUME SystemOK, ReplyInv, Served, NEW i \in Ids, handles[i].resp # None
  PROVE  LET h == handles[i]  got == h.body \o h.buf IN
         /\ said[h.resp] # None /\ said[h.resp].head.status = h.status
         /\ got = SubSeq(said[h.resp].body, 1, Len(got))
         /\ h.result = "ok" => said[h.resp].whole /\ got = said[h.resp].body
<1>1. handles[i] \in HandleRec
  BY NowIs DEF SystemOK, Wiring
<1>2. PICK h \in HandleRec : h = handles[i] /\ Shown(h, said) /\ h.resp # None
  BY <1>1 DEF ReplyInv
<1>3. PICK l \in Links : l = h.resp
  BY <1>2 DEF HandleRec
<1>4. said[l] # None
  BY <1>2, <1>3 DEF Shown
<1>5. PICK m \in Saying : m = said[l] /\ SayingOK(m)
  BY <1>4, SaidIs
<1>6. LET got == h.body \o h.buf IN
      /\ m.head.status = h.status /\ got = SubSeq(m.body, 1, Len(got))
      /\ h.result = "ok" => m.whole /\ got = m.body
  BY <1>2, <1>3, <1>5, ShownFaithful
<1>7. QED
  BY <1>2, <1>3, <1>4, <1>5, <1>6

(* What the application is shown of a response is what a handler of the     *)
(* server decided on, unit by unit, and all of it when the request          *)
(* succeeded: HttpServer._stage_response and _StreamState.pull on one side, *)
(* the client's ResponseParser, _finish and read_body_into on the other.    *)
THEOREM HttpFaithful == Spec => []Faithful
<1>1. HttpInit => (world = "pair" => ReplyInv)
  BY ReplyInit
<1>2. (world = "pair" => ReplyInv) /\ SystemOK => Faithful
  BY ReplyFaithful DEF Faithful, Served
<1>3. QED
  BY <1>1, <1>2, ReplyStep, HttpInvariant, PTL DEF Spec
=============================================================================

-------------------------- MODULE HttpClient_proofs --------------------------
(***************************************************************************)
(* The invariant of the HTTP client against any peer, for any requests,    *)
(* limits and bounds, and what each of its steps does to the connections   *)
(* and tells of its requests.                                              *)
(***************************************************************************)
EXTENDS HttpClient, FiniteSetTheorems, SequenceTheorems, WellFoundedInduction, TLAPS

-----------------------------------------------------------------------------
(* The invariant.  A state is the client, its handles and the connections.  *)
LinkRec == [c : {"none", "dialling", "up", "closed"}, s : {"none", "backlog", "up", "closed"},
            up : Seq(AskPiece), down : Seq(ReplyPiece), lost : BOOLEAN]
ClientRec == [state : {"idle", "awaiting", "sending", "receiving"}, request : Ids \cup {None},
              connector : Links \cup {None}, socket : Links \cup {None}, tx : Seq(AskPiece),
              parser : Parser \cup {None}, stream : BOOLEAN, left : Nat, armed : BOOLEAN,
              calls : Seq({"done", "oversized"}), policy : Policies]
HandleRec == [phase : {"unused", "pending", "done"}, ask : Request \cup {None},
              result : {"ok", "error", "dropped", None}, resp : Links \cup {None},
              status : Statuses \cup {None}, body : Seq(BodyPiece), buf : Seq(BodyPiece),
              fill : Nat, hops : Nat, told : Nat]
State == [c : ClientRec, h : [Ids -> HandleRec], w : [Links -> LinkRec]]

(* A handle.                                                                *)
HandleOK(h) ==
  /\ h.phase = "unused" => h = NoHandle
  /\ h.phase # "unused" => h.ask \in Request
  /\ Len(h.buf) <= h.fill /\ h.fill <= StreamBuffer
  /\ h.resp = None => h.body = <<>> /\ h.buf = <<>> /\ h.fill = 0

(* A request under way: its handle, its parser, its transport.              *)
Mine(s) == s.h[s.c.request]

Assigned(s) ==
  /\ s.c.request \in Ids /\ s.c.armed
  /\ Mine(s).phase = "pending"
  /\ s.c.stream = Mine(s).ask.stream
  /\ Mine(s).hops + s.c.left = Mine(s).ask.redirects + 1
  /\ Mine(s).resp # None => s.c.stream /\ Mine(s).resp = s.c.socket /\ s.c.calls = <<>>
                            /\ Mine(s).status = s.c.parser.status

Sound(p, stream) ==
  /\ p \in Parser
  /\ p.st = "status" => p = NewParser
  /\ p.st \in {"body", "chunks", "done", "oversized"} => p.status # None
  /\ p.st = "oversized" => ~stream
  /\ stream => p.body = <<>>
  /\ Len(p.body) <= MaxBody
  /\ p.st = "body" /\ p.left # None => p.left > 0 /\ (~stream => Len(p.body) + p.left <= MaxBody)

Parsing(s) ==
  LET p == s.c.parser IN
  /\ Sound(p, s.c.stream) /\ p.st \in {"status", "body", "chunks", "oversized"}
  /\ s.c.state # "receiving" => p = NewParser
  /\ p.st = "status" => Mine(s).resp = None
  /\ p.st = "oversized" => s.c.calls # <<>> /\ s.c.calls[Len(s.c.calls)] = "oversized"
  /\ s.c.stream /\ p.st # "status" /\ Mine(s).resp = None => Redirected(s)

Transport(s) ==
  /\ s.c.state = "awaiting" <=> s.c.connector # None
  /\ s.c.state = "awaiting" <=> s.c.socket = None
  /\ s.c.state \in {"awaiting", "sending"} => s.c.tx # <<>>

Busy(s) == Assigned(s) /\ Parsing(s) /\ Transport(s)

(* The client, whatever its peer does.                                      *)
ClientInv(s) ==
  /\ s.c.state = "idle" => s.c = [Idle(s.c.policy) EXCEPT !.calls = s.c.calls]
  /\ s.c.state # "idle" => Busy(s)
  /\ \A i \in Ids : HandleOK(s.h[i])
                    /\ (s.h[i].phase = "pending" => s.c.state # "idle" /\ i = s.c.request)

(* The connections of the client: open are only those it uses, those never  *)
(* made are fresh, those it closed deliver nothing.                         *)
Opened(s) ==
  /\ s.c.connector # None => s.w[s.c.connector].c = "dialling"
  /\ s.c.socket # None => s.w[s.c.socket].c = "up"
  /\ \A l \in Links : s.w[l].c \in {"dialling", "up"} => l \in {s.c.connector, s.c.socket}

FreshLinks(w) == \A l \in Links : w[l].c \in {"none", "dialling"} => w[l] = [NewLink EXCEPT !.c = w[l].c]
ClosedLinks(w) == \A l \in Links : w[l].c = "closed" => w[l].down = <<>>

-----------------------------------------------------------------------------
(* Pieces and connections.                                                  *)
LEMMA Pieces ==
  ASSUME NEW n \in Nat
  PROVE  /\ Body(n) \in BodyPiece /\ Body(n) \in ReplyPiece /\ Body(n) \in AskPiece
         /\ Units(n) \in Seq(BodyPiece) /\ Units(n) \in Seq(ReplyPiece) /\ Units(n) \in Seq(AskPiece)
         /\ Len(Units(n)) = n /\ \A i \in 1..n : Units(n)[i] = Body(i)
         /\ Last \in ReplyPiece
         /\ \A m \in {"GET", "POST"} : RequestHead(m, n) \in AskPiece
<1>1. \A i \in Nat : Body(i) \in BodyPiece
  BY DEF Body, BodyPiece
<1>2. BodyPiece \subseteq ReplyPiece /\ BodyPiece \subseteq AskPiece
  BY DEF ReplyPiece, AskPiece
<1>3. Units(n) = [i \in 1..n |-> Body(i)]
  BY DEF Units
<1>4. \A i \in 1..n : i \in Nat
  OBVIOUS
<1>5. \A i \in 1..n : Body(i) \in BodyPiece
  BY <1>1, <1>4
<1>6. Units(n) \in Seq(BodyPiece)
  BY <1>3, <1>5
<1>7. Units(n) \in Seq(ReplyPiece) /\ Units(n) \in Seq(AskPiece)
  BY <1>3, <1>5, <1>2
<1>8. Len(Units(n)) = n
  BY <1>3
<1>9. Last \in ReplyPiece
  BY DEF Last, ReplyPiece
<1>10. ASSUME NEW m \in {"GET", "POST"} PROVE RequestHead(m, n) \in AskPiece
  BY DEF RequestHead, AskPiece
<1>11. QED
  BY <1>1, <1>2, <1>3, <1>6, <1>7, <1>8, <1>9, <1>10

LEMMA NoneNoLink == None \notin Links /\ None \notin Nat /\ None \notin Ids
<1>1. None \notin Links /\ None \notin Nat
  BY WireAssumption DEF WireAssumption
<1>2. \A i \in Ids : i \in Nat
  BY ClientAssumption DEF ClientAssumption, Ids
<1>3. QED
  BY <1>1, <1>2

LEMMA Settles ==
  ASSUME NEW x \in LinkRec
  PROVE  /\ Settled(x) \in LinkRec
         /\ Settled(x).c = x.c /\ Settled(x).s = x.s
         /\ Settled(x).up \in {x.up, <<>>} /\ Settled(x).down \in {x.down, <<>>}
         /\ Settled(x).lost => x.lost
         /\ ~Gone(x) => Settled(x) = x
<1>1. CASE Gone(x)
  <2> DEFINE y == [x EXCEPT !.up = <<>>, !.down = <<>>, !.lost = FALSE]
  <2>1. Settled(x) = y
    BY <1>1 DEF Settled
  <2>2. y.c = x.c /\ y.s = x.s /\ y.up = <<>> /\ y.down = <<>> /\ y.lost = FALSE
    BY DEF LinkRec
  <2>3. <<>> \in Seq(AskPiece) /\ <<>> \in Seq(ReplyPiece)
    OBVIOUS
  <2>4. y \in LinkRec
    BY <2>3 DEF LinkRec
  <2>5. QED
    BY <1>1, <2>1, <2>2, <2>4
<1>2. CASE ~Gone(x)
  BY <1>2 DEF Settled
<1>3. QED
  BY <1>1, <1>2

LEMMA ClientEnds ==
  ASSUME NEW x \in LinkRec
  PROVE  /\ CloseClientEnd(x) \in LinkRec /\ CloseClientEnd(x).c = "closed"
         /\ CloseClientEnd(x).s = x.s /\ CloseClientEnd(x).down = <<>>
         /\ CloseClientEnd(x).up \in {x.up, <<>>}
         /\ CloseClientEnd(x).lost => x.lost
         /\ x.s \in {"backlog", "up"} =>
              CloseClientEnd(x).up = x.up /\ CloseClientEnd(x).lost = x.lost
<1> DEFINE y == [x EXCEPT !.c = "closed", !.down = <<>>]
<1>1. CloseClientEnd(x) = Settled(y)
  BY DEF CloseClientEnd
<1>2. y.c = "closed" /\ y.s = x.s /\ y.up = x.up /\ y.down = <<>> /\ y.lost = x.lost
  BY DEF LinkRec
<1>3. <<>> \in Seq(ReplyPiece)
  OBVIOUS
<1>4. y \in LinkRec
  BY <1>3 DEF LinkRec
<1>5. x.s \in {"backlog", "up"} => ~Gone(y)
  BY <1>2 DEF Gone
<1> HIDE DEF y
<1>6. QED
  BY <1>1, <1>2, <1>4, <1>5, Settles

LEMMA ServerEnds ==
  ASSUME NEW x \in LinkRec
  PROVE  /\ CloseServerEnd(x) \in LinkRec /\ CloseServerEnd(x).s = "closed"
         /\ CloseServerEnd(x).c = x.c /\ CloseServerEnd(x).up = <<>>
         /\ CloseServerEnd(x).down \in {x.down, <<>>}
         /\ CloseServerEnd(x).lost => x.lost
         /\ x.c = "up" => CloseServerEnd(x).down = x.down /\ CloseServerEnd(x).lost = x.lost
<1> DEFINE y == [x EXCEPT !.s = "closed", !.up = <<>>]
<1>1. CloseServerEnd(x) = Settled(y)
  BY DEF CloseServerEnd
<1>2. y.c = x.c /\ y.s = "closed" /\ y.up = <<>> /\ y.down = x.down /\ y.lost = x.lost
  BY DEF LinkRec
<1>3. <<>> \in Seq(AskPiece)
  OBVIOUS
<1>4. y \in LinkRec
  BY <1>3 DEF LinkRec
<1>5. x.c = "up" => ~Gone(y)
  BY <1>2 DEF Gone
<1> HIDE DEF y
<1>6. QED
  BY <1>1, <1>2, <1>4, <1>5, Settles

LEMMA HangsUp ==
  ASSUME NEW s \in State
  PROVE  /\ Held(s.c) \in Links \cup {None} /\ HungUp(s) \in [Links -> LinkRec]
         /\ \A l \in Links : HungUp(s)[l] = IF l = Held(s.c) THEN CloseClientEnd(s.w[l]) ELSE s.w[l]
<1>1. s.c \in ClientRec /\ s.w \in [Links -> LinkRec]
  BY DEF State
<1>2. Held(s.c) \in Links \cup {None}
  BY <1>1 DEF Held, ClientRec
<1>3. None \notin Links
  BY WireAssumption
<1>4. QED
  BY <1>1, <1>2, <1>3, ClientEnds DEF HungUp

LEMMA ClosesSocket ==
  ASSUME NEW s \in State
  PROVE  LET r == CloseSocketOnly(s) IN
         /\ r \in State /\ r.h = s.h /\ r.w = HungUp(s)
         /\ r.c.state = "idle" /\ r.c.connector = None /\ r.c.socket = None /\ r.c.tx = <<>>
         /\ r.c.parser = None
         /\ r.c.request = s.c.request /\ r.c.stream = s.c.stream /\ r.c.left = s.c.left
         /\ r.c.armed = s.c.armed /\ r.c.calls = s.c.calls /\ r.c.policy = s.c.policy
<1> DEFINE d == [s.c EXCEPT !.connector = None, !.socket = None, !.tx = <<>>,
                            !.parser = None, !.state = "idle"]
           r == CloseSocketOnly(s)
<1>1. s.c \in ClientRec /\ s.w \in [Links -> LinkRec] /\ s.h \in [Ids -> HandleRec]
  BY DEF State
<1>2. r.c = d /\ r.h = s.h /\ r.w = HungUp(s)
  BY DEF CloseSocketOnly, State
<1>3. <<>> \in Seq(AskPiece)
  OBVIOUS
<1>4. d \in ClientRec
  BY <1>1, <1>3 DEF ClientRec
<1>5. r \in [c : {r.c}, h : {r.h}, w : {r.w}]
  BY DEF CloseSocketOnly, State
<1>6. r \in State
  BY <1>1, <1>2, <1>4, <1>5, HangsUp DEF State
<1>7. d.state = "idle" /\ d.connector = None /\ d.socket = None /\ d.tx = <<>> /\ d.parser = None
      /\ d.request = s.c.request /\ d.stream = s.c.stream /\ d.left = s.c.left
      /\ d.armed = s.c.armed /\ d.calls = s.c.calls /\ d.policy = s.c.policy
  BY <1>1 DEF ClientRec
<1>8. QED
  BY <1>2, <1>6, <1>7

Idling(policy, calls) == [Idle(policy) EXCEPT !.calls = calls]

LEMMA Resets ==
  ASSUME NEW s \in State
  PROVE  LET r == ResetSocket(s) IN
         /\ r \in State /\ r.h = s.h /\ r.w = HungUp(s)
         /\ r.c = Idling(s.c.policy, s.c.calls)
<1>1. PICK t \in State : t = CloseSocketOnly(s)
  BY ClosesSocket
<1> DEFINE d == [t.c EXCEPT !.request = None, !.stream = FALSE, !.armed = FALSE, !.left = 0]
           e == [Idle(s.c.policy) EXCEPT !.calls = s.c.calls]
           r == ResetSocket(s)
<1>2. t.c \in ClientRec
  BY <1>1 DEF State
<1>3. r.c = d /\ r.h = t.h /\ r.w = t.w
  BY <1>1 DEF ResetSocket, State
<1>4. d \in ClientRec
  BY <1>2 DEF ClientRec
<1>5. s.c.calls \in Seq({"done", "oversized"}) /\ s.c.policy \in Policies
  BY DEF State, ClientRec
<1>6. <<>> \in Seq(AskPiece)
  OBVIOUS
<1>7. e \in ClientRec
  BY <1>5, <1>6 DEF Idle, ClientRec
<1>8. d = e
  <2>1. d.state = "idle" /\ d.request = None /\ d.connector = None /\ d.socket = None /\ d.tx = <<>> /\ d.parser = None
      /\ d.stream = FALSE /\ d.left = 0 /\ d.armed = FALSE
      /\ d.calls = s.c.calls /\ d.policy = s.c.policy
    BY <1>1, <1>2, ClosesSocket DEF ClientRec
  <2>2. e.state = "idle" /\ e.request = None /\ e.connector = None /\ e.socket = None /\ e.tx = <<>> /\ e.parser = None
      /\ e.stream = FALSE /\ e.left = 0 /\ e.armed = FALSE
      /\ e.calls = s.c.calls /\ e.policy = s.c.policy
    BY DEF Idle
  <2> HIDE DEF d, e
  <2>3. QED
    BY <1>4, <1>7, <2>1, <2>2 DEF ClientRec
<1>9. r \in [c : {r.c}, h : {r.h}, w : {r.w}]
  BY <1>1 DEF ResetSocket, State
<1>10. r \in State
  BY <1>1, <1>3, <1>4, <1>9 DEF State
<1>11. QED
  BY <1>1, <1>3, <1>8, <1>10, ClosesSocket DEF Idling

Done(h, res) == [h EXCEPT !.phase = "done", !.result = res, !.told = @ + 1]

LEMMA Completes ==
  ASSUME NEW s \in State, NEW i \in Ids, i = s.c.request, NEW res \in {"ok", "error", "dropped"}
  PROVE  LET r == Complete(s, res) IN
         /\ r \in State /\ r.w = HungUp(s)
         /\ r.c = Idling(s.c.policy, Append(s.c.calls, "done"))
         /\ r.h[i] = Done(s.h[i], res) /\ \A j \in Ids : j # i => r.h[j] = s.h[j]
         /\ Done(s.h[i], res) \in HandleRec
         /\ Done(s.h[i], res).phase = "done" /\ Done(s.h[i], res).result = res
         /\ Done(s.h[i], res).told = s.h[i].told + 1
         /\ Done(s.h[i], res).ask = s.h[i].ask /\ Done(s.h[i], res).resp = s.h[i].resp
         /\ Done(s.h[i], res).status = s.h[i].status /\ Done(s.h[i], res).body = s.h[i].body
         /\ Done(s.h[i], res).buf = s.h[i].buf /\ Done(s.h[i], res).fill = s.h[i].fill
         /\ Done(s.h[i], res).hops = s.h[i].hops
<1>1. PICK t \in State : t = ResetSocket(s)
  BY Resets
<1>2. i \in Ids /\ i = s.c.request
  OBVIOUS
<1> DEFINE d == Done(s.h[i], res)
           e == [Idle(s.c.policy) EXCEPT !.calls = Append(s.c.calls, "done")]
           r == Complete(s, res)
<1>3. t.c = [Idle(s.c.policy) EXCEPT !.calls = s.c.calls] /\ t.h = s.h /\ t.w = HungUp(s)
  BY <1>1, Resets DEF Idling
<1>4. r = [t EXCEPT !.h[i].phase = "done", !.h[i].result = res,
                    !.h[i].told = @ + 1, !.c.calls = Append(@, "done")]
  BY <1>1, <1>2 DEF Complete
<1>5. s.h[i] \in HandleRec /\ t.h \in [Ids -> HandleRec]
  BY <1>1 DEF State
<1>6. /\ d \in HandleRec /\ d.phase = "done" /\ d.result = res /\ d.told = s.h[i].told + 1
      /\ d.ask = s.h[i].ask /\ d.resp = s.h[i].resp /\ d.status = s.h[i].status
      /\ d.body = s.h[i].body /\ d.buf = s.h[i].buf /\ d.fill = s.h[i].fill
      /\ d.hops = s.h[i].hops
  <2>1. PICK n \in Nat : n = s.h[i].told
    BY <1>5 DEF HandleRec
  <2>2. d = [s.h[i] EXCEPT !.phase = "done", !.result = res, !.told = n + 1] /\ n + 1 \in Nat
    BY <2>1 DEF Done
  <2>3. QED
    BY <1>5, <2>1, <2>2 DEF HandleRec
<1>7. r.c = [t.c EXCEPT !.calls = Append(@, "done")] /\ r.w = t.w
  BY <1>4 DEF State
<1>8. r.c = e
  BY <1>3, <1>7 DEF Idle
<1>9. r.h = [t.h EXCEPT ![i].phase = "done", ![i].result = res, ![i].told = @ + 1]
  BY <1>4 DEF State
<1>10. r.h = [s.h EXCEPT ![i] = d]
  BY <1>3, <1>5, <1>9 DEF Done, HandleRec
<1>11. s.c.calls \in Seq({"done", "oversized"}) /\ s.c.policy \in Policies
  BY DEF State, ClientRec
<1>12. <<>> \in Seq(AskPiece) /\ Append(s.c.calls, "done") \in Seq({"done", "oversized"})
  BY <1>11
<1>13. e \in ClientRec
  BY <1>11, <1>12 DEF Idle, ClientRec
<1>14. r \in [c : {r.c}, h : {r.h}, w : {r.w}]
  BY <1>4 DEF State
<1>15. r.h \in [Ids -> HandleRec]
  BY <1>3, <1>5, <1>6, <1>10
<1>16. r \in State
  BY <1>3, <1>7, <1>8, <1>13, <1>14, <1>15, HangsUp DEF State
<1>17. r.h[i] = d /\ \A j \in Ids : j # i => r.h[j] = s.h[j]
  BY <1>3, <1>5, <1>6, <1>10
<1>18. e = Idling(s.c.policy, Append(s.c.calls, "done"))
  BY DEF Idling
<1> HIDE DEF d, e, r
<1>19. QED
  BY <1>2, <1>3, <1>6, <1>7, <1>8, <1>16, <1>17, <1>18 DEF r, d

LEMMA Publishes ==
  ASSUME NEW s \in State, NEW i \in Ids, i = s.c.request, s.c.parser \in Parser, s.c.parser.status # None
  PROVE  LET r == Publish(s) IN
         /\ r \in State /\ r.w = s.w /\ r.c = s.c
         /\ r.h[i] \in HandleRec /\ \A j \in Ids : j # i => r.h[j] = s.h[j]
         /\ r.h[i].resp = s.c.socket /\ r.h[i].status = s.c.parser.status
         /\ r.h[i].phase = s.h[i].phase /\ r.h[i].ask = s.h[i].ask /\ r.h[i].result = s.h[i].result
         /\ r.h[i].body = s.h[i].body /\ r.h[i].buf = s.h[i].buf /\ r.h[i].fill = s.h[i].fill
         /\ r.h[i].hops = s.h[i].hops /\ r.h[i].told = s.h[i].told
<1>1. i \in Ids /\ i = s.c.request
  OBVIOUS
<1> DEFINE d == [s.h[i] EXCEPT !.resp = s.c.socket, !.status = s.c.parser.status]
           r == Publish(s)
<1>2. s.h[i] \in HandleRec /\ s.h \in [Ids -> HandleRec]
  BY DEF State
<1>3. s.c.socket \in Links \cup {None} /\ s.c.parser.status \in Statuses \cup {None}
  BY DEF State, ClientRec, Parser, Statuses
<1>4. /\ d \in HandleRec /\ d.resp = s.c.socket /\ d.status = s.c.parser.status
      /\ d.phase = s.h[i].phase /\ d.result = s.h[i].result /\ d.told = s.h[i].told
      /\ d.ask = s.h[i].ask
      /\ d.body = s.h[i].body /\ d.buf = s.h[i].buf /\ d.fill = s.h[i].fill
      /\ d.hops = s.h[i].hops
  BY <1>2, <1>3 DEF HandleRec
<1>5. r.c = s.c /\ r.w = s.w
  BY DEF Publish, State
<1>6. r.h = [s.h EXCEPT ![i].resp = s.c.socket, ![i].status = s.c.parser.status]
  BY <1>1 DEF Publish, State
<1>7. r.h = [s.h EXCEPT ![i] = d]
  BY <1>2, <1>6 DEF HandleRec
<1>8. r \in [c : {r.c}, h : {r.h}, w : {r.w}]
  BY DEF Publish, State
<1> HIDE DEF d, r
<1>9. r.h[i] = d /\ r.h \in [Ids -> HandleRec] /\ \A j \in Ids : j # i => r.h[j] = s.h[j]
  BY <1>2, <1>4, <1>7
<1>10. r \in State
  BY <1>5, <1>8, <1>9 DEF State
<1>11. QED
  BY <1>1, <1>4, <1>5, <1>9, <1>10 DEF r

(* A handle one hop on, and a connection that is being made.                *)
HopOn(a, b) ==
  /\ a \in HandleRec /\ a.hops = b.hops + 1
  /\ a.phase = b.phase /\ a.ask = b.ask /\ a.result = b.result /\ a.told = b.told
  /\ a.resp = b.resp /\ a.status = b.status
  /\ a.body = b.body /\ a.buf = b.buf /\ a.fill = b.fill

Dialled(x, y) ==
  /\ x \in LinkRec /\ x.c = "dialling"
  /\ x.s = y.s /\ x.up = y.up /\ x.down = y.down /\ x.lost = y.lost

LEMMA StartsHop ==
  ASSUME NEW s \in State, NEW i \in Ids, i = s.c.request, NEW link \in Links,
         NEW method \in {"GET", "POST"}, NEW len \in Nat
  PROVE  LET r == StartHop(s, link, method, len) IN
         /\ r \in State
         /\ r.c.state = "awaiting" /\ r.c.connector = link /\ r.c.parser = NewParser
         /\ r.c.tx # <<>> /\ r.c.tx[1] = RequestHead(method, len)
         /\ r.c.request = s.c.request /\ r.c.socket = s.c.socket /\ r.c.stream = s.c.stream
         /\ r.c.left = s.c.left /\ r.c.armed = s.c.armed /\ r.c.calls = s.c.calls
         /\ r.c.policy = s.c.policy
         /\ HopOn(r.h[i], s.h[i]) /\ \A j \in Ids : j # i => r.h[j] = s.h[j]
         /\ Dialled(r.w[link], s.w[link]) /\ \A l \in Links : l # link => r.w[l] = s.w[l]
<1>1. i \in Ids /\ i = s.c.request
  OBVIOUS
<1>2. PICK tx \in Seq(AskPiece) : /\ tx = <<RequestHead(method, len)>> \o Units(len)
                                  /\ tx # <<>> /\ tx[1] = RequestHead(method, len)
  <2>1. PICK p \in AskPiece, u \in Seq(AskPiece) : p = RequestHead(method, len) /\ u = Units(len)
    BY Pieces
  <2>2. <<p>> \o u \in Seq(AskPiece) /\ <<p>> \o u # <<>> /\ (<<p>> \o u)[1] = p
    OBVIOUS
  <2>3. QED
    BY <2>1, <2>2
<1> DEFINE d == [s.c EXCEPT !.connector = link, !.state = "awaiting", !.parser = NewParser, !.tx = tx]
           e == [s.h[i] EXCEPT !.hops = @ + 1]
           x == [s.w[link] EXCEPT !.c = "dialling"]
           r == StartHop(s, link, method, len)
<1>3. s.c \in ClientRec /\ s.h[i] \in HandleRec /\ s.h \in [Ids -> HandleRec]
      /\ s.w[link] \in LinkRec /\ s.w \in [Links -> LinkRec]
  BY DEF State
<1>4. <<>> \in Seq(BodyPiece)
  OBVIOUS
<1>5. NewParser \in Parser
  BY <1>4 DEF NewParser, Parser
<1>6. d \in ClientRec
  BY <1>3, <1>5 DEF ClientRec
<1>7. /\ d.state = "awaiting" /\ d.connector = link /\ d.parser = NewParser /\ d.tx = tx
      /\ d.request = s.c.request /\ d.socket = s.c.socket /\ d.stream = s.c.stream
      /\ d.left = s.c.left /\ d.armed = s.c.armed /\ d.calls = s.c.calls
      /\ d.policy = s.c.policy
  BY <1>3 DEF ClientRec
<1>8. /\ e \in HandleRec /\ e.resp = s.h[i].resp /\ e.status = s.h[i].status
      /\ e.phase = s.h[i].phase /\ e.result = s.h[i].result /\ e.told = s.h[i].told
      /\ e.ask = s.h[i].ask
      /\ e.body = s.h[i].body /\ e.buf = s.h[i].buf /\ e.fill = s.h[i].fill
      /\ e.hops = s.h[i].hops + 1
  <2>1. PICK n \in Nat : n = s.h[i].hops
    BY <1>3 DEF HandleRec
  <2>2. e = [s.h[i] EXCEPT !.hops = n + 1] /\ n + 1 \in Nat
    BY <2>1
  <2>3. QED
    BY <1>3, <2>1, <2>2 DEF HandleRec
<1>9. x \in LinkRec /\ x.c = "dialling" /\ x.s = s.w[link].s /\ x.up = s.w[link].up
      /\ x.down = s.w[link].down /\ x.lost = s.w[link].lost
  BY <1>3 DEF LinkRec
<1>10. r = [s EXCEPT !.c.connector = link, !.c.state = "awaiting", !.c.parser = NewParser,
            !.c.tx = tx, !.h[i].hops = @ + 1, !.w[link].c = "dialling"]
  BY <1>1, <1>2 DEF StartHop
<1>11. r.c = d
  BY <1>10 DEF State
<1>12. r.h = [s.h EXCEPT ![i].hops = @ + 1]
  BY <1>10 DEF State
<1>13. r.w = [s.w EXCEPT ![link].c = "dialling"]
  BY <1>10 DEF State
<1>14. r \in [c : {r.c}, h : {r.h}, w : {r.w}]
  BY <1>10 DEF State
<1>15. r.h = [s.h EXCEPT ![i] = e] /\ r.w = [s.w EXCEPT ![link] = x]
  BY <1>12, <1>13
<1> HIDE DEF d, e, x, r
<1>16. /\ r.h[i] = e /\ r.h \in [Ids -> HandleRec] /\ r.w[link] = x /\ r.w \in [Links -> LinkRec]
       /\ \A j \in Ids : j # i => r.h[j] = s.h[j]
       /\ \A l \in Links : l # link => r.w[l] = s.w[l]
  BY <1>3, <1>8, <1>9, <1>15
<1>17. r \in State
  BY <1>6, <1>11, <1>14, <1>16 DEF State
<1>18. HopOn(r.h[i], s.h[i]) /\ Dialled(r.w[link], s.w[link])
  BY <1>8, <1>9, <1>16 DEF HopOn, Dialled
<1>19. QED
  BY <1>1, <1>2, <1>7, <1>11, <1>16, <1>17, <1>18 DEF r

Core(s) ==
  /\ s \in State /\ s.c.request \in Ids
  /\ Mine(s).phase = "pending" /\ Mine(s).ask \in Request
  /\ \A i \in Ids : HandleOK(s.h[i]) /\ (s.h[i].phase = "pending" => i = s.c.request)

Reading(s) ==
  /\ Core(s) /\ Assigned(s) /\ Transport(s)
  /\ s.c.state = "receiving" /\ s.c.calls = <<>>
  /\ Sound(s.c.parser, s.c.stream)
  /\ s.c.parser.st = "status" => Mine(s).resp = None
  /\ s.c.stream /\ s.c.parser.st \notin {"status", "error"} /\ Mine(s).resp = None => Redirected(s)

LEMMA BusyCore ==
  ASSUME NEW s \in State, ClientInv(s), s.c.state # "idle"
  PROVE  Core(s)
  BY DEF ClientInv, Core, Busy, Assigned, HandleOK, Mine

LEMMA CompleteInv ==
  ASSUME NEW s, Core(s), NEW res \in {"ok", "error", "dropped"}
  PROVE  Complete(s, res) \in State /\ ClientInv(Complete(s, res))
<1>1. PICK r \in State : r = Complete(s, res)
  BY Completes DEF Core
<1>2. PICK i \in Ids : i = s.c.request
  BY DEF Core
<1>3. s \in State /\ s.h \in [Ids -> HandleRec] /\ s.h[i] \in HandleRec
  BY <1>2 DEF Core, State
<1>4. PICK d \in HandleRec : d = Done(s.h[i], res)
  BY <1>2, Completes DEF Core
<1>5. r.c = Idling(s.c.policy, Append(s.c.calls, "done"))
      /\ r.h[i] = d /\ (\A j \in Ids : j # i => r.h[j] = s.h[j])
      /\ d.phase = "done" /\ d.ask = s.h[i].ask /\ d.resp = s.h[i].resp
      /\ d.body = s.h[i].body /\ d.buf = s.h[i].buf /\ d.fill = s.h[i].fill
  <2>1. s.c.request \in Ids
    BY DEF Core
  <2>2. QED
    BY <1>1, <1>2, <1>3, <1>4, <2>1, Completes
<1>6. r.c.state = "idle" /\ r.c = [Idle(r.c.policy) EXCEPT !.calls = r.c.calls]
  BY <1>5 DEF Idling, Idle
<1>7. HandleOK(d)
  <2>1. HandleOK(s.h[i]) /\ s.h[i].phase = "pending"
    BY <1>2 DEF Core, Mine
  <2>2. QED
    BY <1>5, <2>1 DEF HandleOK
<1>8. ASSUME NEW j \in Ids PROVE HandleOK(r.h[j]) /\ r.h[j].phase # "pending"
  <2>1. CASE j = i
    BY <1>3, <1>5, <1>7, <2>1
  <2>2. CASE j # i
    BY <1>2, <1>3, <1>5, <2>2 DEF Core
  <2>3. QED
    BY <2>1, <2>2
<1>9. ClientInv(r)
  BY <1>6, <1>8 DEF ClientInv
<1>10. QED
  BY <1>1, <1>9

LEMMA BusyInv ==
  ASSUME NEW s, Core(s), Busy(s), s.c.state # "idle"
  PROVE  ClientInv(s)
  BY DEF ClientInv, Core

LEMMA SmallestOf ==
  ASSUME NEW S \in SUBSET Int, IsFiniteSet(S), S # {}
  PROVE  \E m \in S : \A e \in S : m <= e
<1> DEFINE HasMin(U) == \E m \in U : \A e \in U : m <= e
           Bad == {U \in FiniteSubsetsOf(S) : U # {} /\ ~HasMin(U)}
<1>1. SUFFICES ASSUME Bad # {} PROVE FALSE
  BY DEF FiniteSubsetsOf
<1>2. PICK U \in Bad : \A V \in Bad : <<V, U>> \notin StrictSubsetOrdering(S)
  <2>1. Bad \subseteq FiniteSubsetsOf(S)
    OBVIOUS
  <2> HIDE DEF Bad
  <2> QED BY <1>1, <2>1, FS_StrictSubsetOrderingWellFounded, WFMin
<1>3. PICK x \in U : TRUE
  OBVIOUS
<1> DEFINE V == U \ {x}
<1>4. V \in FiniteSubsetsOf(S)
  BY FS_RemoveElement DEF FiniteSubsetsOf
<1>5. <<V, U>> \in StrictSubsetOrdering(S)
  BY <1>3 DEF StrictSubsetOrdering, FiniteSubsetsOf
<1>6. V = {} \/ HasMin(V)
  BY <1>2, <1>4, <1>5
<1>7. U \subseteq Int
  BY DEF FiniteSubsetsOf
<1> QED BY <1>3, <1>6, <1>7

LEMMA NextLinkIn ==
  ASSUME Unused # {}
  PROVE  NextLink \in Links /\ wire[NextLink].c = "none"
<1>1. Unused \subseteq Nat
  BY WireAssumption DEF Unused
<1>2. \E l \in Unused : \A m \in Unused : l <= m
  <2>1. Unused \subseteq Links
    BY DEF Unused
  <2>2. IsFiniteSet(Unused)
    BY <2>1, WireAssumption, FS_Subset
  <2>3. Unused \in SUBSET Int
    BY <1>1
  <2> QED BY <2>2, <2>3, SmallestOf
<1>3. QED
  BY <1>2 DEF NextLink, Unused

LEMMA NextHopIs ==
  ASSUME NEW s, Core(s), NEW i \in Ids, i = s.c.request, s.c.left > 0, NEW link \in Links, link = NextLink
  PROVE  LET r == NextHop(s) IN
         /\ r \in State
         /\ r.c.state = "awaiting" /\ r.c.connector = link /\ r.c.parser = NewParser
         /\ r.c.request = i /\ r.c.socket = None /\ r.c.stream = s.c.stream
         /\ r.c.left = s.c.left - 1 /\ r.c.armed = s.c.armed /\ r.c.calls = s.c.calls
         /\ r.c.policy = s.c.policy
         /\ r.c.tx # <<>>
         /\ r.c.tx[1] = IF s.c.parser.status = "preserve"
                        THEN RequestHead(s.h[i].ask.method, s.h[i].ask.len)
                        ELSE RequestHead("GET", 0)
         /\ HopOn(r.h[i], s.h[i]) /\ \A j \in Ids : j # i => r.h[j] = s.h[j]
         /\ Dialled(r.w[link], HungUp(s)[link])
         /\ \A l \in Links : l # link => r.w[l] = HungUp(s)[l]
<1>1. s \in State /\ s.c.request \in Ids /\ s.h[s.c.request].ask \in Request
  BY DEF Core, Mine
<1>2. i \in Ids /\ i = s.c.request
  OBVIOUS
<1>3. PICK t \in State : t = CloseSocketOnly(s)
  BY <1>1, ClosesSocket
<1>4. /\ t.h = s.h /\ t.w = HungUp(s) /\ t.c.socket = None
      /\ t.c.request = i /\ t.c.stream = s.c.stream /\ t.c.left = s.c.left
      /\ t.c.armed = s.c.armed /\ t.c.calls = s.c.calls /\ t.c.policy = s.c.policy
  BY <1>1, <1>2, <1>3, ClosesSocket
<1>5. PICK n \in Nat : n = s.c.left /\ n > 0
  BY <1>1 DEF State, ClientRec
<1> DEFINE u == [t EXCEPT !.c.left = @ - 1]
<1>6. u = [t EXCEPT !.c.left = n - 1] /\ n - 1 \in Nat
  BY <1>4, <1>5 DEF State, ClientRec
<1>7. u \in State /\ u.h = s.h /\ u.w = HungUp(s) /\ u.c.left = n - 1
      /\ u.c.request = i /\ u.c.socket = None /\ u.c.stream = s.c.stream
      /\ u.c.armed = s.c.armed /\ u.c.calls = s.c.calls /\ u.c.policy = s.c.policy
  <2>1. u.c = [t.c EXCEPT !.left = n - 1] /\ u.h = t.h /\ u.w = t.w
    BY <1>6 DEF State
  <2>2. t.c \in ClientRec
    BY <1>3 DEF State
  <2>3. u.c \in ClientRec
    BY <1>6, <2>1, <2>2 DEF ClientRec
  <2>4. u \in [c : {u.c}, h : {u.h}, w : {u.w}]
    BY <1>6 DEF State
  <2>5. u \in State
    BY <2>1, <2>3, <2>4 DEF State
  <2>6. QED
    BY <1>4, <2>1, <2>2, <2>5 DEF ClientRec
<1> HIDE DEF u
<1> DEFINE ask == s.h[i].ask
           kept == s.c.parser.status = "preserve"
           m == IF kept THEN ask.method ELSE "GET"
           k == IF kept THEN ask.len ELSE 0
<1>8. m \in {"GET", "POST"} /\ k \in Nat
  BY <1>1, <1>2 DEF Request
<1>9. NextHop(s) = StartHop(u, link, m, k)
  BY <1>2, <1>3 DEF NextHop, u
<1>10. RequestHead(m, k) = IF kept THEN RequestHead(ask.method, ask.len)
                                   ELSE RequestHead("GET", 0)
  OBVIOUS
<1> HIDE DEF m, k, kept
<1>11. PICK r \in State : r = StartHop(u, link, m, k)
  BY <1>7, <1>8, StartsHop
<1>12. i = u.c.request
  BY <1>7
<1>13. /\ r.c.state = "awaiting" /\ r.c.connector = link /\ r.c.parser = NewParser
       /\ r.c.tx # <<>> /\ r.c.tx[1] = RequestHead(m, k)
       /\ r.c.request = i /\ r.c.socket = None /\ r.c.stream = s.c.stream
       /\ r.c.left = n - 1 /\ r.c.armed = s.c.armed /\ r.c.calls = s.c.calls
       /\ r.c.policy = s.c.policy
  BY <1>7, <1>8, <1>11, <1>12, StartsHop
<1>14. HopOn(r.h[i], s.h[i]) /\ \A j \in Ids : j # i => r.h[j] = s.h[j]
  BY <1>7, <1>8, <1>11, <1>12, StartsHop
<1>15. /\ Dialled(r.w[link], HungUp(s)[link])
       /\ \A l \in Links : l # link => r.w[l] = HungUp(s)[l]
  BY <1>7, <1>8, <1>11, <1>12, StartsHop
<1>16. r = NextHop(s)
  BY <1>9, <1>11
<1>17. RequestHead(m, k) = IF s.c.parser.status = "preserve"
                           THEN RequestHead(s.h[i].ask.method, s.h[i].ask.len)
                           ELSE RequestHead("GET", 0)
  BY <1>10 DEF kept
<1>18. QED
  BY <1>2, <1>5, <1>13, <1>14, <1>15, <1>16, <1>17

LEMMA NewParserSound == \A stream : Sound(NewParser, stream)
<1>1. <<>> \in Seq(BodyPiece) /\ Len(<<>>) = 0 /\ MaxBody \in Nat
  BY ClientAssumption DEF ClientAssumption
<1>2. NewParser \in Parser
  BY <1>1 DEF NewParser, Parser
<1>3. QED
  BY <1>1, <1>2 DEF Sound, NewParser

LEMMA NextHopInv ==
  ASSUME NEW s, Reading(s), s.c.left > 0, Mine(s).resp = None, Unused # {}
  PROVE  NextHop(s) \in State /\ ClientInv(NextHop(s))
<1>1. Core(s) /\ s \in State
  BY DEF Reading, Core
<1>2. PICK i \in Ids : i = s.c.request
  BY <1>1 DEF Core
<1>3. PICK link \in Links : link = NextLink
  BY NextLinkIn
<1>4. PICK r \in State : r = NextHop(s)
  BY <1>1, <1>2, <1>3, NextHopIs
<1>5. /\ r.c.state = "awaiting" /\ r.c.connector = link /\ r.c.parser = NewParser
      /\ r.c.request = i /\ r.c.socket = None /\ r.c.stream = s.c.stream
      /\ r.c.left = s.c.left - 1 /\ r.c.armed = s.c.armed /\ r.c.calls = s.c.calls
      /\ r.c.tx # <<>>
      /\ HopOn(r.h[i], s.h[i]) /\ \A j \in Ids : j # i => r.h[j] = s.h[j]
  BY <1>1, <1>2, <1>3, <1>4, NextHopIs
<1>6. HandleOK(s.h[i]) /\ s.h[i].phase = "pending" /\ s.h[i].resp = None /\ s.h[i].ask \in Request
      /\ s.h[i] \in HandleRec
  BY <1>1, <1>2 DEF Core, Mine, State
<1>7. HandleOK(r.h[i])
  BY <1>5, <1>6 DEF HandleOK, HopOn
<1>8. \A j \in Ids : HandleOK(r.h[j]) /\ (r.h[j].phase = "pending" => j = i)
  BY <1>1, <1>2, <1>5, <1>7 DEF Core
<1>9. Assigned(r)
  <2>1. PICK n \in Nat, k \in Nat, q \in Nat : n = s.h[i].hops /\ k = s.c.left /\ q = s.h[i].ask.redirects
    BY <1>1, <1>6 DEF State, ClientRec, HandleRec, Request
  <2>2. n + k = q + 1
    BY <1>2, <2>1 DEF Reading, Assigned, Mine
  <2>3. r.h[i].hops = n + 1 /\ r.c.left = k - 1 /\ r.h[i].ask = s.h[i].ask
    BY <1>5, <2>1 DEF HopOn
  <2>4. r.h[i].hops + r.c.left = r.h[i].ask.redirects + 1
    BY <2>1, <2>2, <2>3
  <2>5. QED
    BY <1>2, <1>5, <1>6, <2>4 DEF Reading, Assigned, Mine, HopOn
<1>10. Transport(r)
  <2>1. link # None
    BY WireAssumption
  <2>2. QED
    BY <1>5, <2>1 DEF Transport
<1>11. Sound(NewParser, r.c.stream) /\ NewParser.st = "status"
  <2>1. <<>> \in Seq(BodyPiece) /\ Len(<<>>) = 0 /\ MaxBody \in Nat
    BY ClientAssumption
  <2>2. NewParser \in Parser
    BY <2>1 DEF NewParser, Parser
  <2>3. QED
    BY <2>1, <2>2 DEF Sound, NewParser
<1>12. Parsing(r)
  <2>1. r.h[i].resp = None
    BY <1>5, <1>6 DEF HopOn
  <2>2. QED
    BY <1>5, <1>11, <2>1 DEF Parsing, Mine
<1>13. ClientInv(r)
  BY <1>5, <1>8, <1>9, <1>10, <1>12 DEF ClientInv, Busy
<1>14. QED
  BY <1>4, <1>13

LEMMA FollowInv ==
  ASSUME NEW s, Reading(s), s.c.left > 0, Mine(s).resp = None, NEW r \in FollowRedirect(s)
  PROVE  r \in State /\ ClientInv(r)
<1>1. Core(s)
  BY DEF Reading
<1>2. r = Complete(s, "error") \/ (Unused # {} /\ r = NextHop(s))
  BY DEF FollowRedirect, RedirectRefused
<1>3. QED
  BY <1>1, <1>2, CompleteInv, NextHopInv

(* A response that is complete: what is left to do is to complete the       *)
(* handle.                                                                  *)
LEMMA PublishCore ==
  ASSUME NEW s, Core(s), s.c.parser \in Parser, s.c.parser.status # None, s.c.socket # None
  PROVE  /\ Core(Publish(s)) /\ Publish(s).c = s.c /\ Publish(s).w = s.w
         /\ Mine(Publish(s)).resp = s.c.socket /\ Mine(Publish(s)).status = s.c.parser.status
         /\ Mine(Publish(s)).ask = Mine(s).ask /\ Mine(Publish(s)).hops = Mine(s).hops
         /\ Mine(Publish(s)).body = Mine(s).body /\ Mine(Publish(s)).buf = Mine(s).buf
         /\ \A j \in Ids : j # s.c.request => Publish(s).h[j] = s.h[j]
<1>1. Core(s) /\ s \in State /\ s.c.parser \in Parser
  BY DEF Core
<1>2. PICK i \in Ids : i = s.c.request
  BY <1>1 DEF Core
<1>3. PICK r \in State : r = Publish(s)
  BY <1>1, <1>2, Publishes
<1>4. /\ r.w = s.w /\ r.c = s.c /\ r.h[i] \in HandleRec /\ (\A j \in Ids : j # i => r.h[j] = s.h[j])
      /\ r.h[i].resp = s.c.socket /\ r.h[i].status = s.c.parser.status
  BY <1>1, <1>2, <1>3, Publishes
<1>5. /\ r.h[i].phase = s.h[i].phase /\ r.h[i].ask = s.h[i].ask
      /\ r.h[i].body = s.h[i].body /\ r.h[i].buf = s.h[i].buf /\ r.h[i].fill = s.h[i].fill
      /\ r.h[i].hops = s.h[i].hops
  BY <1>1, <1>2, <1>3, Publishes
<1>6. HandleOK(s.h[i]) /\ s.h[i].phase = "pending" /\ s.h[i].ask \in Request
  BY <1>1, <1>2 DEF Core, Mine
<1>7. s.c.socket # None
  OBVIOUS
<1>8. HandleOK(r.h[i])
  BY <1>4, <1>5, <1>6, <1>7 DEF HandleOK
<1>9. Core(r)
  BY <1>1, <1>2, <1>4, <1>5, <1>6, <1>8 DEF Core, Mine
<1>10. QED
  BY <1>2, <1>3, <1>4, <1>5, <1>9 DEF Mine

(* The state that _complete completes when a response is whole.             *)
Whole(s) == [Publish(s) EXCEPT !.h[s.c.request].body = s.c.parser.body]

LEMMA WholeCore ==
  ASSUME NEW s, Reading(s), s.c.parser.status # None
  PROVE  /\ Core(Whole(s)) /\ Whole(s).c = s.c /\ Whole(s).w = s.w
         /\ Mine(Whole(s)).resp = s.c.socket /\ Mine(Whole(s)).status = s.c.parser.status
         /\ Mine(Whole(s)).body = s.c.parser.body /\ Mine(Whole(s)).buf = Mine(Publish(s)).buf
         /\ \A j \in Ids : j # s.c.request => Whole(s).h[j] = Publish(s).h[j]
<1>0. Core(s) /\ s.c.parser \in Parser /\ s.c.socket # None
  BY DEF Reading, Sound, Transport
<1>1. PICK t \in State : t = Publish(s)
  BY <1>0, PublishCore DEF Core
<1>2. /\ Core(t) /\ t.c = s.c /\ t.w = s.w
      /\ Mine(t).resp = s.c.socket /\ Mine(t).status = s.c.parser.status
  BY <1>0, <1>1, PublishCore
<1>3. PICK i \in Ids : i = s.c.request /\ i = t.c.request
  BY <1>2 DEF Core
<1>4. PICK b \in Seq(BodyPiece) : b = s.c.parser.body
  BY DEF Reading, Sound, Parser
<1> DEFINE r == [t EXCEPT !.h[i].body = b]
           e == [t.h[i] EXCEPT !.body = b]
<1>5. Whole(s) = r
  BY <1>1, <1>3, <1>4 DEF Whole
<1>6. r.c = t.c /\ r.w = t.w /\ r.h = [t.h EXCEPT ![i] = e]
  BY DEF State
<1>7. t.h \in [Ids -> HandleRec] /\ t.h[i] \in HandleRec
  BY DEF State
<1>8. /\ e \in HandleRec /\ e.body = b /\ e.resp = t.h[i].resp /\ e.status = t.h[i].status
      /\ e.phase = t.h[i].phase /\ e.ask = t.h[i].ask /\ e.buf = t.h[i].buf
      /\ e.fill = t.h[i].fill
  BY <1>7 DEF HandleRec
<1>9. r \in [c : {r.c}, h : {r.h}, w : {r.w}]
  BY DEF State
<1> HIDE DEF r, e
<1>10. r.h[i] = e /\ r.h \in [Ids -> HandleRec] /\ \A j \in Ids : j # i => r.h[j] = t.h[j]
  BY <1>6, <1>7, <1>8
<1>11. r \in State
  BY <1>6, <1>9, <1>10 DEF State
<1>12. HandleOK(t.h[i]) /\ t.h[i].phase = "pending" /\ t.h[i].ask \in Request /\ t.h[i].resp # None
  <2>1. s.c.socket # None
    BY DEF Reading, Transport
  <2>2. QED
    BY <1>2, <1>3, <2>1 DEF Core, Mine
<1>13. HandleOK(e)
  BY <1>8, <1>12 DEF HandleOK
<1>14. Core(r)
  BY <1>2, <1>3, <1>6, <1>8, <1>10, <1>11, <1>12, <1>13 DEF Core, Mine
<1>15. QED
  BY <1>1, <1>2, <1>3, <1>4, <1>5, <1>6, <1>8, <1>10, <1>14 DEF Mine

LEMMA ParsedInv ==
  ASSUME NEW s, Reading(s), NEW r \in Parsed(s)
  PROVE  r \in State /\ ClientInv(r)
<1>1. Core(s) /\ s \in State /\ s.c.parser \in Parser /\ Sound(s.c.parser, s.c.stream)
  BY DEF Reading, Core, Sound
<1>2. CASE s.c.parser.st = "done"
  <2>1. r \in Completed(s)
    BY <1>2 DEF Parsed
  <2>2. s.c.parser.status # None
    BY <1>1, <1>2 DEF Sound
  <2>3. CASE s.c.stream
    <3>1. CASE Mine(s).resp = None
      <4>1. r \in FollowRedirect(s)
        BY <2>1, <2>3, <3>1 DEF Completed, Mine
      <4>2. s.c.left > 0
        BY <1>2, <2>3, <3>1 DEF Reading, Redirected
      <4>3. QED
        BY <3>1, <4>1, <4>2, FollowInv
    <3>2. CASE Mine(s).resp # None
      <4>1. r = Complete(s, "ok")
        BY <2>1, <2>3, <3>2 DEF Completed, Mine
      <4>2. QED
        BY <1>1, <4>1, CompleteInv
    <3>3. QED
      BY <3>1, <3>2
  <2>4. CASE ~s.c.stream
    <3>1. Mine(s).resp = None
      BY <2>4 DEF Reading, Assigned
    <3>2. CASE Redirected(s)
      <4>1. r \in FollowRedirect(s)
        BY <2>1, <2>4, <3>2 DEF Completed
      <4>2. s.c.left > 0
        BY <3>2 DEF Redirected
      <4>3. QED
        BY <3>1, <4>1, <4>2, FollowInv
    <3>3. CASE ~Redirected(s)
      <4>1. r = Complete(Whole(s), "ok")
        BY <2>1, <2>4, <3>3 DEF Completed, Whole
      <4>2. QED
        BY <2>2, <4>1, WholeCore, CompleteInv
    <3>4. QED
      BY <3>2, <3>3
  <2>5. s.c.stream \in BOOLEAN
    BY <1>1 DEF State, ClientRec
  <2>6. QED
    BY <2>3, <2>4, <2>5
<1>3. CASE s.c.parser.st = "error"
  <2>1. r = Complete(s, "error")
    BY <1>3 DEF Parsed, Fail
  <2>2. QED
    BY <1>1, <2>1, CompleteInv
<1>4. CASE s.c.parser.st = "oversized"
  <2>1. r = FailOversized(s)
    BY <1>4 DEF Parsed
  <2>2. s.c.policy \in {"drop_silent", "drop_with_event", "disconnect"}
    BY <1>1, ClientAssumption DEF State, ClientRec
  <2>3. CASE s.c.policy = "disconnect"
    BY <1>1, <2>1, <2>3, CompleteInv DEF FailOversized, Fail
  <2>4. CASE s.c.policy = "drop_silent"
    BY <1>1, <2>1, <2>4, CompleteInv DEF FailOversized
  <2>5. CASE s.c.policy = "drop_with_event"
    <3> DEFINE d == [s.c EXCEPT !.calls = <<"oversized">>]
    <3>1. s.c.calls = <<>> /\ s.c \in ClientRec
      BY <1>1 DEF Reading, State
    <3>2. Append(s.c.calls, "oversized") = <<"oversized">>
      BY <3>1
    <3>3. r = [s EXCEPT !.c.calls = Append(@, "oversized")]
      BY <2>1, <2>5 DEF FailOversized
    <3>4. r = [s EXCEPT !.c.calls = <<"oversized">>]
      BY <1>1, <3>2, <3>3 DEF State
    <3>5. r.c = d /\ r.h = s.h /\ r.w = s.w /\ r \in [c : {r.c}, h : {r.h}, w : {r.w}]
      BY <1>1, <3>4 DEF State
    <3>6. <<"oversized">> \in Seq({"done", "oversized"}) /\ Len(<<"oversized">>) = 1
          /\ <<"oversized">>[1] = "oversized" /\ <<"oversized">> # <<>>
      OBVIOUS
    <3>7. d \in ClientRec /\ d.calls = <<"oversized">> /\ d.request = s.c.request
          /\ d.state = s.c.state /\ d.connector = s.c.connector /\ d.socket = s.c.socket
          /\ d.tx = s.c.tx /\ d.parser = s.c.parser /\ d.stream = s.c.stream /\ d.left = s.c.left
          /\ d.armed = s.c.armed
      BY <3>1, <3>6 DEF ClientRec
    <3> HIDE DEF d
    <3>8. r \in State
      BY <1>1, <3>5, <3>7 DEF State
    <3>9. ~s.c.stream /\ Mine(s).resp = None
      BY <1>1, <1>4 DEF Reading, Assigned, Sound
    <3>10. Mine(r) = Mine(s)
      BY <3>5, <3>7 DEF Mine
    <3>11. Core(r)
      BY <1>1, <3>5, <3>7, <3>8, <3>10 DEF Core
    <3>12. Assigned(r)
      BY <3>5, <3>7, <3>9, <3>10 DEF Reading, Assigned
    <3>13. Transport(r)
      BY <3>5, <3>7 DEF Reading, Transport
    <3>14. Parsing(r)
      BY <1>1, <1>4, <3>5, <3>6, <3>7, <3>9, <3>10 DEF Reading, Parsing
    <3>15. r.c.state # "idle"
      BY <3>5, <3>7 DEF Reading
    <3>16. QED
      BY <3>8, <3>11, <3>12, <3>13, <3>14, <3>15, BusyInv DEF Busy
  <2>6. QED
    BY <2>2, <2>3, <2>4, <2>5
<1>5. CASE s.c.parser.st \in {"status", "body", "chunks"}
  <2>1. r = s
    BY <1>5 DEF Parsed
  <2>2. Parsing(s)
    BY <1>1, <1>5 DEF Reading, Parsing
  <2>3. s.c.state # "idle" /\ Busy(s)
    BY <2>2 DEF Reading, Busy
  <2>4. QED
    BY <1>1, <2>1, <2>3, BusyInv
<1>6. QED
  BY <1>1, <1>2, <1>3, <1>4, <1>5 DEF Parser

LEMMA WholeRest ==
  ASSUME NEW s, Reading(s), s.c.parser.status # None, NEW i \in Ids, i = s.c.request
  PROVE  /\ Whole(s).h[i].ask = s.h[i].ask /\ Whole(s).h[i].told = s.h[i].told
         /\ Whole(s).h[i].hops = s.h[i].hops /\ Whole(s).h[i].buf = s.h[i].buf /\ Whole(s).h[i].result = s.h[i].result
         /\ \A j \in Ids : j # i => Whole(s).h[j] = s.h[j]
<1>1. s \in State /\ s.c.parser \in Parser
  BY DEF Reading, Core, Sound
<1>2. PICK t : t = Publish(s)
  OBVIOUS
<1>3. /\ t \in State /\ t.h[i].ask = s.h[i].ask /\ t.h[i].told = s.h[i].told
      /\ t.h[i].hops = s.h[i].hops /\ t.h[i].buf = s.h[i].buf /\ t.h[i].result = s.h[i].result
      /\ \A j \in Ids : j # i => t.h[j] = s.h[j]
  BY <1>1, <1>2, Publishes
<1>4. t.h \in [Ids -> HandleRec]
  BY <1>3 DEF State
<1>5. PICK b : b = s.c.parser.body
  OBVIOUS
<1>6. PICK e : e = [t.h[i] EXCEPT !.body = b]
  OBVIOUS
<1>7. Whole(s).h = [t.h EXCEPT ![i] = e]
  BY <1>2, <1>3, <1>4, <1>5, <1>6 DEF Whole, State
<1>8. e.ask = t.h[i].ask /\ e.told = t.h[i].told /\ e.hops = t.h[i].hops /\ e.buf = t.h[i].buf /\ e.result = t.h[i].result
  BY <1>4, <1>6 DEF HandleRec
<1>9. Whole(s).h[i] = e /\ \A j \in Ids : j # i => Whole(s).h[j] = t.h[j]
  BY <1>4, <1>7
<1>10. QED
  BY <1>3, <1>8, <1>9

LEMMA KeepIs ==
  ASSUME NEW p \in Parser, NEW stream \in BOOLEAN, NEW piece \in ReplyPiece
  PROVE  LET q == Keep(p, stream, piece) IN
         /\ q \in Parser /\ q.st = p.st /\ q.status = p.status /\ q.loc = p.loc /\ q.left = p.left
         /\ Unit(piece) \in BodyPiece
         /\ IF stream THEN q.body = p.body
            ELSE q.body = Append(p.body, Unit(piece)) /\ Len(q.body) = Len(p.body) + 1
<1>1. Unit(piece) \in BodyPiece
  <2>1. Body(1) \in BodyPiece
    BY Pieces
  <2>2. CASE piece.op = "body"
    BY <2>2 DEF Unit, ReplyPiece, HeadPiece, BodyPiece
  <2>3. CASE piece.op # "body"
    BY <2>1, <2>3 DEF Unit
  <2>4. QED
    BY <2>2, <2>3
<1>2. CASE stream
  BY <1>1, <1>2 DEF Keep
<1>3. CASE ~stream
  <2>0. PICK a \in Seq(BodyPiece), u \in BodyPiece : a = p.body /\ u = Unit(piece)
    BY <1>1 DEF Parser
  <2>1. PICK b \in Seq(BodyPiece) : b = Append(p.body, Unit(piece)) /\ Len(b) = Len(p.body) + 1
    <3>1. Append(a, u) \in Seq(BodyPiece) /\ Len(Append(a, u)) = Len(a) + 1
      OBVIOUS
    <3>2. QED
      BY <2>0, <3>1
  <2>2. Keep(p, stream, piece) = [p EXCEPT !.body = b]
    BY <1>3, <2>1 DEF Keep
  <2>3. QED
    BY <1>1, <1>3, <2>1, <2>2 DEF Parser
<1>4. QED
  BY <1>2, <1>3

(* _enter_body_state on a parser that holds the head already.               *)
Framed(q, head, stream) ==
  CASE head.status = "nobody"    -> [q EXCEPT !.st = "done"]
    [] head.status # "nobody" /\ head.frame = "bad"     -> ParseError(q)
    [] head.status # "nobody" /\ head.frame = "chunked" -> [q EXCEPT !.st = "chunks"]
    [] head.status # "nobody" /\ head.frame = "close"   -> [q EXCEPT !.st = "body"]
    [] head.status # "nobody" /\ head.frame = "length"  ->
         IF head.len > MaxBody /\ ~stream THEN Oversized(q)
         ELSE [q EXCEPT !.left = head.len, !.st = IF head.len = 0 THEN "done" ELSE "body"]

LEMMA EnterBodyIs ==
  ASSUME NEW p, NEW head, NEW stream
  PROVE  EnterBody(p, head, stream)
           = Framed([p EXCEPT !.status = head.status, !.loc = head.loc], head, stream)
  BY DEF EnterBody, Framed

(* What a piece makes of a sound parser that has not ended.                 *)
LEMMA FeedSound ==
  ASSUME NEW p, NEW stream \in BOOLEAN, NEW piece \in ReplyPiece, Sound(p, stream),
         p.st \in {"status", "body", "chunks"}
  PROVE  LET q == Feed(p, stream, piece) IN
         /\ Sound(q, stream)
         /\ p.st # "status" => q.st # "status" /\ q.status = p.status /\ q.loc = p.loc
<1> PICK q : q = Feed(p, stream, piece)
  OBVIOUS
<1>1. p \in Parser
  BY DEF Sound
<1>2. PICK n \in Nat : n = Len(p.body)
  BY <1>1 DEF Parser
<1>3. MaxBody \in Nat
  BY ClientAssumption
<1>4. CASE p.st = "status"
  <2>1. p = NewParser
    BY <1>4 DEF Sound
  <2>2. p.body = <<>> /\ p.left = None /\ n = 0
    BY <1>2, <2>1 DEF NewParser
  <2>3. CASE piece.op = "interim"
    BY <1>4, <2>3 DEF Feed
  <2>4. CASE piece.op = "head"
    <3>1. piece \in HeadPiece
      BY <2>4 DEF ReplyPiece, BodyPiece
    <3>2. q = EnterBody(p, piece, stream)
      BY <1>4, <2>4 DEF Feed
    <3>0. PICK t : t = [p EXCEPT !.status = piece.status, !.loc = piece.loc]
      OBVIOUS
    <3>3. t \in Parser /\ t.status = piece.status /\ t.loc = piece.loc /\ t.body = <<>> /\ t.left = None
      BY <1>1, <2>2, <3>0, <3>1 DEF Parser, HeadPiece
    <3>3a. q = Framed(t, piece, stream)
      BY <3>0, <3>2, EnterBodyIs
    <3>4. PICK k \in Nat : k = piece.len
      BY <3>1 DEF HeadPiece
    <3>5. piece.status # None
      BY <3>1, WireAssumption DEF HeadPiece, Statuses
    <3>6. \/ \E st \in {"done", "error", "chunks", "body"} : q = [t EXCEPT !.st = st]
          \/ ~stream /\ q = [t EXCEPT !.st = "oversized"]
          \/ (k > MaxBody => stream) /\ q = [t EXCEPT !.left = k, !.st = IF k = 0 THEN "done" ELSE "body"]
      <4>1. piece.frame \in {"length", "chunked", "close", "bad"}
        BY <3>1 DEF HeadPiece
      <4>2. CASE piece.status = "nobody"
        BY <3>3a, <4>2 DEF Framed
      <4>3. CASE piece.status # "nobody" /\ piece.frame = "bad"
        BY <3>3a, <4>3 DEF Framed, ParseError
      <4>4. CASE piece.status # "nobody" /\ piece.frame = "chunked"
        BY <3>3a, <4>4 DEF Framed
      <4>5. CASE piece.status # "nobody" /\ piece.frame = "close"
        BY <3>3a, <4>5 DEF Framed
      <4>6. CASE piece.status # "nobody" /\ piece.frame = "length"
        <5>1. q = IF k > MaxBody /\ ~stream THEN [t EXCEPT !.st = "oversized"]
                  ELSE [t EXCEPT !.left = k, !.st = IF k = 0 THEN "done" ELSE "body"]
          BY <3>3a, <3>4, <4>6 DEF Framed, Oversized
        <5>2. QED
          BY <5>1
      <4>7. QED
        BY <4>1, <4>2, <4>3, <4>4, <4>5, <4>6
    <3>7. CASE \E st \in {"done", "error", "chunks", "body"} : q = [t EXCEPT !.st = st]
      <4>1. q \in Parser /\ q.status # None /\ q.body = <<>> /\ q.left = None
            /\ q.st \in {"done", "error", "chunks", "body"}
        BY <3>3, <3>5, <3>7 DEF Parser
      <4>2. QED
        BY <1>3, <1>4, <4>1 DEF Sound
    <3>8. CASE ~stream /\ q = [t EXCEPT !.st = "oversized"]
      <4>1. q \in Parser /\ q.status # None /\ q.body = <<>> /\ q.st = "oversized"
        BY <3>3, <3>5, <3>8 DEF Parser
      <4>2. QED
        BY <1>3, <1>4, <3>8, <4>1 DEF Sound
    <3>9. CASE (k > MaxBody => stream) /\ q = [t EXCEPT !.left = k, !.st = IF k = 0 THEN "done" ELSE "body"]
      <4>1. q \in Parser /\ q.status # None /\ q.body = <<>> /\ q.left = k
            /\ q.st = IF k = 0 THEN "done" ELSE "body"
        BY <3>3, <3>5, <3>9 DEF Parser
      <4>2. QED
        BY <1>3, <1>4, <3>9, <4>1 DEF Sound
    <3>10. QED
      BY <3>6, <3>7, <3>8, <3>9
  <2>5. CASE piece.op \notin {"interim", "head"}
    <3>1. q = [p EXCEPT !.st = "error"]
      BY <1>4, <2>5 DEF Feed, ParseError
    <3>2. q \in Parser /\ q.st = "error" /\ q.body = <<>>
      BY <1>1, <2>2, <3>1 DEF Parser
    <3>3. QED
      BY <1>3, <1>4, <3>2 DEF Sound
  <2>6. QED
    BY <2>3, <2>4, <2>5
<1>5. CASE p.st \in {"body", "chunks"}
  <2>1. PICK k \in Parser : k = Keep(p, stream, piece)
    BY <1>1, KeepIs
  <2>2. /\ k.st = p.st /\ k.status = p.status /\ k.loc = p.loc /\ k.left = p.left
        /\ IF stream THEN k.body = p.body ELSE Len(k.body) = n + 1
    BY <1>1, <1>2, <2>1, KeepIs
  <2>3. p.status # None /\ n <= MaxBody /\ (stream => p.body = <<>>)
    BY <1>2, <1>5 DEF Sound
  <2>4. CASE p.st = "body" /\ p.left # None
    <3>1. PICK f \in Nat : f = p.left /\ f > 0 /\ (~stream => n + f <= MaxBody)
      BY <1>1, <1>2, <2>4 DEF Parser, Sound
    <3>2. q = [k EXCEPT !.left = f - 1, !.st = IF f = 1 THEN "done" ELSE "body"] /\ f - 1 \in Nat
      BY <2>1, <2>4, <3>1 DEF Feed, AbsorbBody
    <3>3. /\ q \in Parser /\ q.left = f - 1 /\ q.st = (IF f = 1 THEN "done" ELSE "body")
          /\ q.status = p.status /\ q.loc = p.loc /\ q.body = k.body
      BY <2>2, <3>2 DEF Parser
    <3>4. QED
      BY <1>2, <1>3, <2>2, <2>3, <3>1, <3>3 DEF Sound
  <2>5. CASE ~(p.st = "body" /\ p.left # None)
    <3>1. \/ q = [p EXCEPT !.st = "done"] \/ q = [p EXCEPT !.st = "error"]
          \/ (~stream /\ q = [p EXCEPT !.st = "oversized"])
          \/ (q = k /\ (~stream => n + 1 <= MaxBody))
      <4>1. CASE p.st = "body"
        <5>1. q = IF ~stream /\ n + 1 > MaxBody THEN [p EXCEPT !.st = "oversized"] ELSE k
          BY <1>2, <2>1, <2>5, <4>1 DEF Feed, AbsorbBody, Oversized
        <5>2. QED
          BY <1>3, <5>1
      <4>2. CASE p.st = "chunks"
        <5>1. q = AbsorbChunk(p, stream, piece)
          BY <4>2 DEF Feed
        <5>2. CASE piece.op = "last"
          BY <5>1, <5>2 DEF AbsorbChunk
        <5>3. CASE piece.op = "body"
          <6>1. q = IF ~stream /\ n + 1 > MaxBody THEN [p EXCEPT !.st = "oversized"] ELSE k
            BY <1>2, <2>1, <5>1, <5>3 DEF AbsorbChunk, Oversized
          <6>2. QED
            BY <1>3, <6>1
        <5>4. CASE piece.op \notin {"last", "body"}
          BY <5>1, <5>4 DEF AbsorbChunk, ParseError
        <5>5. QED
          BY <5>2, <5>3, <5>4
      <4>3. QED
        BY <1>5, <4>1, <4>2
    <3>2. ASSUME NEW st \in {"done", "error", "oversized"}, q = [p EXCEPT !.st = st], st = "oversized" => ~stream
          PROVE  /\ Sound(q, stream)
                 /\ q.st # "status" /\ q.status = p.status /\ q.loc = p.loc
      <4>1. /\ q \in Parser /\ q.st = st /\ q.status = p.status /\ q.loc = p.loc /\ q.body = p.body
        BY <1>1, <3>2 DEF Parser
      <4>2. QED
        BY <1>2, <2>3, <3>2, <4>1 DEF Sound
    <3>3. CASE q = k /\ (~stream => n + 1 <= MaxBody)
      BY <1>2, <1>5, <2>2, <2>3, <2>5, <3>3 DEF Sound
    <3>4. QED
      BY <3>1, <3>2, <3>3
  <2>6. QED
    BY <2>4, <2>5
<1>6. QED
  BY <1>4, <1>5

LEMMA FeedEofSound ==
  ASSUME NEW p, NEW stream \in BOOLEAN, Sound(p, stream), p.st \in {"status", "body", "chunks"}
  PROVE  LET q == FeedEof(p) IN
         /\ Sound(q, stream) /\ q.st \in {"done", "error"}
         /\ q.status = p.status /\ q.loc = p.loc /\ q.body = p.body
         /\ q.st = "done" => p.st = "body" /\ p.left = None
<1>1. p \in Parser
  BY DEF Sound
<1>2. PICK st \in {"done", "error"} : FeedEof(p) = [p EXCEPT !.st = st]
                                      /\ (st = "done" => p.st = "body" /\ p.left = None)
  BY DEF FeedEof, ParseError
<1>3. PICK q : q = FeedEof(p)
  OBVIOUS
<1>4. /\ q \in Parser /\ q.st = st /\ q.status = p.status /\ q.loc = p.loc /\ q.body = p.body
  BY <1>1, <1>2, <1>3 DEF Parser
<1>5. Sound(q, stream)
  BY <1>2, <1>4 DEF Sound
<1>6. QED
  BY <1>2, <1>3, <1>4, <1>5

(* A state whose client has fed a piece, or the end, to its parser.         *)
Fed(r, s, q) ==
  /\ r \in State /\ r.h = s.h
  /\ r.c.parser = q /\ r.c.state = s.c.state /\ r.c.request = s.c.request
  /\ r.c.connector = s.c.connector /\ r.c.socket = s.c.socket /\ r.c.tx = s.c.tx
  /\ r.c.stream = s.c.stream /\ r.c.left = s.c.left /\ r.c.armed = s.c.armed
  /\ r.c.calls = s.c.calls /\ r.c.policy = s.c.policy

Receiving(s) == s \in State /\ ClientInv(s) /\ s.c.state = "receiving" /\ s.c.calls = <<>>

LEMMA ReceivingIs ==
  ASSUME NEW s, Receiving(s)
  PROVE  /\ s.c.stream \in BOOLEAN /\ Sound(s.c.parser, s.c.stream)
         /\ s.c.parser.st \in {"status", "body", "chunks"}
         /\ Busy(s) /\ Core(s)
<1>1. s \in State /\ s.c.state # "idle" /\ s.c.calls = <<>>
  BY DEF Receiving
<1>2. Busy(s) /\ Core(s)
  BY <1>1, BusyCore DEF Receiving, ClientInv
<1>3. Sound(s.c.parser, s.c.stream) /\ s.c.parser.st \in {"status", "body", "chunks"}
  BY <1>1, <1>2 DEF Busy, Parsing
<1>4. s.c.stream \in BOOLEAN
  BY <1>1 DEF State, ClientRec
<1>5. QED
  BY <1>2, <1>3, <1>4

LEMMA FedIs ==
  ASSUME NEW s, Receiving(s), NEW q, Sound(q, s.c.stream),
         s.c.parser.st # "status" => q.st # "status" /\ q.status = s.c.parser.status
                                     /\ q.loc = s.c.parser.loc,
         NEW r, Fed(r, s, q)
  PROVE  /\ Core(r) /\ Assigned(r) /\ Transport(r) /\ Mine(r) = Mine(s)
         /\ r.c.state = "receiving" /\ r.c.calls = <<>> /\ r.c.socket # None
         /\ Sound(r.c.parser, r.c.stream)
         /\ q.st = "status" => Mine(r).resp = None
         /\ r.c.stream /\ s.c.parser.st # "status" /\ Mine(r).resp = None => Redirected(r)
<1>1. s \in State /\ s.c.state = "receiving" /\ s.c.calls = <<>>
  BY DEF Receiving
<1>2. Busy(s) /\ Core(s)
  BY ReceivingIs
<1>3. Mine(r) = Mine(s)
  BY DEF Fed, Mine
<1>4. Core(r)
  BY <1>2, <1>3 DEF Fed, Core
<1>5. Transport(r) /\ r.c.socket # None
  BY <1>1, <1>2 DEF Fed, Busy, Transport
<1>6. s.c.parser.st = "status" => Mine(s).resp = None
  BY <1>2 DEF Busy, Parsing
<1>7. Assigned(r)
  BY <1>2, <1>3, <1>6 DEF Fed, Busy, Assigned
<1>8. r.c.stream /\ s.c.parser.st # "status" /\ Mine(r).resp = None => Redirected(r)
  BY <1>2, <1>3 DEF Fed, Busy, Parsing, Redirected
<1>9. QED
  BY <1>1, <1>3, <1>4, <1>5, <1>6, <1>7, <1>8 DEF Fed

(* A unit of body that a stream takes into its staging buffer.              *)
Staged(s, piece) ==
  [s EXCEPT !.h[s.c.request].buf = Append(@, Unit(piece)), !.h[s.c.request].fill = @ + 1]

LEMMA StagedIs ==
  ASSUME NEW s, Core(s), NEW piece \in ReplyPiece, Mine(s).resp # None, Mine(s).fill < StreamBuffer
  PROVE  /\ Core(Staged(s, piece)) /\ Staged(s, piece).c = s.c /\ Staged(s, piece).w = s.w
         /\ Mine(Staged(s, piece)).resp = Mine(s).resp
         /\ Mine(Staged(s, piece)).status = Mine(s).status
         /\ Mine(Staged(s, piece)).ask = Mine(s).ask /\ Mine(Staged(s, piece)).hops = Mine(s).hops
         /\ Mine(Staged(s, piece)).body = Mine(s).body
         /\ Mine(Staged(s, piece)).buf = Append(Mine(s).buf, Unit(piece))
         /\ Mine(Staged(s, piece)).result = Mine(s).result /\ Mine(Staged(s, piece)).told = Mine(s).told
         /\ \A j \in Ids : j # s.c.request => Staged(s, piece).h[j] = s.h[j]
<1>1. s \in State /\ s.h \in [Ids -> HandleRec]
  BY DEF Core, State
<1>2. PICK i \in Ids : i = s.c.request
  BY DEF Core
<1>3. s.h[i] \in HandleRec /\ HandleOK(s.h[i]) /\ s.h[i].phase = "pending" /\ s.h[i].ask \in Request
      /\ s.h[i].resp # None
  BY <1>1, <1>2 DEF Core, Mine
<1>4. PICK u \in BodyPiece : u = Unit(piece)
  <2>1. NewParser \in Parser
    <3>1. <<>> \in Seq(BodyPiece)
      OBVIOUS
    <3>2. QED
      BY <3>1 DEF NewParser, Parser
  <2>2. QED
    BY <2>1, KeepIs
<1>5. PICK b \in Seq(BodyPiece), n \in Nat : b = s.h[i].buf /\ n = s.h[i].fill
  BY <1>3 DEF HandleRec
<1>6. Len(b) <= n /\ n < StreamBuffer /\ StreamBuffer \in Nat
  BY <1>2, <1>3, <1>5, ClientAssumption DEF HandleOK, Mine
<1>7. Append(b, u) \in Seq(BodyPiece) /\ Len(Append(b, u)) = Len(b) + 1
  OBVIOUS
<1>7a. PICK a \in Seq(BodyPiece) : a = Append(b, u) /\ Len(a) = Len(b) + 1
  BY <1>7
<1>8. Len(a) <= n + 1 /\ n + 1 \in Nat /\ n + 1 <= StreamBuffer
  BY <1>6, <1>7a
<1> DEFINE r == Staged(s, piece)
           e == [s.h[i] EXCEPT !.buf = a, !.fill = n + 1]
<1>9. r = [s EXCEPT !.h[i].buf = Append(@, u), !.h[i].fill = @ + 1]
  BY <1>2, <1>4 DEF Staged
<1>10. r.c = s.c /\ r.w = s.w /\ r.h = [s.h EXCEPT ![i].buf = Append(@, u), ![i].fill = @ + 1]
       /\ r \in [c : {r.c}, h : {r.h}, w : {r.w}]
  BY <1>1, <1>9 DEF State
<1>11. r.h = [s.h EXCEPT ![i] = [s.h[i] EXCEPT !.buf = Append(s.h[i].buf, u), !.fill = s.h[i].fill + 1]]
  BY <1>1, <1>3, <1>10 DEF HandleRec
<1>12. r.h = [s.h EXCEPT ![i] = e]
  BY <1>5, <1>7a, <1>11
<1>13. /\ e \in HandleRec /\ e.buf = a /\ e.fill = n + 1 /\ e.resp = s.h[i].resp
       /\ e.status = s.h[i].status /\ e.ask = s.h[i].ask /\ e.hops = s.h[i].hops
       /\ e.body = s.h[i].body /\ e.phase = s.h[i].phase
       /\ e.result = s.h[i].result /\ e.told = s.h[i].told
  BY <1>3, <1>8 DEF HandleRec
<1> HIDE DEF r, e
<1>14. r.h[i] = e /\ r.h \in [Ids -> HandleRec] /\ \A j \in Ids : j # i => r.h[j] = s.h[j]
  BY <1>1, <1>12, <1>13
<1>15. r \in State
  BY <1>1, <1>10, <1>14 DEF State
<1>16. HandleOK(e)
  BY <1>3, <1>8, <1>13 DEF HandleOK
<1>17. Core(r)
  <2>1. \A j \in Ids : HandleOK(r.h[j]) /\ (r.h[j].phase = "pending" => j = i)
    BY <1>2, <1>14, <1>16 DEF Core
  <2>2. r.c.request = i /\ Mine(r) = e
    BY <1>2, <1>10, <1>14 DEF Mine
  <2>3. e.phase = "pending" /\ e.ask \in Request
    BY <1>3, <1>13
  <2>4. QED
    BY <1>15, <2>1, <2>2, <2>3 DEF Core
<1>18. QED
  BY <1>2, <1>4, <1>5, <1>7a, <1>10, <1>13, <1>14, <1>17 DEF Mine, r

LEMMA StreamedReading ==
  ASSUME NEW s, Receiving(s), s.c.stream, NEW piece \in ReplyPiece, NEW absorbed \in BOOLEAN,
         Mine(s).fill < StreamBuffer,
         NEW q, q = Feed(s.c.parser, s.c.stream, piece), NEW f, Fed(f, s, q)
  PROVE  Reading(Streamed(f, piece, absorbed))
<1>1. /\ s.c.stream \in BOOLEAN /\ Sound(s.c.parser, s.c.stream)
      /\ s.c.parser.st \in {"status", "body", "chunks"} /\ Busy(s) /\ Core(s)
  BY ReceivingIs
<1>2. Sound(q, s.c.stream) /\ (s.c.parser.st # "status" => q.st # "status"
          /\ q.status = s.c.parser.status /\ q.loc = s.c.parser.loc)
  BY <1>1, FeedSound
<1>3. /\ Core(f) /\ Assigned(f) /\ Transport(f) /\ Mine(f) = Mine(s)
      /\ f.c.state = "receiving" /\ f.c.calls = <<>> /\ f.c.socket # None
      /\ Sound(f.c.parser, f.c.stream)
  BY <1>2, FedIs
<1>3b. q.st = "status" => Mine(f).resp = None
  <2>1. s.c.parser.st = "status" => Mine(s).resp = None
    BY <1>1 DEF Busy, Parsing
  <2>2. QED
    BY <1>2, <1>3, <2>1
<1>3a. f.c.stream /\ s.c.parser.st # "status" /\ Mine(f).resp = None => Redirected(f)
  BY <1>2, FedIs
<1>4. f.c.parser = q /\ f.c.stream
  BY DEF Fed
<1>5. CASE Mine(f).resp # None
  <2>1. Streamed(f, piece, absorbed) = IF absorbed THEN Staged(f, piece) ELSE f
    BY <1>5 DEF Streamed, Staged, Mine
  <2>2. CASE absorbed
    <3>1. PICK r : r = Staged(f, piece)
      OBVIOUS
    <3>2. /\ Core(r) /\ r.c = f.c
          /\ Mine(r).resp = Mine(f).resp /\ Mine(r).status = Mine(f).status
          /\ Mine(r).ask = Mine(f).ask /\ Mine(r).hops = Mine(f).hops
      BY <1>3, <1>5, <3>1, StagedIs
    <3>3. Mine(r).phase = "pending"
      BY <3>2 DEF Core
    <3>4. Assigned(r)
      BY <1>3, <3>2, <3>3 DEF Assigned
    <3>5. Transport(r)
      BY <1>3, <3>2 DEF Transport
    <3>6. Reading(r)
      BY <1>3, <1>3a, <1>3b, <1>4, <1>5, <3>2, <3>4, <3>5 DEF Reading
    <3>7. QED
      BY <2>1, <2>2, <3>1, <3>6
  <2>3. CASE ~absorbed
    <3>1. Reading(f)
      BY <1>3, <1>3a, <1>3b, <1>4, <1>5 DEF Reading
    <3>2. QED
      BY <2>1, <2>3, <3>1
  <2>4. QED
    BY <2>2, <2>3
<1>6. CASE Mine(f).resp = None
  <2>1. Streamed(f, piece, absorbed) =
          IF q.st \in {"status", "error"} \/ Redirected(f) THEN f ELSE Publish(f)
    BY <1>4, <1>6 DEF Streamed, Mine
  <2>2. CASE q.st \in {"status", "error"} \/ Redirected(f)
    <3>1. Reading(f)
      BY <1>3, <1>3a, <1>3b, <1>4, <1>6, <2>2 DEF Reading
    <3>2. QED
      BY <2>1, <2>2, <3>1
  <2>3. CASE ~(q.st \in {"status", "error"} \/ Redirected(f))
    <3>1. q.st \in {"body", "chunks", "done", "oversized"} /\ q \in Parser /\ q.status # None
      BY <1>2, <2>3 DEF Sound, Parser
    <3>2. PICK r : r = Publish(f)
      OBVIOUS
    <3>3. /\ Core(r) /\ r.c = f.c
          /\ Mine(r).resp = f.c.socket /\ Mine(r).status = q.status
          /\ Mine(r).ask = Mine(f).ask /\ Mine(r).hops = Mine(f).hops
      BY <1>3, <1>4, <3>1, <3>2, PublishCore
    <3>4. Mine(r).phase = "pending"
      BY <3>3 DEF Core
    <3>5. Assigned(r)
      BY <1>3, <1>4, <3>3, <3>4 DEF Assigned
    <3>6. Transport(r)
      BY <1>3, <3>3 DEF Transport
    <3>7. Reading(r)
      BY <1>3, <1>3a, <1>3b, <1>4, <2>3, <3>3, <3>5, <3>6 DEF Reading
    <3>8. QED
      BY <2>1, <2>3, <3>2, <3>7
  <2>4. QED
    BY <2>2, <2>3
<1>7. QED
  BY <1>5, <1>6

LEMMA FedReading ==
  ASSUME NEW s, Receiving(s), ~s.c.stream, NEW piece \in ReplyPiece,
         NEW q, q = Feed(s.c.parser, s.c.stream, piece), NEW f, Fed(f, s, q)
  PROVE  Reading(f)
<1>1. /\ s.c.stream \in BOOLEAN /\ Sound(s.c.parser, s.c.stream)
      /\ s.c.parser.st \in {"status", "body", "chunks"} /\ Busy(s) /\ Core(s)
  BY ReceivingIs
<1>2. Sound(q, s.c.stream) /\ (s.c.parser.st # "status" => q.st # "status"
          /\ q.status = s.c.parser.status /\ q.loc = s.c.parser.loc)
  BY <1>1, FeedSound
<1>3. /\ Core(f) /\ Assigned(f) /\ Transport(f) /\ Mine(f) = Mine(s)
      /\ f.c.state = "receiving" /\ f.c.calls = <<>> /\ f.c.socket # None
      /\ Sound(f.c.parser, f.c.stream)
      /\ q.st = "status" => Mine(f).resp = None
  BY <1>2, FedIs
<1>4. f.c.parser = q /\ ~f.c.stream
  BY DEF Fed
<1>5. QED
  BY <1>3, <1>4 DEF Reading

LEMMA EndReading ==
  ASSUME NEW s, Receiving(s), NEW q, q = FeedEof(s.c.parser), NEW f, Fed(f, s, q)
  PROVE  Reading(f)
<1>1. /\ s.c.stream \in BOOLEAN /\ Sound(s.c.parser, s.c.stream)
      /\ s.c.parser.st \in {"status", "body", "chunks"} /\ Busy(s) /\ Core(s)
  BY ReceivingIs
<1>2. /\ Sound(q, s.c.stream) /\ q.st \in {"done", "error"}
      /\ q.status = s.c.parser.status /\ q.loc = s.c.parser.loc
      /\ q.st = "done" => s.c.parser.st = "body"
  BY <1>1, FeedEofSound
<1>3. /\ Core(f) /\ Assigned(f) /\ Transport(f) /\ Mine(f) = Mine(s)
      /\ f.c.state = "receiving" /\ f.c.calls = <<>> /\ f.c.socket # None
      /\ Sound(f.c.parser, f.c.stream)
      /\ q.st = "status" => Mine(f).resp = None
      /\ f.c.stream /\ s.c.parser.st # "status" /\ Mine(f).resp = None => Redirected(f)
  BY <1>2, FedIs
<1>4. f.c.parser = q
  BY DEF Fed
<1>5. QED
  BY <1>2, <1>3, <1>4 DEF Reading

-----------------------------------------------------------------------------
(* The steps of the client.                                                 *)
ClientOK == Now \in State /\ ClientInv(Now)

(* A phase that maps the client's state to a good one leaves it good.       *)
LEMMA BecomesInv ==
  ASSUME NEW r, r \in State, ClientInv(r), Becomes(r)
  PROVE  ClientOK'
<1>1. r = [c |-> r.c, h |-> r.h, w |-> r.w]
  BY DEF State
<1>2. Now' = r
  BY <1>1 DEF Becomes, Now
<1>3. Now' \in State /\ ClientInv(Now')
  BY <1>2
<1>4. QED
  BY <1>3 DEF ClientOK

LEMMA NowIs ==
  ASSUME ClientOK
  PROVE  /\ Now.c = client /\ Now.h = handles /\ Now.w = wire
         /\ client \in ClientRec /\ handles \in [Ids -> HandleRec] /\ wire \in [Links -> LinkRec]
         /\ Now \in [c : {client}, h : {handles}, w : {wire}]
  BY DEF Now, ClientOK, State

(* Every failure.                                                           *)
LEMMA FailStep ==
  ASSUME ClientOK, client.state # "idle", Becomes(Fail(Now))
  PROVE  ClientOK'
<1>1. Core(Now)
  BY NowIs, BusyCore DEF ClientOK
<1>2. PICK r : r = Fail(Now)
  OBVIOUS
<1>3. r \in State /\ ClientInv(r)
  BY <1>1, <1>2, CompleteInv DEF Fail
<1>4. QED
  BY <1>2, <1>3, BecomesInv

LEMMA ConnectorFailsStep ==
  ASSUME ClientOK, ConnectorFails
  PROVE  ClientOK'
<1>1. /\ client \in ClientRec /\ handles \in [Ids -> HandleRec] /\ wire \in [Links -> LinkRec]
      /\ client.state = "awaiting" /\ client.state # "idle"
  BY NowIs DEF ConnectorFails
<1>2. Core(Now) /\ Busy(Now)
  BY <1>1, NowIs, BusyCore DEF ClientOK, ClientInv
<1>3. PICK k \in Links : k = client.connector
  BY <1>1, <1>2, NowIs DEF Busy, Transport, ClientRec
<1>4. PICK c, w : c = [client EXCEPT !.connector = None] /\ w = [wire EXCEPT ![k].c = "closed"]
  OBVIOUS
<1>5. c \in ClientRec /\ c.request = client.request
  BY <1>1, <1>4 DEF ClientRec
<1>6. w \in [Links -> LinkRec]
  <2>1. w = [wire EXCEPT ![k] = [wire[k] EXCEPT !.c = "closed"]]
    BY <1>1, <1>4
  <2>2. [wire[k] EXCEPT !.c = "closed"] \in LinkRec
    BY <1>1 DEF LinkRec
  <2>3. QED
    BY <1>1, <2>1, <2>2
<1>7. PICK s : s = [Now EXCEPT !.w[client.connector].c = "closed", !.c.connector = None]
  OBVIOUS
<1>8. s.c = c /\ s.h = handles /\ s.w = w /\ s \in [c : {s.c}, h : {s.h}, w : {s.w}]
  BY <1>3, <1>4, <1>7 DEF Now
<1>9. s \in State
  BY <1>1, <1>5, <1>6, <1>8 DEF State
<1>10. Core(s)
  BY <1>2, <1>5, <1>8, <1>9, NowIs DEF Core, Mine
<1>11. PICK r : r = Fail(s)
  OBVIOUS
<1>12. r \in State /\ ClientInv(r)
  BY <1>10, <1>11, CompleteInv DEF Fail
<1>13. QED
  BY <1>7, <1>11, <1>12, BecomesInv DEF ConnectorFails

LEMMA ConnectorReadyStep ==
  ASSUME ClientOK, ConnectorReady
  PROVE  ClientOK'
<1>1. /\ client \in ClientRec /\ handles \in [Ids -> HandleRec] /\ wire \in [Links -> LinkRec]
      /\ client.state = "awaiting" /\ client.state # "idle"
  BY NowIs DEF ConnectorReady
<1>2. Core(Now) /\ Busy(Now)
  BY <1>1, NowIs, BusyCore DEF ClientOK, ClientInv
<1>3. PICK k \in Links : k = client.connector
  BY <1>1, <1>2, NowIs DEF Busy, Transport, ClientRec
<1>4. PICK c, w : /\ c = [client EXCEPT !.socket = k, !.connector = None, !.state = "sending"]
                  /\ w = [wire EXCEPT ![k].c = "up", ![k].s = "backlog"]
  OBVIOUS
<1>5. /\ c \in ClientRec /\ c.state = "sending" /\ c.socket = k /\ c.connector = None
      /\ c.request = client.request /\ c.tx = client.tx /\ c.parser = client.parser
      /\ c.stream = client.stream /\ c.left = client.left /\ c.armed = client.armed
      /\ c.calls = client.calls
  BY <1>1, <1>4 DEF ClientRec
<1>6. w \in [Links -> LinkRec]
  <2>1. w = [wire EXCEPT ![k] = [wire[k] EXCEPT !.c = "up", !.s = "backlog"]]
    BY <1>1, <1>4
  <2>2. [wire[k] EXCEPT !.c = "up", !.s = "backlog"] \in LinkRec
    BY <1>1 DEF LinkRec
  <2>3. QED
    BY <1>1, <2>1, <2>2
<1>7. PICK r : r = [Now EXCEPT !.c.socket = client.connector, !.c.connector = None,
                               !.c.state = "sending",
                               !.w[client.connector].c = "up",
                               !.w[client.connector].s = "backlog"]
  OBVIOUS
<1>8. r.c = c /\ r.h = handles /\ r.w = w /\ r \in [c : {r.c}, h : {r.h}, w : {r.w}]
  BY <1>3, <1>4, <1>7 DEF Now
<1>9. r \in State
  BY <1>1, <1>5, <1>6, <1>8 DEF State
<1>10. Mine(r) = Mine(Now)
  BY <1>5, <1>8, NowIs DEF Mine
<1>11. Core(r)
  BY <1>2, <1>5, <1>8, <1>9, <1>10, NowIs DEF Core
<1>12. Mine(Now).resp = None
  BY <1>1, <1>2, NowIs, NoneNoLink DEF Busy, Assigned, Transport
<1>13. Busy(r)
  <2>1. Assigned(r)
    BY <1>2, <1>5, <1>8, <1>10, <1>12, NowIs DEF Busy, Assigned
  <2>2. Parsing(r)
    BY <1>1, <1>2, <1>5, <1>8, <1>10, NowIs DEF Busy, Parsing, NewParser
  <2>3. Transport(r)
    BY <1>1, <1>2, <1>5, <1>8, NowIs, NoneNoLink DEF Busy, Transport
  <2>4. QED
    BY <2>1, <2>2, <2>3 DEF Busy
<1>14. ClientInv(r)
  BY <1>5, <1>8, <1>11, <1>13, BusyInv
<1>15. QED
  BY <1>7, <1>9, <1>14, BecomesInv DEF ConnectorReady

LEMMA NotEmpty ==
  ASSUME NEW S, NEW t \in Seq(S), NEW n \in Nat, Len(t) = n - 1, n # 1
  PROVE  t # <<>>
  BY EmptySeq

LEMMA SendInv ==
  ASSUME ClientOK, ClientSend
  PROVE  ClientOK'
<1>1. /\ client \in ClientRec /\ handles \in [Ids -> HandleRec] /\ wire \in [Links -> LinkRec]
      /\ client.state = "sending" /\ client.state # "idle"
  BY NowIs DEF ClientSend
<1>2. Core(Now) /\ Busy(Now)
  BY <1>1, NowIs, BusyCore DEF ClientOK, ClientInv
<1>3. PICK k \in Links : k = client.socket
  BY <1>1, <1>2, NowIs DEF Busy, Transport, ClientRec
<1>4. PICK tx \in Seq(AskPiece) : tx = client.tx
  BY <1>1 DEF ClientRec
<1>5. tx # <<>>
  BY <1>1, <1>2, <1>4, NowIs DEF Busy, Transport
<1>6. PICK rest \in Seq(AskPiece), a \in AskPiece, n \in Nat :
        rest = Tail(tx) /\ a = Head(tx) /\ n = Len(tx) /\ (n # 1 => rest # <<>>)
  <2>1. Tail(tx) \in Seq(AskPiece) /\ Head(tx) \in AskPiece /\ Len(tx) \in Nat
        /\ Len(Tail(tx)) = Len(tx) - 1 /\ Len(tx) # 0
    BY <1>5
  <2>2. Len(tx) # 1 => Tail(tx) # <<>>
    <3>1. PICK t \in Seq(AskPiece), m \in Nat : t = Tail(tx) /\ m = Len(tx) /\ Len(t) = m - 1 /\ m # 0
      BY <2>1
    <3>2. m # 1 => t # <<>>
      BY <3>1, NotEmpty
    <3>3. QED
      BY <3>1, <3>2
  <2>3. QED
    BY <2>1, <2>2
<1>7. PICK st \in {"sending", "receiving"} :
        st = (IF n = 1 THEN "receiving" ELSE "sending")
  OBVIOUS
<1>8. PICK up \in Seq(AskPiece) :
        up = IF Link.s = "closed" THEN wire[k].up ELSE Append(wire[k].up, a)
  <2>1. PICK own \in Seq(AskPiece) : own = wire[k].up
    BY <1>1 DEF LinkRec
  <2>2. Append(own, a) \in Seq(AskPiece)
    OBVIOUS
  <2>3. QED
    BY <2>1, <2>2
<1>9. PICK c, w : /\ c = [client EXCEPT !.tx = rest, !.state = st]
                  /\ w = [wire EXCEPT ![k].up = up]
  OBVIOUS
<1>10. /\ c \in ClientRec /\ c.state = st /\ c.socket = client.socket /\ c.connector = client.connector
       /\ c.request = client.request /\ c.tx = rest /\ c.parser = client.parser
       /\ c.stream = client.stream /\ c.left = client.left /\ c.armed = client.armed
       /\ c.calls = client.calls
  BY <1>1, <1>9 DEF ClientRec
<1>11. w \in [Links -> LinkRec]
  <2>1. w = [wire EXCEPT ![k] = [wire[k] EXCEPT !.up = up]]
    BY <1>1, <1>9
  <2>2. [wire[k] EXCEPT !.up = up] \in LinkRec
    BY <1>1 DEF LinkRec
  <2>3. QED
    BY <1>1, <2>1, <2>2
<1>12. PICK r : r = [Now EXCEPT
             !.c.tx = Tail(@),
             !.c.state = IF Len(client.tx) = 1 THEN "receiving" ELSE @,
             !.w[client.socket].up = IF Link.s = "closed" THEN @ ELSE Append(@, Head(client.tx))]
  OBVIOUS
<1>13. r.c = c /\ r.h = handles /\ r.w = w /\ r \in [c : {r.c}, h : {r.h}, w : {r.w}]
  <2>1. r = [Now EXCEPT !.c.tx = rest, !.c.state = st, !.w[k].up = up]
    BY <1>1, <1>3, <1>4, <1>6, <1>7, <1>8, <1>12 DEF Now
  <2>2. QED
    BY <1>9, <2>1 DEF Now
<1>14. r \in State
  BY <1>1, <1>10, <1>11, <1>13 DEF State
<1>15. Mine(r) = Mine(Now)
  BY <1>10, <1>13, NowIs DEF Mine
<1>16. Core(r)
  BY <1>2, <1>10, <1>13, <1>14, <1>15, NowIs DEF Core
<1>17. Busy(r)
  <2>1. Assigned(r)
    BY <1>2, <1>10, <1>13, <1>15, NowIs DEF Busy, Assigned
  <2>2. Parsing(r)
    BY <1>1, <1>2, <1>10, <1>13, <1>15, NowIs DEF Busy, Parsing, NewParser
  <2>3. Transport(r)
    BY <1>1, <1>2, <1>3, <1>6, <1>7, <1>10, <1>13, NowIs, NoneNoLink DEF Busy, Transport
  <2>4. QED
    BY <2>1, <2>2, <2>3 DEF Busy
<1>18. ClientInv(r)
  BY <1>7, <1>10, <1>13, <1>16, <1>17, BusyInv
<1>19. Becomes(r) => ClientOK'
  BY <1>14, <1>18, BecomesInv
<1>20. QED
  BY <1>1, <1>12, <1>19, FailStep DEF ClientSend

(* A client that reads.                                                     *)
LEMMA ReceivesNow ==
  ASSUME ClientOK, CanReceive
  PROVE  /\ Receiving(Now) /\ client.request \in Ids /\ client.socket \in Links
         /\ client.stream = Now.c.stream
         /\ client.stream => Mine(Now).fill < StreamBuffer
<1>1. /\ client \in ClientRec /\ client.state = "receiving" /\ client.calls = <<>>
  BY NowIs DEF CanReceive, Handles
<1>2. Receiving(Now)
  BY <1>1, NowIs DEF Receiving, ClientOK
<1>3. Busy(Now) /\ Core(Now)
  BY <1>2, ReceivingIs
<1>4. client.request \in Ids
  BY <1>3, NowIs DEF Core
<1>5. client.socket \in Links
  BY <1>1, <1>3, NowIs DEF Busy, Transport, ClientRec
<1>6. QED
  BY <1>2, <1>4, <1>5, NowIs DEF CanReceive, Mine

(* A piece has been read, and fed to the parser.                            *)
Absorbs(p, piece) == p.st = "body" \/ (p.st = "chunks" /\ piece.op = "body")

PieceRead(piece, q, f, s) ==
  /\ Receiving(Now) /\ client.socket \in Links /\ Link.down # <<>> /\ piece = Head(Link.down)
  /\ client.stream => Mine(Now).fill < StreamBuffer
  /\ q = Feed(client.parser, client.stream, piece) /\ Sound(q, client.stream)
  /\ Fed(f, Now, q)
  /\ f.w = [wire EXCEPT ![client.socket].down = Tail(Link.down)]
  /\ s = IF client.stream THEN Streamed(f, piece, Absorbs(client.parser, piece)) ELSE f
  /\ Reading(s)

LEMMA ReceivePieceIs ==
  ASSUME ClientOK, ReceivePiece
  PROVE  \E piece, q, f, s :
           piece \in ReplyPiece /\ PieceRead(piece, q, f, s) /\ \E r \in Parsed(s) : Becomes(r)
<1>1. CanReceive /\ Link.down # <<>>
  BY DEF ReceivePiece
<1>2. /\ Receiving(Now) /\ client.stream \in BOOLEAN
      /\ client.stream => Mine(Now).fill < StreamBuffer
      /\ client \in ClientRec /\ handles \in [Ids -> HandleRec] /\ wire \in [Links -> LinkRec]
  BY <1>1, ReceivesNow, NowIs DEF ClientRec
<1>3. PICK k \in Links : k = client.socket
  BY <1>1, ReceivesNow
<1>4. PICK down \in Seq(ReplyPiece) : down = Link.down
  BY <1>2, <1>3 DEF LinkRec, Link
<1>5. PICK piece \in ReplyPiece, rest \in Seq(ReplyPiece) : piece = Head(down) /\ rest = Tail(down)
  <2>1. down # <<>>
    BY <1>1, <1>4
  <2>2. Head(down) \in ReplyPiece /\ Tail(down) \in Seq(ReplyPiece)
    BY <2>1
  <2>3. QED
    BY <2>2
<1>6. /\ Sound(client.parser, client.stream)
      /\ client.parser.st \in {"status", "body", "chunks"}
  BY <1>2, ReceivingIs, NowIs
<1>7. PICK q : q = Feed(client.parser, client.stream, piece)
  OBVIOUS
<1>8. Sound(q, client.stream)
  BY <1>2, <1>6, <1>7, FeedSound
<1>9. q \in Parser
  BY <1>8 DEF Sound
<1>10. PICK absorbed \in BOOLEAN :
         absorbed = (client.parser.st = "body" \/ (client.parser.st = "chunks" /\ piece.op = "body"))
  OBVIOUS
<1>11. PICK f : f = [Now EXCEPT !.c.parser = Feed(@, client.stream, piece),
                                !.w[client.socket].down = Tail(@)]
  OBVIOUS
<1>12. PICK c, w : c = [client EXCEPT !.parser = q] /\ w = [wire EXCEPT ![k].down = rest]
  OBVIOUS
<1>13. f.c = c /\ f.h = handles /\ f.w = w /\ f \in [c : {f.c}, h : {f.h}, w : {f.w}]
  <2>1. f = [Now EXCEPT !.c.parser = q, !.w[k].down = rest]
    BY <1>2, <1>3, <1>4, <1>5, <1>7, <1>11 DEF Now, Link
  <2>2. QED
    BY <1>12, <2>1 DEF Now
<1>14. /\ c \in ClientRec /\ c.parser = q /\ c.state = client.state /\ c.request = client.request
       /\ c.connector = client.connector /\ c.socket = client.socket /\ c.tx = client.tx
       /\ c.stream = client.stream /\ c.left = client.left /\ c.armed = client.armed
       /\ c.calls = client.calls /\ c.policy = client.policy
  BY <1>2, <1>9, <1>12 DEF ClientRec
<1>15. w \in [Links -> LinkRec]
  <2>1. w = [wire EXCEPT ![k] = [wire[k] EXCEPT !.down = rest]]
    BY <1>2, <1>12
  <2>2. [wire[k] EXCEPT !.down = rest] \in LinkRec
    BY <1>2 DEF LinkRec
  <2>3. QED
    BY <1>2, <2>1, <2>2
<1>16. f \in State
  BY <1>2, <1>13, <1>14, <1>15 DEF State
<1>17. Fed(f, Now, q)
  BY <1>13, <1>14, <1>16, NowIs DEF Fed
<1>18. PICK s : s = IF client.stream THEN Streamed(f, piece, absorbed) ELSE f
  OBVIOUS
<1>19. Reading(s)
  <2>1. CASE client.stream
    BY <1>2, <1>7, <1>17, <1>18, <2>1, NowIs, StreamedReading
  <2>2. CASE ~client.stream
    BY <1>2, <1>7, <1>17, <1>18, <2>2, NowIs, FedReading
  <2>3. QED
    BY <2>1, <2>2
<1>20. PICK r \in Parsed(s) : Becomes(r)
  BY <1>4, <1>5, <1>10, <1>11, <1>18 DEF ReceivePiece
<1>21. f.w = [wire EXCEPT ![client.socket].down = Tail(Link.down)]
  BY <1>3, <1>4, <1>5, <1>12, <1>13
<1>22. PieceRead(piece, q, f, s)
  BY <1>1, <1>2, <1>3, <1>4, <1>5, <1>7, <1>8, <1>10, <1>17, <1>18, <1>19, <1>21
     DEF PieceRead, Absorbs
<1>23. QED
  BY <1>20, <1>22

LEMMA ReceivePieceStep ==
  ASSUME ClientOK, ReceivePiece
  PROVE  ClientOK'
<1>1. PICK piece, q, f, s :
        piece \in ReplyPiece /\ PieceRead(piece, q, f, s) /\ \E r \in Parsed(s) : Becomes(r)
  BY ReceivePieceIs
<1>2. PICK r \in Parsed(s) : Becomes(r)
  BY <1>1
<1>3. r \in State /\ ClientInv(r)
  BY <1>1, ParsedInv DEF PieceRead
<1>4. QED
  BY <1>2, <1>3, BecomesInv

(* The server has closed the connection.                                    *)
EndRead(q, f) ==
  /\ Receiving(Now) /\ client.socket \in Links /\ ClientSeesEnd(Link)
  /\ q = FeedEof(client.parser) /\ Sound(q, client.stream)
  /\ Fed(f, Now, q) /\ f.w = wire /\ Reading(f)

LEMMA ReceiveEndIs ==
  ASSUME ClientOK, ReceiveEnd
  PROVE  \E q, f : EndRead(q, f) /\ \E r \in Parsed(f) : Becomes(r)
<1>1. CanReceive
  BY DEF ReceiveEnd
<1>2. /\ Receiving(Now) /\ client.stream \in BOOLEAN
      /\ client \in ClientRec /\ handles \in [Ids -> HandleRec] /\ wire \in [Links -> LinkRec]
  BY <1>1, ReceivesNow, NowIs DEF ClientRec
<1>3. /\ Sound(client.parser, client.stream)
      /\ client.parser.st \in {"status", "body", "chunks"}
  BY <1>2, ReceivingIs, NowIs
<1>4. PICK q : q = FeedEof(client.parser)
  OBVIOUS
<1>5. Sound(q, client.stream)
  BY <1>2, <1>3, <1>4, FeedEofSound
<1>6. q \in Parser
  BY <1>5 DEF Sound
<1>7. PICK f : f = [Now EXCEPT !.c.parser = FeedEof(@)]
  OBVIOUS
<1>8. PICK c : c = [client EXCEPT !.parser = q]
  OBVIOUS
<1>9. f.c = c /\ f.h = handles /\ f.w = wire /\ f \in [c : {f.c}, h : {f.h}, w : {f.w}]
  BY <1>4, <1>7, <1>8 DEF Now
<1>10. /\ c \in ClientRec /\ c.parser = q /\ c.state = client.state /\ c.request = client.request
       /\ c.connector = client.connector /\ c.socket = client.socket /\ c.tx = client.tx
       /\ c.stream = client.stream /\ c.left = client.left /\ c.armed = client.armed
       /\ c.calls = client.calls /\ c.policy = client.policy
  BY <1>2, <1>6, <1>8 DEF ClientRec
<1>11. f \in State
  BY <1>2, <1>9, <1>10 DEF State
<1>12. Fed(f, Now, q)
  BY <1>9, <1>10, <1>11, NowIs DEF Fed
<1>13. Reading(f)
  BY <1>2, <1>4, <1>12, NowIs, EndReading
<1>14. PICK r \in Parsed(f) : Becomes(r)
  BY <1>7 DEF ReceiveEnd
<1>15. client.socket \in Links /\ ClientSeesEnd(Link)
  BY <1>1, ReceivesNow DEF ReceiveEnd
<1>16. EndRead(q, f)
  BY <1>2, <1>4, <1>5, <1>9, <1>12, <1>13, <1>15 DEF EndRead
<1>17. QED
  BY <1>14, <1>16

LEMMA ReceiveEndStep ==
  ASSUME ClientOK, ReceiveEnd
  PROVE  ClientOK'
<1>1. PICK q, f : EndRead(q, f) /\ \E r \in Parsed(f) : Becomes(r)
  BY ReceiveEndIs
<1>2. PICK r \in Parsed(f) : Becomes(r)
  BY <1>1
<1>3. r \in State /\ ClientInv(r)
  BY <1>1, ParsedInv DEF EndRead
<1>4. QED
  BY <1>2, <1>3, BecomesInv

LEMMA NextIdIn ==
  ASSUME \E i \in Ids : handles[i].phase = "unused"
  PROVE  NextId \in Ids /\ handles[NextId].phase = "unused"
<1> DEFINE S == {i \in Ids : handles[i].phase = "unused"}
<1>1. Ids \in SUBSET Int /\ IsFiniteSet(Ids)
  BY ClientAssumption, FS_Interval DEF Ids, ClientAssumption
<1>2. S \in SUBSET Int /\ IsFiniteSet(S) /\ S # {}
  BY <1>1, FS_Subset
<1>3. PICK m \in S : \A e \in S : m <= e
  BY <1>2, SmallestOf
<1>4. m \in Ids /\ handles[m].phase = "unused" /\ \A j \in 1..(m - 1) : handles[j].phase # "unused"
  <2>1. ASSUME NEW j \in 1..(m - 1) PROVE j \in Ids /\ ~(m <= j)
    BY ClientAssumption DEF Ids, ClientAssumption
  <2>2. QED
    BY <1>3, <2>1
<1>5. \E i \in Ids : handles[i].phase = "unused" /\ \A j \in 1..(i - 1) : handles[j].phase # "unused"
  BY <1>4
<1>6. QED
  BY <1>5 DEF NextId

(* What request() makes of an idle client, before it starts the first hop.  *)
Begun(i, ask) ==
  [Now EXCEPT !.c.request = i, !.c.stream = ask.stream, !.c.left = ask.redirects,
              !.c.armed = TRUE, !.h[i].phase = "pending", !.h[i].ask = ask]

Beginning(h, ask) == [h EXCEPT !.phase = "pending", !.ask = ask]

LEMMA BegunIs ==
  ASSUME ClientOK, client.state = "idle", NEW i \in Ids, handles[i].phase = "unused",
         NEW ask \in Request
  PROVE  LET r == Begun(i, ask) IN
         /\ r \in State /\ r.w = wire
         /\ r.c.request = i /\ r.c.stream = ask.stream /\ r.c.left = ask.redirects
         /\ r.c.armed /\ r.c.state = "idle" /\ r.c.connector = None /\ r.c.socket = None
         /\ r.c.calls = client.calls /\ r.c.policy = client.policy
         /\ r.h[i] = Beginning(NoHandle, ask) /\ \A j \in Ids : j # i => r.h[j] = handles[j]
<1> DEFINE r == Begun(i, ask)
<1>1. /\ client \in ClientRec /\ handles \in [Ids -> HandleRec] /\ wire \in [Links -> LinkRec]
      /\ HandleOK(handles[i])
      /\ client = [Idle(client.policy) EXCEPT !.calls = client.calls]
  BY NowIs DEF ClientOK, ClientInv
<1>2. handles[i] = NoHandle /\ NoHandle \in HandleRec
  BY <1>1 DEF HandleOK
<1>3. ask.stream \in BOOLEAN /\ ask.redirects \in Nat
  BY DEF Request
<1>4. client.connector = None /\ client.socket = None
  BY <1>1 DEF Idle
<1>5. PICK c, e : /\ c = [client EXCEPT !.request = i, !.stream = ask.stream,
                                        !.left = ask.redirects, !.armed = TRUE]
                  /\ e = Beginning(NoHandle, ask)
  OBVIOUS
<1>6. /\ c \in ClientRec /\ c.request = i /\ c.stream = ask.stream /\ c.left = ask.redirects
      /\ c.armed /\ c.state = client.state /\ c.connector = client.connector
      /\ c.socket = client.socket /\ c.calls = client.calls /\ c.policy = client.policy
  BY <1>1, <1>3, <1>5 DEF ClientRec
<1>7. e \in HandleRec
  BY <1>2, <1>5 DEF Beginning, HandleRec
<1>8. PICK h : h = [handles EXCEPT ![i] = e]
  OBVIOUS
<1>9. h \in [Ids -> HandleRec] /\ h[i] = e /\ \A j \in Ids : j # i => h[j] = handles[j]
  BY <1>1, <1>7, <1>8
<1>10. r.c = c /\ r.h = h /\ r.w = wire /\ r \in [c : {r.c}, h : {r.h}, w : {r.w}]
  <2>1. h = [handles EXCEPT ![i] = [handles[i] EXCEPT !.phase = "pending", !.ask = ask]]
    BY <1>2, <1>5, <1>8 DEF Beginning
  <2>2. h = [handles EXCEPT ![i].phase = "pending", ![i].ask = ask]
    BY <1>1, <2>1 DEF HandleRec
  <2>3. QED
    BY <1>5, <2>2 DEF Begun, Now
<1> HIDE DEF r
<1>11. r \in State
  BY <1>1, <1>6, <1>9, <1>10 DEF State
<1>12. QED
  BY <1>1, <1>4, <1>5, <1>6, <1>9, <1>10, <1>11 DEF r

LEMMA AskStep ==
  ASSUME ClientOK, Ask
  PROVE  ClientOK'
<1>1. client.state = "idle" /\ NextId \in Ids /\ handles[NextId].phase = "unused"
      /\ NextLink \in Links
  BY NextIdIn, NextLinkIn DEF Ask, Room
<1>2. PICK i \in Ids, k \in Links : i = NextId /\ k = NextLink
  BY <1>1
<1>3. PICK ask \in Requests[i] :
        Becomes(StartHop(Begun(i, ask), k, ask.method, ask.len))
  BY <1>2 DEF Ask, Begun
<1>4. ask \in Request /\ ask.method \in {"GET", "POST"} /\ ask.len \in Nat
      /\ ask.redirects \in Nat /\ ask.stream \in BOOLEAN
  BY ClientAssumption DEF ClientAssumption, Ids, Request
<1>5. PICK s : s = Begun(i, ask)
  OBVIOUS
<1>6. /\ s \in State
      /\ s.c.request = i /\ s.c.stream = ask.stream /\ s.c.left = ask.redirects
      /\ s.c.armed /\ s.c.state = "idle" /\ s.c.connector = None /\ s.c.socket = None
      /\ s.h[i] = Beginning(NoHandle, ask) /\ \A j \in Ids : j # i => s.h[j] = handles[j]
  BY <1>1, <1>2, <1>4, <1>5, BegunIs
<1>7. PICK r : r = StartHop(s, k, ask.method, ask.len)
  OBVIOUS
<1>8. /\ r \in State
      /\ r.c.state = "awaiting" /\ r.c.connector = k /\ r.c.parser = NewParser
      /\ r.c.tx # <<>> /\ r.c.request = i /\ r.c.socket = None /\ r.c.stream = ask.stream
      /\ r.c.left = ask.redirects /\ r.c.armed
      /\ HopOn(r.h[i], s.h[i]) /\ \A j \in Ids : j # i => r.h[j] = handles[j]
  <2>0. s \in State /\ i = s.c.request
    BY <1>6
  <2>1. /\ r \in State
        /\ r.c.state = "awaiting" /\ r.c.connector = k /\ r.c.parser = NewParser
        /\ r.c.tx # <<>> /\ r.c.request = s.c.request /\ r.c.socket = s.c.socket
        /\ r.c.stream = s.c.stream /\ r.c.left = s.c.left /\ r.c.armed = s.c.armed
    BY <1>4, <1>7, <2>0, StartsHop
  <2>2. HopOn(r.h[i], s.h[i]) /\ \A j \in Ids : j # i => r.h[j] = s.h[j]
    BY <1>4, <1>7, <2>0, StartsHop
  <2>3. QED
    BY <1>6, <2>1, <2>2
<1>9. /\ s.h[i].phase = "pending" /\ s.h[i].ask = ask /\ s.h[i].resp = None /\ s.h[i].hops = 0
      /\ s.h[i].body = <<>> /\ s.h[i].buf = <<>> /\ s.h[i].fill = 0
  BY <1>6 DEF Beginning, NoHandle
<1>10. PICK e : e = r.h[i]
  OBVIOUS
<1>11. /\ e.phase = "pending" /\ e.ask = ask /\ e.resp = None /\ e.hops = 1
       /\ e.body = <<>> /\ e.buf = <<>> /\ e.fill = 0
  BY <1>8, <1>9, <1>10 DEF HopOn
<1>12. HandleOK(e)
  <2>1. StreamBuffer \in Nat /\ Len(<<>>) = 0
    BY ClientAssumption DEF ClientAssumption
  <2>2. QED
    BY <1>4, <1>11, <2>1 DEF HandleOK
<1>13. \A j \in Ids : j # i => HandleOK(handles[j]) /\ handles[j].phase # "pending"
  BY <1>1, NowIs DEF ClientOK, ClientInv
<1>14. Mine(r) = e
  BY <1>8, <1>10 DEF Mine
<1>15. Core(r)
  <2>1. \A j \in Ids : HandleOK(r.h[j]) /\ (r.h[j].phase = "pending" => j = i)
    BY <1>8, <1>10, <1>12, <1>13
  <2>2. QED
    BY <1>4, <1>8, <1>11, <1>14, <2>1 DEF Core
<1>16. Busy(r)
  <2>1. Assigned(r)
    BY <1>4, <1>8, <1>11, <1>14 DEF Assigned
  <2>2. Sound(NewParser, r.c.stream)
    BY NewParserSound
  <2>3. Parsing(r)
    BY <1>8, <1>11, <1>14, <2>2 DEF Parsing, NewParser
  <2>4. Transport(r)
    BY <1>8, NoneNoLink DEF Transport
  <2>5. QED
    BY <2>1, <2>3, <2>4 DEF Busy
<1>17. ClientInv(r)
  BY <1>8, <1>15, <1>16, BusyInv
<1>18. QED
  BY <1>3, <1>5, <1>7, <1>8, <1>17, BecomesInv

LEMMA ReadStep ==
  ASSUME ClientOK, NEW i \in Ids, ReadBodyInto(i)
  PROVE  ClientOK'
<1>1. /\ client \in ClientRec /\ handles \in [Ids -> HandleRec] /\ wire \in [Links -> LinkRec]
      /\ client' = client /\ wire' = wire
  BY NowIs DEF ReadBodyInto
<1>2. handles[i] \in HandleRec /\ HandleOK(handles[i]) /\ handles[i].buf # <<>>
  BY <1>1, NowIs DEF ReadBodyInto, ClientOK, ClientInv
<1>3. PICK buf \in Seq(BodyPiece), body \in Seq(BodyPiece), fill \in Nat :
        buf = handles[i].buf /\ body = handles[i].body /\ fill = handles[i].fill
  BY <1>2 DEF HandleRec
<1>4. PICK n \in 1..Len(buf) :
        handles' = [handles EXCEPT ![i].body = @ \o SubSeq(buf, 1, n),
                                   ![i].buf  = SubSeq(@, n + 1, Len(@)),
                                   ![i].fill = IF n = Len(buf) THEN 0 ELSE @]
  BY <1>3 DEF ReadBodyInto
<1>5. PICK m \in Nat : m = Len(buf)
  OBVIOUS
<1>6. /\ SubSeq(buf, 1, n) \in Seq(BodyPiece) /\ SubSeq(buf, n + 1, m) \in Seq(BodyPiece)
      /\ Len(SubSeq(buf, n + 1, m)) = m - n
  BY <1>5
<1>7. body \o SubSeq(buf, 1, n) \in Seq(BodyPiece)
  BY <1>6
<1>8. PICK b \in Seq(BodyPiece), left \in Seq(BodyPiece), f \in Nat :
        /\ b = body \o SubSeq(buf, 1, n) /\ left = SubSeq(buf, n + 1, m) /\ Len(left) = m - n
        /\ f = IF n = m THEN 0 ELSE fill
  BY <1>6, <1>7
<1>9. PICK e : e = [handles[i] EXCEPT !.body = b, !.buf = left, !.fill = f]
  OBVIOUS
<1>10. handles' = [handles EXCEPT ![i] = e]
  <2>1. handles' = [handles EXCEPT ![i].body = b, ![i].buf = left, ![i].fill = f]
    BY <1>1, <1>3, <1>4, <1>5, <1>8
  <2>2. QED
    BY <1>1, <1>9, <2>1
<1>11. /\ e \in HandleRec /\ e.body = b /\ e.buf = left /\ e.fill = f
       /\ e.phase = handles[i].phase /\ e.ask = handles[i].ask /\ e.resp = handles[i].resp
       /\ e.status = handles[i].status /\ e.hops = handles[i].hops
  BY <1>2, <1>9 DEF HandleRec
<1>12. handles' \in [Ids -> HandleRec] /\ handles'[i] = e
       /\ \A j \in Ids : j # i => handles'[j] = handles[j]
  BY <1>1, <1>10, <1>11
<1>13. HandleOK(e)
  <2>1. m <= fill /\ fill <= StreamBuffer /\ StreamBuffer \in Nat
    BY <1>2, <1>3, <1>5, ClientAssumption DEF HandleOK, ClientAssumption
  <2>2. Len(left) <= f /\ f <= StreamBuffer
    BY <1>5, <1>8, <2>1
  <2>3. handles[i].phase # "unused" /\ handles[i].resp # None
    BY <1>2 DEF HandleOK, NoHandle
  <2>4. QED
    BY <1>2, <1>11, <2>2, <2>3 DEF HandleOK
<1>14. PICK r : r = Now'
  OBVIOUS
<1>15. r.c = client /\ r.h = handles' /\ r.w = wire /\ r \in State
  BY <1>1, <1>12, <1>14 DEF Now, State
<1>16. ClientInv(r)
  <2>1. \A j \in Ids : HandleOK(r.h[j]) /\ r.h[j].phase = handles[j].phase
    BY <1>11, <1>12, <1>13, <1>15, NowIs DEF ClientOK, ClientInv
  <2>2. CASE client.state = "idle"
    BY <1>15, <2>1, <2>2, NowIs DEF ClientOK, ClientInv
  <2>3. CASE client.state # "idle"
    <3>1. Busy(Now) /\ Core(Now)
      BY <2>3, NowIs, BusyCore DEF ClientOK, ClientInv
    <3>2. PICK k \in Ids : k = client.request
      BY <3>1, NowIs DEF Core
    <3>3. /\ Mine(r).phase = Mine(Now).phase /\ Mine(r).ask = Mine(Now).ask
          /\ Mine(r).resp = Mine(Now).resp /\ Mine(r).status = Mine(Now).status
          /\ Mine(r).hops = Mine(Now).hops
      BY <1>11, <1>12, <1>15, <3>2, NowIs DEF Mine
    <3>4. Core(r)
      BY <1>15, <2>1, <3>1, <3>3, NowIs DEF Core
    <3>5. Assigned(r)
      BY <1>15, <3>1, <3>3, NowIs DEF Busy, Assigned
    <3>6. Parsing(r)
      BY <1>15, <3>1, <3>3, NowIs DEF Busy, Parsing, Redirected
    <3>7. Transport(r)
      BY <1>15, <3>1, NowIs DEF Busy, Transport
    <3>8. QED
      BY <1>15, <2>3, <3>4, <3>5, <3>6, <3>7, BusyInv DEF Busy
  <2>4. QED
    BY <2>2, <2>3
<1>17. QED
  BY <1>14, <1>15, <1>16 DEF ClientOK

(* A callback has returned.                                                 *)
Popped == [Now EXCEPT !.c.calls = SubSeq(@, 1, Len(client.calls) - 1)]

LEMMA PoppedIs ==
  ASSUME ClientOK, Len(client.calls) > 0
  PROVE  /\ Popped \in State /\ Popped.h = handles /\ Popped.w = wire
         /\ \E calls \in Seq({"done", "oversized"}) :
              Popped.c = [client EXCEPT !.calls = calls]
<1>1. /\ client \in ClientRec /\ handles \in [Ids -> HandleRec] /\ wire \in [Links -> LinkRec]
  BY NowIs
<1>2. PICK calls \in Seq({"done", "oversized"}), n \in Nat : calls = client.calls /\ n = Len(calls)
  BY <1>1 DEF ClientRec
<1>3. SubSeq(calls, 1, n - 1) \in Seq({"done", "oversized"})
  BY <1>2
<1>4. PICK q \in Seq({"done", "oversized"}) : q = SubSeq(calls, 1, n - 1)
  BY <1>3
<1>5. PICK c : c = [client EXCEPT !.calls = q]
  OBVIOUS
<1>6. c \in ClientRec
  BY <1>1, <1>5 DEF ClientRec
<1>7. Popped.c = c /\ Popped.h = handles /\ Popped.w = wire
      /\ Popped \in [c : {Popped.c}, h : {Popped.h}, w : {Popped.w}]
  BY <1>2, <1>4, <1>5 DEF Popped, Now
<1>8. QED
  BY <1>1, <1>5, <1>6, <1>7 DEF State

LEMMA ReturnStep ==
  ASSUME ClientOK, CallbackReturns
  PROVE  ClientOK'
<1>1. /\ client \in ClientRec /\ handles \in [Ids -> HandleRec] /\ wire \in [Links -> LinkRec]
      /\ Len(client.calls) > 0
  BY NowIs DEF CallbackReturns
<1>2. PICK s : s = Popped
  OBVIOUS
<1>3. s \in State /\ s.h = handles /\ s.w = wire
  BY <1>1, <1>2, PoppedIs
<1>4. PICK calls \in Seq({"done", "oversized"}) : s.c = [client EXCEPT !.calls = calls]
  BY <1>1, <1>2, PoppedIs
<1>5. /\ s.c.state = client.state /\ s.c.request = client.request /\ s.c.connector = client.connector
      /\ s.c.socket = client.socket /\ s.c.tx = client.tx /\ s.c.parser = client.parser
      /\ s.c.stream = client.stream /\ s.c.left = client.left /\ s.c.armed = client.armed
      /\ s.c.calls = calls /\ s.c.policy = client.policy
  BY <1>1, <1>4 DEF ClientRec
<1>6. PICK last : last = client.calls[Len(client.calls)]
  OBVIOUS
<1>7. Becomes(IF last = "oversized" /\ client.parser # None THEN Complete(s, "dropped") ELSE s)
  BY <1>2, <1>6 DEF CallbackReturns, Popped
<1>8. CASE client.state = "idle"
  <2>1. client = [Idle(client.policy) EXCEPT !.calls = client.calls]
    BY <1>8, NowIs DEF ClientOK, ClientInv
  <2>2. client.parser = None
    BY <2>1 DEF Idle
  <2>3. s.c = [Idle(s.c.policy) EXCEPT !.calls = s.c.calls]
    <3>1. s.c = [[Idle(client.policy) EXCEPT !.calls = client.calls] EXCEPT !.calls = calls]
      BY <1>4, <2>1
    <3>2. s.c = [Idle(client.policy) EXCEPT !.calls = calls]
      BY <3>1 DEF Idle
    <3>3. QED
      BY <1>5, <3>2
  <2>4. \A i \in Ids : HandleOK(s.h[i]) /\ s.h[i].phase # "pending"
    BY <1>3, <1>8, NowIs DEF ClientOK, ClientInv
  <2>5. ClientInv(s)
    BY <1>5, <1>8, <2>3, <2>4 DEF ClientInv
  <2>6. QED
    BY <1>3, <1>7, <2>2, <2>5, BecomesInv
<1>9. CASE client.state # "idle"
  <2>1. Busy(Now) /\ Core(Now)
    BY <1>9, NowIs, BusyCore DEF ClientOK, ClientInv
  <2>2. Mine(s) = Mine(Now)
    BY <1>3, <1>5, NowIs DEF Mine
  <2>3. Core(s)
    BY <1>3, <1>5, <2>1, <2>2, NowIs DEF Core
  <2>4. client.parser # None
    BY <2>1, NowIs, NoneIsNoValue DEF Busy, Parsing, Sound
  <2>5. CASE last = "oversized"
    <3>1. PICK r : r = Complete(s, "dropped")
      OBVIOUS
    <3>2. r \in State /\ ClientInv(r)
      BY <2>3, <3>1, CompleteInv
    <3>3. QED
      BY <1>7, <2>4, <2>5, <3>1, <3>2, BecomesInv
  <2>6. CASE last # "oversized"
    <3>1. client.parser.st # "oversized" /\ client.calls # <<>>
      BY <1>1, <1>6, <2>1, <2>6, NowIs DEF Busy, Parsing
    <3>2. Mine(s).resp = None
      BY <2>1, <2>2, <3>1, NowIs DEF Busy, Assigned
    <3>3. Assigned(s)
      BY <1>5, <2>1, <2>2, <3>2, NowIs DEF Busy, Assigned
    <3>4. Parsing(s)
      BY <1>5, <2>1, <2>2, <3>1, NowIs DEF Busy, Parsing, Redirected
    <3>5. Transport(s)
      BY <1>5, <2>1, NowIs DEF Busy, Transport
    <3>6. ClientInv(s)
      BY <1>5, <1>9, <2>3, <3>3, <3>4, <3>5, BusyInv DEF Busy
    <3>7. QED
      BY <1>3, <1>7, <2>6, <3>6, BecomesInv
  <2>7. QED
    BY <2>5, <2>6
<1>10. QED
  BY <1>8, <1>9

LEMMA ClientStep ==
  ASSUME ClientOK, ClientHandle \/ ClientApp
  PROVE  ClientOK'
<1>1. CASE ClientHandle
  BY <1>1, FailStep, ConnectorFailsStep, ConnectorReadyStep, SendInv, ReceivePieceStep,
     ReceiveEndStep
     DEF ClientHandle, Timeout, ReceiveFails, CanReceive, Handles
<1>2. CASE ClientApp
  BY <1>2, AskStep, FailStep, ReadStep, ReturnStep DEF ClientApp, Cancel
<1>3. QED
  BY <1>1, <1>2

-----------------------------------------------------------------------------
(* What a step of the client does to the connections and to the handles.    *)

(* The cases of _complete, _follow_redirect and _fail after a read.         *)
LEMMA ParsedCases ==
  ASSUME NEW s, Reading(s), NEW r \in Parsed(s)
  PROVE  \/ r = s /\ s.c.parser.st \in {"status", "body", "chunks"}
         \/ /\ s.c.parser.st = "oversized" /\ r \in State
            /\ r.h = s.h /\ r.w = s.w /\ r.c.connector = s.c.connector /\ r.c.socket = s.c.socket
            /\ r.c.state = s.c.state /\ r.c.tx = s.c.tx /\ r.c.parser = s.c.parser
            /\ r.c.stream = s.c.stream /\ r.c.request = s.c.request
         \/ r = Complete(s, "error") /\ (s.c.parser.st = "error" \/ Mine(s).resp = None)
         \/ r = Complete(s, "dropped") /\ Mine(s).resp = None
         \/ r = Complete(s, "ok") /\ s.c.stream /\ Mine(s).resp # None /\ s.c.parser.st = "done"
         \/ /\ r = Complete(Whole(s), "ok") /\ ~s.c.stream /\ Mine(s).resp = None
            /\ s.c.parser.st = "done" /\ s.c.parser.status # None
         \/ /\ r = NextHop(s) /\ Mine(s).resp = None /\ s.c.left > 0 /\ Unused # {}
            /\ s.c.parser.st = "done" /\ Redirected(s)
<1>1. /\ Core(s) /\ s \in State /\ s.c.parser \in Parser /\ Sound(s.c.parser, s.c.stream)
      /\ s.c.stream \in BOOLEAN
  BY DEF Reading, Core, Sound, State, ClientRec
<1>2. ~s.c.stream => Mine(s).resp = None
  BY DEF Reading, Assigned
<1>3. ASSUME r \in FollowRedirect(s) PROVE r = Complete(s, "error") \/ (Unused # {} /\ r = NextHop(s))
  BY <1>3 DEF FollowRedirect, RedirectRefused
<1>4. CASE s.c.parser.st = "done"
  <2>1. r \in Completed(s) /\ s.c.parser.status # None
    BY <1>1, <1>4 DEF Parsed, Sound
  <2>2. CASE s.c.stream /\ Mine(s).resp = None
    <3>1. r \in FollowRedirect(s) /\ Redirected(s) /\ s.c.left > 0
      BY <1>4, <2>1, <2>2 DEF Completed, Mine, Reading, Redirected
    <3>2. QED
      BY <1>3, <1>4, <2>2, <3>1
  <2>3. CASE s.c.stream /\ Mine(s).resp # None
    <3>1. r = Complete(s, "ok")
      BY <2>1, <2>3 DEF Completed, Mine
    <3>2. QED
      BY <1>4, <2>3, <3>1
  <2>4. CASE ~s.c.stream /\ Redirected(s)
    <3>1. r \in FollowRedirect(s) /\ s.c.left > 0
      BY <2>1, <2>4 DEF Completed, Redirected
    <3>2. QED
      BY <1>2, <1>3, <1>4, <2>4, <3>1
  <2>5. CASE ~s.c.stream /\ ~Redirected(s)
    <3>1. r = Complete(Whole(s), "ok")
      BY <2>1, <2>5 DEF Completed, Whole
    <3>2. QED
      BY <1>2, <1>4, <2>1, <2>5, <3>1
  <2>6. QED
    BY <1>1, <2>2, <2>3, <2>4, <2>5
<1>5. CASE s.c.parser.st = "error"
  BY <1>5 DEF Parsed, Fail
<1>6. CASE s.c.parser.st = "oversized"
  <2>1. r = FailOversized(s) /\ Mine(s).resp = None
    BY <1>1, <1>2, <1>6 DEF Parsed, Sound
  <2>2. s.c.policy \in {"drop_silent", "drop_with_event", "disconnect"}
    BY <1>1, ClientAssumption DEF State, ClientRec
  <2>3. CASE s.c.policy = "disconnect"
    BY <2>1, <2>3 DEF FailOversized, Fail
  <2>4. CASE s.c.policy = "drop_silent"
    BY <2>1, <2>4 DEF FailOversized
  <2>5. CASE s.c.policy = "drop_with_event"
    <3>1. r = [s EXCEPT !.c.calls = Append(@, "oversized")]
      BY <2>1, <2>5 DEF FailOversized
    <3>2. PICK d : d = [s.c EXCEPT !.calls = Append(@, "oversized")]
      OBVIOUS
    <3>3. r.c = d /\ r.h = s.h /\ r.w = s.w
      BY <1>1, <3>1, <3>2 DEF State
    <3>4. /\ d.connector = s.c.connector /\ d.socket = s.c.socket /\ d.state = s.c.state
          /\ d.tx = s.c.tx /\ d.parser = s.c.parser /\ d.stream = s.c.stream
          /\ d.request = s.c.request
      BY <1>1, <3>2 DEF State, ClientRec
    <3>5. r \in State
      BY ParsedInv
    <3>6. QED
      BY <1>6, <3>3, <3>4, <3>5
  <2>6. QED
    BY <2>2, <2>3, <2>4, <2>5
<1>7. CASE s.c.parser.st \in {"status", "body", "chunks"}
  BY <1>7 DEF Parsed
<1>8. QED
  BY <1>1, <1>4, <1>5, <1>6, <1>7 DEF Parser

(* The sockets of the client, and where connections stand at the server.    *)
Wired(s) == Opened(s) /\ FreshLinks(s.w) /\ ClosedLinks(s.w)

Ends(s, r) == \A l \in Links : \/ r.w[l].s = s.w[l].s
                               \/ s.w[l].s = "none" /\ r.w[l].s = "backlog"

WireKept(s, r) == Wired(s) => Wired(r) /\ Ends(s, r)

Single(s) == s.c.connector = None \/ s.c.socket = None

LEMMA WireSame ==
  ASSUME NEW s, NEW r, r.w = s.w, r.c.connector = s.c.connector, r.c.socket = s.c.socket
  PROVE  WireKept(s, r)
  BY DEF WireKept, Wired, Opened, Ends

LEMMA WireThen ==
  ASSUME NEW s, NEW t, NEW r, WireKept(s, t), WireKept(t, r)
  PROVE  WireKept(s, r)
  BY DEF WireKept, Ends

LEMMA HungUpWired ==
  ASSUME NEW s \in State, Single(s), Opened(s)
  PROVE  \A l \in Links : HungUp(s)[l].c \in {"none", "closed"}
<1>1. SUFFICES ASSUME NEW l \in Links PROVE HungUp(s)[l].c \in {"none", "closed"}
  OBVIOUS
<1>2. s.w[l] \in LinkRec
  BY DEF State
<1>3. CASE l = Held(s.c)
  BY <1>2, <1>3, HangsUp, ClientEnds
<1>4. CASE l # Held(s.c)
  <2>1. HungUp(s)[l] = s.w[l]
    BY <1>4, HangsUp
  <2>2. l \notin {s.c.connector, s.c.socket}
    BY <1>4, NoneNoLink DEF Single, Held
  <2>3. QED
    BY <1>2, <2>1, <2>2 DEF Opened, LinkRec
<1>5. QED
  BY <1>3, <1>4

LEMMA HungUpKept ==
  ASSUME NEW s \in State, FreshLinks(s.w), ClosedLinks(s.w)
  PROVE  /\ FreshLinks(HungUp(s)) /\ ClosedLinks(HungUp(s))
         /\ \A l \in Links : HungUp(s)[l].s = s.w[l].s
<1>1. ASSUME NEW l \in Links
      PROVE  /\ HungUp(s)[l].s = s.w[l].s
             /\ HungUp(s)[l].c = "closed" => HungUp(s)[l].down = <<>>
             /\ HungUp(s)[l].c \in {"none", "dialling"} =>
                  HungUp(s)[l] = [NewLink EXCEPT !.c = HungUp(s)[l].c]
  <2>1. s.w[l] \in LinkRec
    BY DEF State
  <2>2. CASE l = Held(s.c)
    BY <2>1, <2>2, HangsUp, ClientEnds
  <2>3. CASE l # Held(s.c)
    BY <2>3, HangsUp DEF FreshLinks, ClosedLinks
  <2>4. QED
    BY <2>2, <2>3
<1>2. QED
  BY <1>1 DEF FreshLinks, ClosedLinks

LEMMA EndWired ==
  ASSUME NEW s \in State, Single(s), NEW r, r.w = HungUp(s), r.c.connector = None, r.c.socket = None
  PROVE  WireKept(s, r)
<1>1. SUFFICES ASSUME Opened(s), FreshLinks(s.w), ClosedLinks(s.w) PROVE Wired(r) /\ Ends(s, r)
  BY DEF WireKept, Wired
<1>2. \A l \in Links : r.w[l].c \notin {"dialling", "up"}
  BY <1>1, HungUpWired
<1>3. Opened(r)
  BY <1>2 DEF Opened
<1>4. QED
  BY <1>1, <1>3, HungUpKept DEF Wired, Ends

(* A connection that is being made was never used.                          *)
LEMMA DialFresh ==
  ASSUME NEW w, NEW v, NEW k \in Links, FreshLinks(w), ClosedLinks(w), w[k].c = "none",
         Dialled(v[k], w[k]), \A l \in Links : l # k => v[l] = w[l]
  PROVE  FreshLinks(v) /\ ClosedLinks(v) /\ \A l \in Links : v[l].s = w[l].s
<1>1. w[k] = NewLink
  BY DEF FreshLinks, NewLink
<1>2. v[k] = [NewLink EXCEPT !.c = "dialling"]
  <2>1. /\ v[k] \in LinkRec /\ v[k].c = "dialling" /\ v[k].s = NewLink.s /\ v[k].up = NewLink.up
        /\ v[k].down = NewLink.down /\ v[k].lost = NewLink.lost
    BY <1>1 DEF Dialled
  <2>2. QED
    BY <2>1 DEF LinkRec, NewLink
<1>3. v[k].c = "dialling" /\ v[k].s = w[k].s
  BY DEF Dialled
<1>4. QED
  BY <1>2, <1>3 DEF FreshLinks, ClosedLinks

LEMMA HopWired ==
  ASSUME NEW s, Core(s), Single(s), s.c.left > 0, Unused # {},
         \A l \in Links : s.w[l].c = wire[l].c
  PROVE  WireKept(s, NextHop(s))
<1>1. SUFFICES ASSUME Opened(s), FreshLinks(s.w), ClosedLinks(s.w)
               PROVE  Wired(NextHop(s)) /\ Ends(s, NextHop(s))
  BY DEF WireKept, Wired
<1>2. PICK i \in Ids, k \in Links : i = s.c.request /\ k = NextLink /\ wire[k].c = "none"
  BY NextLinkIn DEF Core
<1>3. s \in State
  BY DEF Core
<1>4. PICK r : r = NextHop(s)
  OBVIOUS
<1>5. /\ r.c.connector = k /\ r.c.socket = None
      /\ Dialled(r.w[k], HungUp(s)[k]) /\ \A l \in Links : l # k => r.w[l] = HungUp(s)[l]
  BY <1>2, <1>4, NextHopIs
<1>6. /\ FreshLinks(HungUp(s)) /\ ClosedLinks(HungUp(s))
      /\ \A l \in Links : HungUp(s)[l].s = s.w[l].s
      /\ \A l \in Links : HungUp(s)[l].c \in {"none", "closed"}
  BY <1>1, <1>3, HungUpKept, HungUpWired
<1>7. HungUp(s)[k].c = "none"
  <2>1. s.w[k].c = "none"
    BY <1>2
  <2>2. k # Held(s.c)
    <3>1. s.c.connector # k /\ s.c.socket # k
      BY <1>1, <2>1, NoneNoLink DEF Opened
    <3>2. QED
      BY <3>1 DEF Held
  <2>3. QED
    BY <1>3, <2>1, <2>2, HangsUp
<1>8. FreshLinks(r.w) /\ ClosedLinks(r.w) /\ \A l \in Links : r.w[l].s = HungUp(s)[l].s
  BY <1>5, <1>6, <1>7, DialFresh
<1>9. Opened(r)
  BY <1>5, <1>6, NoneNoLink DEF Opened, Dialled
<1>10. QED
  BY <1>4, <1>6, <1>8, <1>9 DEF Wired, Ends

(* What a step tells of one request: nothing new, its response, its end; it *)
(* may have made a hop more.                                                *)
Untold(a, b) == b.phase = a.phase /\ b.result = a.result /\ b.resp = a.resp /\ b.told = a.told

Published(a, b) ==
  /\ a.phase = "pending" /\ a.resp = None /\ a.ask.stream
  /\ b.phase = "pending" /\ b.resp \in Links /\ b.result = a.result /\ b.told = a.told

Ended(a, b) ==
  /\ a.phase = "pending" /\ b.phase = "done" /\ b.told = a.told + 1
  /\ IF a.resp = None
     THEN \/ b.resp = None /\ b.result \in {"error", "dropped"}
          \/ b.resp \in Links /\ b.result = "ok"
     ELSE b.resp = a.resp /\ b.result \in {"ok", "error"}

Advances(a, b) ==
  /\ b.ask = a.ask /\ b.hops \in {a.hops, a.hops + 1}
  /\ Untold(a, b) \/ Published(a, b) \/ Ended(a, b)

Progress(i, g, h) == Advances(g[i], h[i]) /\ \A j \in Ids : j # i => h[j] = g[j]

LEMMA ProgressNone ==
  ASSUME NEW i, NEW h
  PROVE  Progress(i, h, h)
  BY DEF Progress, Advances, Untold

(* A completion from the state s, reached in the same step from t.          *)
LEMMA EndProgress ==
  ASSUME NEW s, Core(s), NEW res \in {"ok", "error", "dropped"}, NEW i \in Ids, i = s.c.request,
         NEW g, g[i].ask = s.h[i].ask, \A j \in Ids : j # i => s.h[j] = g[j],
         g[i].phase = "pending", g[i].told = s.h[i].told, g[i].hops = s.h[i].hops,
         IF g[i].resp = None THEN \/ s.h[i].resp = None /\ res # "ok"
                                  \/ s.h[i].resp \in Links /\ res = "ok"
         ELSE s.h[i].resp = g[i].resp /\ res # "dropped"
  PROVE  Progress(i, g, Complete(s, res).h)
<1>1. s \in State
  BY DEF Core
<1>2. PICK r : r = Complete(s, res)
  OBVIOUS
<1>3. PICK e : e = Done(s.h[i], res)
  OBVIOUS
<1>4. r.h[i] = e /\ \A j \in Ids : j # i => r.h[j] = s.h[j]
  BY <1>1, <1>2, <1>3, Completes
<1>5. e.phase = "done" /\ e.result = res /\ e.told = s.h[i].told + 1 /\ e.ask = s.h[i].ask
      /\ e.resp = s.h[i].resp /\ e.hops = s.h[i].hops
  BY <1>1, <1>3, Completes
<1>6. Ended(g[i], e) /\ e.ask = g[i].ask /\ e.hops = g[i].hops
  BY <1>5 DEF Ended
<1>7. QED
  BY <1>2, <1>4, <1>6 DEF Progress, Advances

LEMMA HopProgress ==
  ASSUME NEW s, Core(s), s.c.left > 0, Unused # {}, NEW i \in Ids, i = s.c.request,
         NEW g, g[i].ask = s.h[i].ask, \A j \in Ids : j # i => s.h[j] = g[j],
         Untold(g[i], s.h[i]), g[i].hops = s.h[i].hops
  PROVE  Progress(i, g, NextHop(s).h)
<1>1. PICK k \in Links : k = NextLink
  BY NextLinkIn
<1>2. PICK r : r = NextHop(s)
  OBVIOUS
<1>3. HopOn(r.h[i], s.h[i]) /\ \A j \in Ids : j # i => r.h[j] = s.h[j]
  BY <1>1, <1>2, NextHopIs
<1>4. QED
  BY <1>2, <1>3 DEF HopOn, Progress, Advances, Untold

(* The end of a request that is under way, in whichever phase.              *)
Effect(s, r) == WireKept(s, r) /\ \E i \in Ids : Progress(i, s.h, r.h)

LEMMA FailEffect ==
  ASSUME NEW s, Core(s), Single(s), NEW res \in {"error", "dropped"},
         res = "dropped" => Mine(s).resp = None, NEW t, WireKept(t, s), t.h = s.h
  PROVE  Effect(t, Complete(s, res))
<1>1. s \in State /\ s.c.request \in Ids
  BY DEF Core
<1>2. PICK i \in Ids : i = s.c.request
  BY <1>1
<1>3. s.h[i].phase = "pending" /\ (res = "dropped" => s.h[i].resp = None)
  BY <1>2 DEF Core, Mine
<1>4. Progress(i, s.h, Complete(s, res).h)
  BY <1>2, <1>3, EndProgress
<1>5. PICK r : r = Complete(s, res)
  OBVIOUS
<1>6. r.w = HungUp(s) /\ r.c = Idling(s.c.policy, Append(s.c.calls, "done"))
  BY <1>1, <1>2, <1>5, Completes
<1>7. r.c.connector = None /\ r.c.socket = None
  BY <1>6 DEF Idling, Idle
<1>8. WireKept(s, r)
  BY <1>1, <1>6, <1>7, EndWired
<1>9. WireKept(t, r)
  BY <1>8, WireThen
<1>10. QED
  BY <1>4, <1>5, <1>9 DEF Effect

(* What a read leads to.  The handles were those of t before it, and the    *)
(* response of s may have been published since.                             *)
LEMMA ParsedEffect ==
  ASSUME NEW s, Reading(s), NEW r \in Parsed(s), NEW t, WireKept(t, s),
         \A l \in Links : s.w[l].c = wire[l].c, NEW i \in Ids, i = s.c.request,
         Progress(i, t.h, s.h), Untold(t.h[i], s.h[i]) \/ Published(t.h[i], s.h[i]),
         s.c.parser.st = "error" => Untold(t.h[i], s.h[i]), t.h[i].hops = s.h[i].hops
  PROVE  Effect(t, r)
<1>1. /\ Core(s) /\ s \in State /\ s.c.socket \in Links /\ Single(s)
      /\ Sound(s.c.parser, s.c.stream) /\ s.h[i].phase = "pending"
  <2>1. s.c.socket # None /\ s.c.connector = None
    BY DEF Reading, Transport
  <2>2. QED
    BY <2>1 DEF Reading, Core, Single, Mine, State, ClientRec
<1>2. /\ t.h[i].ask = s.h[i].ask /\ t.h[i].phase = "pending" /\ t.h[i].told = s.h[i].told
      /\ \A j \in Ids : j # i => s.h[j] = t.h[j]
  BY <1>1 DEF Progress, Advances, Untold, Published
<1>3. Mine(s) = s.h[i]
  BY DEF Mine
<1>4. s.h[i].resp = t.h[i].resp \/ (t.h[i].resp = None /\ s.h[i].resp \in Links)
  BY DEF Untold, Published
<1>5. s.h[i].resp \in Links \cup {None}
  BY <1>1 DEF State, HandleRec
<1>6. CASE r = s
  BY <1>6 DEF Effect
<1>7. CASE r.h = s.h /\ r.w = s.w /\ r.c.connector = s.c.connector /\ r.c.socket = s.c.socket
  BY <1>7, WireSame, WireThen DEF Effect
<1>8. ASSUME NEW u, Core(u), Single(u), u.w = s.w, u.c = s.c, NEW res \in {"ok", "error", "dropped"},
             r = Complete(u, res)
      PROVE  WireKept(t, r)
  <2>1. u \in State /\ HungUp(u) = HungUp(s)
    BY <1>8 DEF Core, HungUp, Held
  <2>2. r.w = HungUp(u) /\ r.c = Idling(u.c.policy, Append(u.c.calls, "done"))
    BY <1>8, <2>1, Completes
  <2>3. r.c.connector = None /\ r.c.socket = None
    BY <2>2 DEF Idling, Idle
  <2>4. WireKept(s, r)
    BY <1>1, <2>1, <2>2, <2>3, EndWired
  <2>5. QED
    BY <2>4, WireThen
<1>9. ASSUME r = Complete(s, "error"), s.c.parser.st = "error" \/ Mine(s).resp = None
      PROVE  Effect(t, r)
  <2>1. IF t.h[i].resp = None THEN s.h[i].resp = None ELSE s.h[i].resp = t.h[i].resp
    BY <1>3, <1>4, <1>9, NoneNoLink DEF Untold
  <2>2. Progress(i, t.h, r.h)
    BY <1>1, <1>2, <1>9, <2>1, EndProgress
  <2>3. QED
    BY <1>1, <1>8, <1>9, <2>2 DEF Effect
<1>10. ASSUME r = Complete(s, "dropped"), Mine(s).resp = None
       PROVE  Effect(t, r)
  <2>1. t.h[i].resp = None /\ s.h[i].resp = None
    BY <1>3, <1>4, <1>10, NoneNoLink
  <2>2. Progress(i, t.h, r.h)
    BY <1>1, <1>2, <1>10, <2>1, EndProgress
  <2>3. QED
    BY <1>1, <1>8, <1>10, <2>2 DEF Effect
<1>11. ASSUME r = Complete(s, "ok"), Mine(s).resp # None
       PROVE  Effect(t, r)
  <2>1. IF t.h[i].resp = None THEN s.h[i].resp \in Links ELSE s.h[i].resp = t.h[i].resp
    BY <1>3, <1>4, <1>5, <1>11
  <2>2. Progress(i, t.h, r.h)
    BY <1>1, <1>2, <1>11, <2>1, EndProgress
  <2>3. QED
    BY <1>1, <1>8, <1>11, <2>2 DEF Effect
<1>12. ASSUME r = Complete(Whole(s), "ok"), Mine(s).resp = None, s.c.parser.status # None
       PROVE  Effect(t, r)
  <2>1. PICK u : u = Whole(s)
    OBVIOUS
  <2>2. /\ Core(u) /\ u.c = s.c /\ u.w = s.w /\ Mine(u).resp = s.c.socket
        /\ \A j \in Ids : j # i => u.h[j] = s.h[j]
    <3>1. \A j \in Ids : j # i => u.h[j] = s.h[j]
      BY <1>12, <2>1, WholeRest
    <3>2. QED
      BY <1>12, <2>1, <3>1, WholeCore
  <2>3. /\ u.h[i].resp \in Links /\ u.h[i].ask = s.h[i].ask /\ u.h[i].told = s.h[i].told
        /\ u.h[i].hops = s.h[i].hops
    BY <1>1, <1>12, <2>1, <2>2, WholeRest DEF Mine
  <2>4. t.h[i].resp = None
    BY <1>3, <1>4, <1>12, NoneNoLink
  <2>5. Single(u) /\ i = u.c.request
    BY <1>1, <2>2 DEF Single
  <2>6. /\ t.h[i].ask = u.h[i].ask /\ t.h[i].told = u.h[i].told /\ t.h[i].hops = u.h[i].hops
        /\ \A j \in Ids : j # i => u.h[j] = t.h[j]
    BY <1>2, <2>2, <2>3
  <2>7. Progress(i, t.h, Complete(u, "ok").h)
    BY <1>2, <2>2, <2>3, <2>4, <2>5, <2>6, EndProgress
  <2>8. WireKept(t, r)
    BY <1>8, <1>12, <2>1, <2>2, <2>5
  <2>9. QED
    BY <1>12, <2>1, <2>7, <2>8 DEF Effect
<1>13. ASSUME r = NextHop(s), Mine(s).resp = None, s.c.left > 0, Unused # {}
       PROVE  Effect(t, r)
  <2>1. Untold(t.h[i], s.h[i])
    BY <1>3, <1>13, NoneNoLink DEF Published
  <2>2. Progress(i, t.h, r.h)
    BY <1>1, <1>2, <1>13, <2>1, HopProgress
  <2>3. WireKept(s, r)
    BY <1>1, <1>13, HopWired
  <2>4. QED
    BY <2>2, <2>3, WireThen DEF Effect
<1>14. QED
  BY <1>6, <1>7, <1>9, <1>10, <1>11, <1>12, <1>13, ParsedCases

LEMMA BecomesIs ==
  ASSUME NEW r \in State, Becomes(r)
  PROVE  Now' = r
<1>1. r = [c |-> r.c, h |-> r.h, w |-> r.w]
  BY DEF State
<1>2. QED
  BY <1>1 DEF Becomes, Now

LEMMA BusyNow ==
  ASSUME ClientOK, client.state # "idle"
  PROVE  Core(Now) /\ Busy(Now) /\ Single(Now) /\ Now \in State
<1>1. Core(Now) /\ Busy(Now)
  BY NowIs, BusyCore DEF ClientOK, ClientInv
<1>2. QED
  BY <1>1 DEF Busy, Transport, Single, ClientOK

LEMMA FailsEffect ==
  ASSUME ClientOK, client.state # "idle", Becomes(Fail(Now))
  PROVE  Effect(Now, Now')
<1>1. Core(Now) /\ Single(Now)
  BY BusyNow
<1>2. WireKept(Now, Now)
  BY WireSame
<1>3. PICK r : r = Complete(Now, "error")
  OBVIOUS
<1>4. Effect(Now, r) /\ r \in State
  BY <1>1, <1>2, <1>3, FailEffect, CompleteInv
<1>5. Now' = r
  BY <1>3, <1>4, BecomesIs DEF Fail
<1>6. QED
  BY <1>4, <1>5

LEMMA ConnectorFailsEffect ==
  ASSUME ClientOK, ConnectorFails
  PROVE  Effect(Now, Now')
<1>1. /\ client \in ClientRec /\ handles \in [Ids -> HandleRec] /\ wire \in [Links -> LinkRec]
      /\ client.state = "awaiting" /\ client.state # "idle"
  BY NowIs DEF ConnectorFails
<1>2. Core(Now) /\ Busy(Now)
  BY <1>1, BusyNow
<1>3. PICK k \in Links : k = client.connector
  BY <1>1, <1>2, NowIs DEF Busy, Transport, ClientRec
<1>4. PICK s : s = [Now EXCEPT !.w[client.connector].c = "closed", !.c.connector = None]
  OBVIOUS
<1>5. PICK c, w : c = [client EXCEPT !.connector = None] /\ w = [wire EXCEPT ![k].c = "closed"]
  OBVIOUS
<1>6. c \in ClientRec /\ c.request = client.request /\ c.connector = None /\ c.socket = client.socket
  BY <1>1, <1>5 DEF ClientRec
<1>7. w \in [Links -> LinkRec] /\ w[k].c = "closed" /\ w[k].s = wire[k].s /\ w[k].down = wire[k].down
      /\ \A l \in Links : l # k => w[l] = wire[l]
  <2>1. w = [wire EXCEPT ![k] = [wire[k] EXCEPT !.c = "closed"]]
    BY <1>1, <1>5
  <2>2. [wire[k] EXCEPT !.c = "closed"] \in LinkRec
    BY <1>1 DEF LinkRec
  <2>3. QED
    BY <1>1, <2>1, <2>2 DEF LinkRec
<1>8. s.c = c /\ s.h = handles /\ s.w = w /\ s \in [c : {s.c}, h : {s.h}, w : {s.w}]
  BY <1>3, <1>4, <1>5 DEF Now
<1>9. s \in State
  BY <1>1, <1>6, <1>7, <1>8 DEF State
<1>10. Core(s) /\ Single(s)
  BY <1>2, <1>6, <1>8, <1>9, NowIs DEF Core, Mine, Single
<1>11. WireKept(Now, s)
  <2>1. SUFFICES ASSUME Opened(Now), FreshLinks(wire), ClosedLinks(wire)
                 PROVE  Opened(s) /\ FreshLinks(s.w) /\ ClosedLinks(s.w) /\ Ends(Now, s)
    BY NowIs DEF WireKept, Wired
  <2>2. client.socket = None /\ wire[k].c = "dialling"
    BY <1>1, <1>2, <1>3, <2>1, NowIs, NoneNoLink DEF Busy, Transport, Opened
  <2>3. wire[k].down = <<>>
    BY <2>1, <2>2 DEF FreshLinks, NewLink
  <2>4. Opened(s)
    BY <1>3, <1>6, <1>7, <1>8, <2>1, <2>2, NowIs DEF Opened
  <2>5. FreshLinks(s.w)
    BY <1>7, <1>8, <2>1 DEF FreshLinks
  <2>6. ClosedLinks(s.w)
    BY <1>7, <1>8, <2>1, <2>3 DEF ClosedLinks
  <2>7. Ends(Now, s)
    BY <1>7, <1>8, NowIs DEF Ends
  <2>8. QED
    BY <2>4, <2>5, <2>6, <2>7
<1>12. PICK r : r = Complete(s, "error")
  OBVIOUS
<1>13. r \in State
  BY <1>10, <1>12, CompleteInv
<1>14. Effect(Now, r)
  BY <1>8, <1>10, <1>11, <1>12, NowIs, FailEffect
<1>15. Now' = r
  BY <1>4, <1>12, <1>13, BecomesIs DEF ConnectorFails, Fail
<1>16. QED
  BY <1>14, <1>15

LEMMA ConnectorReadyEffect ==
  ASSUME ClientOK, ConnectorReady
  PROVE  Effect(Now, Now')
<1>1. /\ client \in ClientRec /\ handles \in [Ids -> HandleRec] /\ wire \in [Links -> LinkRec]
      /\ client.state = "awaiting" /\ client.state # "idle"
  BY NowIs DEF ConnectorReady
<1>2. Core(Now) /\ Busy(Now)
  BY <1>1, BusyNow
<1>3. PICK k \in Links : k = client.connector
  BY <1>1, <1>2, NowIs DEF Busy, Transport, ClientRec
<1>4. PICK w : w = [wire EXCEPT ![k].c = "up", ![k].s = "backlog"]
  OBVIOUS
<1>5. /\ w[k].c = "up" /\ w[k].s = "backlog" /\ w[k].down = wire[k].down
      /\ \A l \in Links : l # k => w[l] = wire[l]
  <2>1. w = [wire EXCEPT ![k] = [wire[k] EXCEPT !.c = "up", !.s = "backlog"]]
    BY <1>1, <1>4
  <2>2. wire[k] \in LinkRec
    BY <1>1
  <2>3. QED
    BY <1>1, <2>1, <2>2 DEF LinkRec
<1>6. /\ wire' = w /\ handles' = handles
      /\ client' = [client EXCEPT !.socket = k, !.connector = None, !.state = "sending"]
  BY <1>3, <1>4 DEF ConnectorReady, Becomes, Now
<1>7. client'.connector = None /\ client'.socket = k
  BY <1>1, <1>6 DEF ClientRec
<1>8. Now'.c = client' /\ Now'.h = handles /\ Now'.w = w
  BY <1>6 DEF Now
<1>9. WireKept(Now, Now')
  <2>1. SUFFICES ASSUME Opened(Now), FreshLinks(wire), ClosedLinks(wire)
                 PROVE  Opened(Now') /\ FreshLinks(w) /\ ClosedLinks(w) /\ Ends(Now, Now')
    BY <1>8, NowIs DEF WireKept, Wired
  <2>2. client.socket = None /\ wire[k].c = "dialling" /\ wire[k].s = "none"
    BY <1>1, <1>2, <1>3, <2>1, NowIs, NoneNoLink DEF Busy, Transport, Opened, FreshLinks, NewLink
  <2>3. Opened(Now')
    BY <1>3, <1>5, <1>7, <1>8, <2>1, <2>2, NowIs DEF Opened
  <2>4. FreshLinks(w) /\ ClosedLinks(w)
    BY <1>5, <2>1 DEF FreshLinks, ClosedLinks
  <2>5. Ends(Now, Now')
    BY <1>5, <1>8, <2>2, NowIs DEF Ends
  <2>6. QED
    BY <2>3, <2>4, <2>5
<1>10. client.request \in Ids
  BY <1>2, NowIs DEF Core
<1>11. QED
  BY <1>8, <1>9, <1>10, NowIs, ProgressNone DEF Effect

LEMMA SendEffect ==
  ASSUME ClientOK, ClientSend
  PROVE  Effect(Now, Now')
<1>1. /\ client \in ClientRec /\ handles \in [Ids -> HandleRec] /\ wire \in [Links -> LinkRec]
      /\ client.state = "sending" /\ client.state # "idle"
  BY NowIs DEF ClientSend
<1>2. Core(Now) /\ Busy(Now)
  BY <1>1, BusyNow
<1>3. PICK k \in Links : k = client.socket
  BY <1>1, <1>2, NowIs DEF Busy, Transport, ClientRec
<1>4. CASE Becomes(Fail(Now))
  BY <1>1, <1>4, FailsEffect
<1>5. CASE Becomes([Now EXCEPT
             !.c.tx = Tail(@),
             !.c.state = IF Len(client.tx) = 1 THEN "receiving" ELSE @,
             !.w[client.socket].up = IF Link.s = "closed" THEN @ ELSE Append(@, Head(client.tx))])
  <2>1. PICK up : up = IF Link.s = "closed" THEN wire[k].up ELSE Append(wire[k].up, Head(client.tx))
    OBVIOUS
  <2>2. PICK w : w = [wire EXCEPT ![k].up = up]
    OBVIOUS
  <2>3. /\ w[k].c = wire[k].c /\ w[k].s = wire[k].s /\ w[k].down = wire[k].down
        /\ \A l \in Links : l # k => w[l] = wire[l]
    <3>1. w = [wire EXCEPT ![k] = [wire[k] EXCEPT !.up = up]]
      BY <1>1, <2>2
    <3>2. wire[k] \in LinkRec
      BY <1>1
    <3>3. QED
      BY <1>1, <3>1, <3>2 DEF LinkRec
  <2>4. wire' = w /\ handles' = handles
    BY <1>1, <1>3, <1>5, <2>1, <2>2 DEF Becomes, Now
  <2>5. client' = [client EXCEPT !.tx = Tail(client.tx),
                                 !.state = IF Len(client.tx) = 1 THEN "receiving" ELSE client.state]
    BY <1>5 DEF Becomes, Now
  <2>6. client'.connector = client.connector /\ client'.socket = client.socket
    BY <1>1, <2>5 DEF ClientRec
  <2>7. Now'.c = client' /\ Now'.h = handles /\ Now'.w = w
    BY <2>4 DEF Now
  <2>8. WireKept(Now, Now')
    <3>1. SUFFICES ASSUME Opened(Now), FreshLinks(wire), ClosedLinks(wire)
                   PROVE  Opened(Now') /\ FreshLinks(w) /\ ClosedLinks(w) /\ Ends(Now, Now')
      BY <2>7, NowIs DEF WireKept, Wired
    <3>2. wire[k].c = "up"
      BY <1>3, <3>1, NowIs, NoneNoLink DEF Opened
    <3>3. Opened(Now')
      <4>1. \A l \in Links : w[l].c = wire[l].c
        BY <2>3
      <4>2. QED
        BY <1>1, <2>6, <2>7, <3>1, <4>1, NowIs DEF Opened, ClientRec
    <3>4. FreshLinks(w) /\ ClosedLinks(w)
      BY <2>3, <3>1, <3>2 DEF FreshLinks, ClosedLinks
    <3>5. Ends(Now, Now')
      BY <2>3, <2>7, NowIs DEF Ends
    <3>6. QED
      BY <3>3, <3>4, <3>5
  <2>9. client.request \in Ids
    BY <1>2, NowIs DEF Core
  <2>10. QED
    BY <2>7, <2>8, <2>9, NowIs, ProgressNone DEF Effect
<1>6. QED
  BY <1>4, <1>5 DEF ClientSend

(* What a piece of a streamed response left in its handle.                  *)
LEMMA StreamedCases ==
  ASSUME NEW f, NEW piece, NEW absorbed \in BOOLEAN, f.c.parser \in Parser
  PROVE  LET s == Streamed(f, piece, absorbed) IN
         \/ s = Staged(f, piece) /\ Mine(f).resp # None /\ absorbed
         \/ s = f /\ Mine(f).resp # None /\ ~absorbed
         \/ s = f /\ Mine(f).resp = None /\ (f.c.parser.st \in {"status", "error"} \/ Redirected(f))
         \/ /\ s = Publish(f) /\ Mine(f).resp = None /\ ~Redirected(f)
            /\ f.c.parser.st \in {"body", "chunks", "done", "oversized"}
  BY DEF Streamed, Staged, Mine, Parser

(* The pieces on their way to the client are no part of Wired.              *)
LEMMA DownWired ==
  ASSUME NEW k \in Links, wire \in [Links -> LinkRec], NEW rest,
         NEW w, w = [wire EXCEPT ![k].down = rest]
  PROVE  \A l \in Links : /\ w[l].c = wire[l].c /\ w[l].s = wire[l].s /\ w[l].up = wire[l].up
                          /\ w[l].lost = wire[l].lost /\ w[l].down = IF l = k THEN rest ELSE wire[l].down
                          /\ l # k => w[l] = wire[l]
<1>1. w = [wire EXCEPT ![k] = [wire[k] EXCEPT !.down = rest]]
  OBVIOUS
<1>2. \A l \in Links : wire[l] \in LinkRec
  OBVIOUS
<1>3. QED
  BY <1>1, <1>2 DEF LinkRec

LEMMA FedWired ==
  ASSUME ClientOK, NEW f, f.c.connector = client.connector, f.c.socket = client.socket,
         client.socket \in Links, NEW rest, f.w = [wire EXCEPT ![client.socket].down = rest]
  PROVE  WireKept(Now, f) /\ \A l \in Links : f.w[l].c = wire[l].c
<1>1. PICK w : w = f.w
  OBVIOUS
<1>2. PICK k \in Links : k = client.socket
  OBVIOUS
<1>3. wire \in [Links -> LinkRec]
  BY NowIs
<1>4. \A l \in Links : w[l].c = wire[l].c /\ w[l].s = wire[l].s /\ (l # k => w[l] = wire[l])
  BY <1>1, <1>2, <1>3, DownWired
<1>5. WireKept(Now, f)
  <2>1. SUFFICES ASSUME Opened(Now), FreshLinks(wire), ClosedLinks(wire)
                 PROVE  Opened(f) /\ FreshLinks(w) /\ ClosedLinks(w) /\ Ends(Now, f)
    BY <1>1, NowIs DEF WireKept, Wired
  <2>2. wire[k].c = "up"
    BY <1>2, <2>1, NowIs, NoneNoLink DEF Opened
  <2>3. Opened(f)
    BY <1>1, <1>4, <2>1, NowIs DEF Opened
  <2>4. FreshLinks(w) /\ ClosedLinks(w)
    BY <1>4, <2>1, <2>2 DEF FreshLinks, ClosedLinks
  <2>5. Ends(Now, f)
    BY <1>1, <1>4, NowIs DEF Ends
  <2>6. QED
    BY <2>3, <2>4, <2>5
<1>6. QED
  BY <1>1, <1>4, <1>5

(* A piece of the response, fed to the parser and staged or published.      *)
LEMMA PieceEffect ==
  ASSUME ClientOK, NEW piece \in ReplyPiece, NEW q, NEW f, NEW s, PieceRead(piece, q, f, s),
         NEW i \in Ids, i = client.request
  PROVE  /\ WireKept(Now, s) /\ s.w = f.w /\ \A l \in Links : s.w[l].c = wire[l].c
         /\ s.c.request = i /\ s.c.parser = q /\ s.c.state = "receiving"
         /\ handles[i].phase = "pending" /\ s.h[i].phase = "pending"
         /\ s.h[i].ask = handles[i].ask /\ s.h[i].hops = handles[i].hops
         /\ \A j \in Ids : j # i => s.h[j] = handles[j]
         /\ Untold(handles[i], s.h[i]) \/ (Published(handles[i], s.h[i]) /\ q.st # "error")
<1>1. piece \in ReplyPiece /\ PieceRead(piece, q, f, s)
  OBVIOUS
<1>3. /\ Receiving(Now) /\ Fed(f, Now, q) /\ Reading(s) /\ Sound(q, client.stream)
      /\ client.stream => Mine(Now).fill < StreamBuffer
      /\ q = Feed(client.parser, client.stream, piece)
  BY <1>1 DEF PieceRead
<1>4. WireKept(Now, f) /\ \A l \in Links : f.w[l].c = wire[l].c
  <2>1. PICK rest : rest = Tail(Link.down)
    OBVIOUS
  <2>2. f.w = [wire EXCEPT ![client.socket].down = rest] /\ client.socket \in Links
    BY <1>1, <2>1 DEF PieceRead
  <2>3. f.c.connector = client.connector /\ f.c.socket = client.socket
    BY <1>3, NowIs DEF Fed
  <2>4. QED
    BY <2>2, <2>3, FedWired
<1>5. /\ Core(Now) /\ Mine(f) = Mine(Now) /\ f.h = handles /\ Core(f)
      /\ f.c.parser = q /\ f.c.stream = client.stream /\ f.c.request = client.request
      /\ f.c.socket # None /\ client.stream \in BOOLEAN
  <2>1. f.h = handles /\ f.c.parser = q /\ f.c.stream = client.stream /\ f.c.request = client.request
    BY <1>3, NowIs DEF Fed
  <2>2. Core(Now) /\ Busy(Now) /\ client.stream \in BOOLEAN
    BY <1>3, ReceivingIs, NowIs
  <2>3. Mine(f) = Mine(Now)
    BY <2>1, NowIs DEF Mine
  <2>4. Core(f)
    BY <1>3, <2>1, <2>2, <2>3, NowIs DEF Core, Fed
  <2>5. f.c.socket # None
    BY <1>3, <2>2, NowIs DEF Receiving, Busy, Transport, Fed
  <2>6. QED
    BY <2>1, <2>2, <2>3, <2>4, <2>5
<1>6. i = client.request
  OBVIOUS
<1>7. handles[i].phase = "pending" /\ Mine(f) = handles[i] /\ q \in Parser
      /\ client.stream = handles[i].ask.stream
  BY <1>3, <1>5, <1>6, NowIs, ReceivingIs DEF Core, Mine, Sound, Busy, Assigned
<1>8. /\ s.c.request = i /\ s.w = f.w /\ s.c.connector = f.c.connector /\ s.c.socket = f.c.socket
      /\ s.c.parser = q /\ s.c.state = f.c.state
      /\ s.h[i].phase = "pending" /\ s.h[i].ask = handles[i].ask /\ s.h[i].hops = handles[i].hops
      /\ \A j \in Ids : j # i => s.h[j] = handles[j]
      /\ Untold(handles[i], s.h[i]) \/ (Published(handles[i], s.h[i]) /\ q.st # "error")
  <2>1. CASE s = f
    BY <1>5, <1>6, <1>7, <2>1 DEF Untold
  <2>2. CASE client.stream /\ s = Staged(f, piece) /\ Mine(f).resp # None
    <3>1. /\ Core(s) /\ s.c = f.c /\ s.w = f.w
          /\ Mine(s).resp = Mine(f).resp /\ Mine(s).ask = Mine(f).ask
          /\ Mine(s).hops = Mine(f).hops /\ Mine(s).result = Mine(f).result /\ Mine(s).told = Mine(f).told
          /\ \A j \in Ids : j # f.c.request => s.h[j] = f.h[j]
      BY <1>1, <1>3, <1>5, <2>2, StagedIs
    <3>2. Mine(s) = s.h[i] /\ s.h[i].phase = "pending"
      BY <1>5, <1>6, <3>1 DEF Mine, Core
    <3>3. QED
      BY <1>5, <1>6, <1>7, <3>1, <3>2 DEF Untold
  <2>3. CASE client.stream /\ s = Publish(f) /\ Mine(f).resp = None
             /\ q.st \in {"body", "chunks", "done", "oversized"}
    <3>1. q.status # None
      BY <1>3, <2>3 DEF Sound
    <3>2. f \in State /\ i = f.c.request
      BY <1>5, <1>6 DEF Core
    <3>3. /\ s.w = f.w /\ s.c = f.c /\ \A j \in Ids : j # i => s.h[j] = f.h[j]
          /\ s.h[i].resp = f.c.socket /\ s.h[i].phase = f.h[i].phase /\ s.h[i].ask = f.h[i].ask
          /\ s.h[i].hops = f.h[i].hops /\ s.h[i].result = f.h[i].result /\ s.h[i].told = f.h[i].told
      BY <1>5, <1>7, <2>3, <3>1, <3>2, Publishes
    <3>4. f.c.socket \in Links
      BY <1>5, <3>2 DEF State, ClientRec
    <3>5. QED
      BY <1>5, <1>6, <1>7, <2>3, <3>3, <3>4 DEF Published
  <2>4. CASE client.stream
    <3>1. s = Streamed(f, piece, Absorbs(client.parser, piece)) /\ f.c.parser \in Parser
          /\ Absorbs(client.parser, piece) \in BOOLEAN
      BY <1>1, <1>5, <1>7, <2>4 DEF PieceRead, Absorbs
    <3>2. QED
      BY <1>5, <2>1, <2>2, <2>3, <2>4, <3>1, StreamedCases
  <2>5. CASE ~client.stream
    BY <1>1, <2>1, <2>5 DEF PieceRead
  <2>6. QED
    BY <1>5, <2>4, <2>5
<1>9. WireKept(Now, s) /\ \A l \in Links : s.w[l].c = wire[l].c
  BY <1>4, <1>8, WireSame, WireThen
<1>10. f.c.state = "receiving"
  BY <1>3, NowIs DEF Fed, Receiving
<1>11. QED
  BY <1>7, <1>8, <1>9, <1>10

LEMMA ReceivePieceEffect ==
  ASSUME ClientOK, ReceivePiece
  PROVE  Effect(Now, Now')
<1>1. PICK piece, q, f, s :
        piece \in ReplyPiece /\ PieceRead(piece, q, f, s) /\ \E r \in Parsed(s) : Becomes(r)
  BY ReceivePieceIs
<1>2. PICK r \in Parsed(s) : Becomes(r)
  BY <1>1
<1>3. Reading(s)
  BY <1>1 DEF PieceRead
<1>4. PICK i \in Ids : i = client.request
  BY ReceivesNow DEF ReceivePiece
<1>5. /\ WireKept(Now, s) /\ \A l \in Links : s.w[l].c = wire[l].c
      /\ s.c.request = i /\ s.c.parser = q /\ s.h[i].ask = handles[i].ask
      /\ s.h[i].hops = handles[i].hops
      /\ \A j \in Ids : j # i => s.h[j] = handles[j]
      /\ Untold(handles[i], s.h[i]) \/ (Published(handles[i], s.h[i]) /\ q.st # "error")
  BY <1>1, <1>4, PieceEffect
<1>6. Progress(i, handles, s.h)
  BY <1>5 DEF Progress, Advances
<1>7. PICK t : t = Now
  OBVIOUS
<1>8. t.h = handles /\ WireKept(t, s)
  BY <1>5, <1>7, NowIs
<1>9. s.c.parser.st = "error" => Untold(handles[i], s.h[i])
  BY <1>5
<1>10. Effect(t, r)
  BY <1>3, <1>5, <1>6, <1>8, <1>9, ParsedEffect
<1>11. QED
  BY <1>2, <1>3, <1>7, <1>10, ParsedInv, BecomesIs

LEMMA ReceiveEndEffect ==
  ASSUME ClientOK, ReceiveEnd
  PROVE  Effect(Now, Now')
<1>1. PICK q, f : EndRead(q, f) /\ \E r \in Parsed(f) : Becomes(r)
  BY ReceiveEndIs
<1>2. PICK r \in Parsed(f) : Becomes(r)
  BY <1>1
<1>3. Fed(f, Now, q) /\ Reading(f) /\ f.w = wire
  BY <1>1 DEF EndRead
<1>4. /\ f.h = handles /\ f.c.request = client.request /\ f.c.connector = client.connector
      /\ f.c.socket = client.socket
  BY <1>3, NowIs DEF Fed
<1>5. PICK i \in Ids : i = f.c.request
  BY <1>3 DEF Reading, Core
<1>6. PICK t : t = Now
  OBVIOUS
<1>7. t.h = handles /\ WireKept(t, f)
  BY <1>3, <1>4, <1>6, NowIs, WireSame
<1>8. Progress(i, t.h, f.h) /\ Untold(t.h[i], f.h[i]) /\ t.h[i].hops = f.h[i].hops
  BY <1>4, <1>7, ProgressNone DEF Untold
<1>9. Effect(t, r)
  BY <1>3, <1>5, <1>7, <1>8, ParsedEffect
<1>10. QED
  BY <1>2, <1>3, <1>6, <1>9, ParsedInv, BecomesIs

LEMMA ReadEffect ==
  ASSUME ClientOK, NEW i \in Ids, ReadBodyInto(i)
  PROVE  Effect(Now, Now')
<1>1. client' = client /\ wire' = wire /\ handles \in [Ids -> HandleRec]
  BY NowIs DEF ReadBodyInto
<1>2. PICK b, left, f : handles' = [handles EXCEPT ![i].body = b, ![i].buf = left, ![i].fill = f]
  BY <1>1 DEF ReadBodyInto
<1>3. PICK e : e = [handles[i] EXCEPT !.body = b, !.buf = left, !.fill = f]
  OBVIOUS
<1>4. handles' = [handles EXCEPT ![i] = e]
  BY <1>1, <1>2, <1>3
<1>5. handles[i] \in HandleRec
  BY <1>1
<1>6. /\ e.phase = handles[i].phase /\ e.ask = handles[i].ask /\ e.resp = handles[i].resp
      /\ e.result = handles[i].result /\ e.told = handles[i].told /\ e.hops = handles[i].hops
  BY <1>3, <1>5 DEF HandleRec
<1>7. handles'[i] = e /\ \A j \in Ids : j # i => handles'[j] = handles[j]
  BY <1>1, <1>4
<1>8. Progress(i, handles, handles')
  BY <1>6, <1>7 DEF Progress, Advances, Untold
<1>9. Now'.c = client /\ Now'.h = handles' /\ Now'.w = wire
  BY <1>1 DEF Now
<1>10. WireKept(Now, Now')
  BY <1>9, NowIs, WireSame
<1>11. QED
  BY <1>8, <1>9, <1>10, NowIs DEF Effect

LEMMA ReturnEffect ==
  ASSUME ClientOK, CallbackReturns, Ids # {}
  PROVE  Effect(Now, Now')
<1>1. /\ client \in ClientRec /\ handles \in [Ids -> HandleRec] /\ wire \in [Links -> LinkRec]
      /\ Len(client.calls) > 0
  BY NowIs DEF CallbackReturns
<1>2. PICK s : s = Popped
  OBVIOUS
<1>3. s \in State /\ s.h = handles /\ s.w = wire
  BY <1>1, <1>2, PoppedIs
<1>4. PICK calls \in Seq({"done", "oversized"}) : s.c = [client EXCEPT !.calls = calls]
  BY <1>1, <1>2, PoppedIs
<1>5. /\ s.c.request = client.request /\ s.c.connector = client.connector
      /\ s.c.socket = client.socket
  BY <1>1, <1>4 DEF ClientRec
<1>6. WireKept(Now, s)
  BY <1>3, <1>5, NowIs, WireSame
<1>7. CASE Becomes(s)
  <2>1. Now' = s
    BY <1>3, <1>7, BecomesIs
  <2>2. PICK i \in Ids : TRUE
    OBVIOUS
  <2>3. QED
    BY <1>3, <1>6, <2>1, <2>2, NowIs, ProgressNone DEF Effect
<1>8. CASE client.parser # None /\ Becomes(Complete(s, "dropped"))
  <2>1. client.state # "idle"
    BY <1>8, NowIs DEF ClientOK, ClientInv, Idle
  <2>2. Core(Now) /\ Busy(Now) /\ Single(Now)
    BY <2>1, BusyNow
  <2>3. Mine(s) = Mine(Now) /\ Single(s)
    BY <1>3, <1>5, <2>2, NowIs DEF Mine, Single
  <2>4. Core(s)
    BY <1>3, <1>5, <2>2, <2>3, NowIs DEF Core
  <2>5. client.calls # <<>>
    BY <1>1
  <2>6. Mine(s).resp = None
    BY <2>2, <2>3, <2>5, NowIs DEF Busy, Assigned
  <2>7. PICK r : r = Complete(s, "dropped")
    OBVIOUS
  <2>8. r \in State
    BY <2>4, <2>7, CompleteInv
  <2>9. Effect(Now, r)
    BY <1>3, <1>6, <2>3, <2>4, <2>6, <2>7, NowIs, FailEffect
  <2>10. QED
    BY <1>8, <2>7, <2>8, <2>9, BecomesIs
<1>9. QED
  BY <1>2, <1>7, <1>8 DEF CallbackReturns, Popped

(* request() begins one more, when no other is under way.                   *)
Asks1(i, g, h) ==
  /\ g[i] = NoHandle /\ h[i].phase = "pending" /\ h[i].ask \in Request
  /\ h[i].result = None /\ h[i].resp = None /\ h[i].told = 0 /\ h[i].hops = 1
  /\ \A j \in Ids : j # i => h[j] = g[j] /\ g[j].phase # "pending"

LEMMA AskEffect ==
  ASSUME ClientOK, Ask
  PROVE  WireKept(Now, Now') /\ \E i \in Ids : Asks1(i, handles, handles')
<1>1. client.state = "idle" /\ NextId \in Ids /\ handles[NextId].phase = "unused"
      /\ NextLink \in Links /\ wire[NextLink].c = "none"
  BY NextIdIn, NextLinkIn DEF Ask, Room
<1>2. PICK i \in Ids, k \in Links : i = NextId /\ k = NextLink
  BY <1>1
<1>3. PICK ask \in Requests[i] :
        Becomes(StartHop(Begun(i, ask), k, ask.method, ask.len))
  BY <1>2 DEF Ask, Begun
<1>4. ask \in Request /\ ask.method \in {"GET", "POST"} /\ ask.len \in Nat
  BY ClientAssumption DEF ClientAssumption, Ids, Request
<1>5. PICK s : s = Begun(i, ask)
  OBVIOUS
<1>6. /\ s \in State /\ s.w = wire /\ s.c.request = i /\ s.c.connector = None /\ s.c.socket = None
      /\ s.h[i] = Beginning(NoHandle, ask) /\ \A j \in Ids : j # i => s.h[j] = handles[j]
  BY <1>1, <1>2, <1>4, <1>5, BegunIs
<1>7. PICK r : r = StartHop(s, k, ask.method, ask.len)
  OBVIOUS
<1>8. s \in State /\ i = s.c.request
  BY <1>6
<1>9. /\ r \in State /\ r.c.connector = k /\ r.c.socket = s.c.socket
  BY <1>4, <1>7, <1>8, StartsHop
<1>10. HopOn(r.h[i], s.h[i]) /\ \A j \in Ids : j # i => r.h[j] = s.h[j]
  BY <1>4, <1>7, <1>8, StartsHop
<1>11. Dialled(r.w[k], s.w[k]) /\ \A l \in Links : l # k => r.w[l] = s.w[l]
  BY <1>4, <1>7, <1>8, StartsHop
<1>12. /\ s.h[i].phase = "pending" /\ s.h[i].ask = ask /\ s.h[i].resp = None /\ s.h[i].hops = 0
       /\ s.h[i].result = None /\ s.h[i].told = 0
  BY <1>6 DEF Beginning, NoHandle
<1>13. Now' = r
  BY <1>3, <1>5, <1>7, <1>9, BecomesIs
<1>14. handles' = r.h
  BY <1>13 DEF Now
<1>15. \A j \in Ids : handles[j].phase # "pending" /\ HandleOK(handles[j])
  BY <1>1, NowIs DEF ClientOK, ClientInv
<1>16. handles[i] = NoHandle
  BY <1>1, <1>2, <1>15 DEF HandleOK
<1>17. Asks1(i, handles, handles')
  BY <1>4, <1>6, <1>10, <1>12, <1>14, <1>15, <1>16 DEF Asks1, HopOn
<1>18. WireKept(Now, r)
  <2>1. SUFFICES ASSUME Opened(Now), FreshLinks(wire), ClosedLinks(wire)
                 PROVE  Opened(r) /\ FreshLinks(r.w) /\ ClosedLinks(r.w) /\ Ends(Now, r)
    BY NowIs DEF WireKept, Wired
  <2>2. client = [Idle(client.policy) EXCEPT !.calls = client.calls]
    BY <1>1, NowIs DEF ClientOK, ClientInv
  <2>3. client.connector = None /\ client.socket = None
    BY <2>2 DEF Idle
  <2>4. \A l \in Links : wire[l].c \notin {"dialling", "up"}
    BY <2>1, <2>3, NowIs, NoneNoLink DEF Opened
  <2>5. FreshLinks(r.w) /\ ClosedLinks(r.w) /\ \A l \in Links : r.w[l].s = wire[l].s
    BY <1>1, <1>2, <1>6, <1>11, <2>1, DialFresh
  <2>6. Opened(r)
    BY <1>6, <1>9, <1>11, <2>4, NoneNoLink DEF Opened, Dialled
  <2>7. QED
    BY <2>5, <2>6, NowIs DEF Ends
<1>19. QED
  BY <1>13, <1>17, <1>18

LEMMA ClientEffect ==
  ASSUME ClientOK, ClientHandle \/ ClientApp
  PROVE  /\ WireKept(Now, Now')
         /\ \/ \E i \in Ids : Progress(i, handles, handles') \/ Asks1(i, handles, handles')
            \/ handles' = handles
<1>1. CASE Ids = {}
  <2>1. client.state = "idle"
    BY <1>1, BusyNow DEF Core
  <2>2. CallbackReturns
    BY <1>1, <2>1, NextIdIn
       DEF ClientHandle, ClientApp, Timeout, ConnectorReady, ConnectorFails, ClientSend,
           ReceivePiece, ReceiveEnd, ReceiveFails, CanReceive, Handles, Ask, Room, Cancel
  <2>3. Now.c.parser = None /\ Now.c.connector = None /\ Now.c.socket = None
    BY <2>1, NowIs DEF ClientOK, ClientInv, Idle
  <2>4. Now' = Popped /\ Popped \in State
    BY <2>2, <2>3, NowIs, PoppedIs, BecomesIs DEF CallbackReturns, Popped
  <2>5. Now'.w = wire /\ Now'.h = handles /\ Now'.c.connector = client.connector
        /\ Now'.c.socket = client.socket
    BY <2>2, <2>4, NowIs, PoppedIs DEF CallbackReturns, ClientRec
  <2>6. WireKept(Now, Now')
    BY <2>5, NowIs, WireSame
  <2>7. QED
    BY <2>5, <2>6 DEF Now
<1>2. CASE ClientHandle
  <2>1. Effect(Now, Now')
    BY <1>2, FailsEffect, ConnectorFailsEffect, ConnectorReadyEffect, SendEffect,
       ReceivePieceEffect, ReceiveEndEffect
       DEF ClientHandle, Timeout, ReceiveFails, CanReceive, Handles
  <2>2. QED
    BY <2>1 DEF Effect, Now
<1>3. CASE ClientApp /\ Ids # {}
  <2>1. Ask \/ Effect(Now, Now')
    BY <1>3, FailsEffect, ReadEffect, ReturnEffect DEF ClientApp, Cancel
  <2>2. QED
    BY <2>1, AskEffect DEF Effect, Now
<1>4. QED
  BY <1>1, <1>2, <1>3
=============================================================================

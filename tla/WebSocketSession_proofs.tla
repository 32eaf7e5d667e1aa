----------------------- MODULE WebSocketSession_proofs -----------------------
(***************************************************************************)
(* Invariants of the WebSocket sessions for any clients, connections and   *)
(* pairing of them, any limits, and whatever a foreign peer sends.         *)
(***************************************************************************)
EXTENDS WebSocketSession, SequenceTheorems, FiniteSetTheorems, WellFoundedInduction,
        TLAPS

-----------------------------------------------------------------------------
(* Sequences of frames.                                                     *)

Has(q, op) == \E i \in 1..Len(q) : q[i].op = op

(* A CLOSE is there once at most, and no message of the user behind it.     *)
Ordered(q) ==
  \A i, j \in 1..Len(q) : q[i].op = "close" /\ q[j].op \in {"close", "data"} => j <= i

(* The number of CLOSE frames of an ordered queue.                          *)
LEMMA ClosesOrdered ==
  ASSUME NEW q \in Seq(Frame), Ordered(q)
  PROVE  Closes(q) = IF Has(q, "close") THEN 1 ELSE 0
<1> DEFINE C == {i \in DOMAIN q : q[i].op = "close"}
<1>1. C = {i \in 1..Len(q) : q[i].op = "close"}
  BY LenProperties
<1>2. CASE ~Has(q, "close")
  <2>1. C = {}
    BY <1>1, <1>2 DEF Has
  <2> QED BY <1>2, <2>1, FS_EmptySet DEF Closes
<1>3. CASE Has(q, "close")
  <2>1. PICK i \in 1..Len(q) : q[i].op = "close"
    BY <1>3 DEF Has
  <2>2. \A j \in C : j = i
    BY <1>1, <2>1, LenProperties DEF Ordered
  <2>3. C = {i}
    BY <1>1, <2>1, <2>2
  <2> QED BY <1>3, <2>3, FS_Singleton DEF Closes
<1> QED BY <1>2, <1>3

(* There is a number of them in any queue.                                  *)
LEMMA ClosesCounted ==
  ASSUME NEW q \in Seq(Frame)
  PROVE  Closes(q) \in Nat
<1>1. DOMAIN q = 1..Len(q) /\ Len(q) \in Nat
  BY LenProperties
<1>2. IsFiniteSet(1..Len(q))
  BY <1>1, FS_Interval
<1>3. {i \in DOMAIN q : q[i].op = "close"} \subseteq 1..Len(q)
  BY <1>1
<1>4. IsFiniteSet({i \in DOMAIN q : q[i].op = "close"})
  BY <1>2, <1>3, FS_Subset
<1> QED BY <1>4, FS_CardinalityType DEF Closes

(* What leaves a queue and what stays of it.                                *)
LEMMA CutQueue ==
  ASSUME NEW q \in Seq(Frame), NEW i \in 0..Len(q)
  PROVE  LET sent == SubSeq(q, 1, i)
             rest == SubSeq(q, i + 1, Len(q))
         IN  /\ sent \in Seq(Frame) /\ Len(sent) = i
             /\ \A j \in 1..Len(sent) : sent[j] = q[j]
             /\ rest \in Seq(Frame) /\ Len(rest) = Len(q) - i
             /\ \A j \in 1..Len(rest) : rest[j] = q[i + j]
<1> DEFINE n == Len(q)
<1>1. n \in Nat /\ \A j \in 1..n : q[j] \in Frame
  BY LenProperties, ElementOfSeq
<1> HIDE DEF n
<1>2. i \in 0..n /\ i \in Int /\ i + 1 \in Int /\ n \in Int /\ 1 \in Int
  BY <1>1 DEF n
<1>3. (\A j \in 1..i : q[j] \in Frame) /\ (\A j \in (i + 1)..n : q[j] \in Frame)
  BY <1>1, <1>2
<1> DEFINE sent == SubSeq(q, 1, i)
           rest == SubSeq(q, i + 1, n)
<1>4. /\ sent \in Seq(Frame) /\ Len(sent) = (IF 1 <= i THEN i - 1 + 1 ELSE 0)
      /\ \A j \in 1..(i - 1 + 1) : sent[j] = q[1 + j - 1]
  BY <1>2, <1>3, SubSeqProperties
<1>5. /\ rest \in Seq(Frame)
      /\ Len(rest) = (IF i + 1 <= n THEN n - (i + 1) + 1 ELSE 0)
      /\ \A j \in 1..(n - (i + 1) + 1) : rest[j] = q[i + 1 + j - 1]
  BY <1>2, <1>3, SubSeqProperties
<1> HIDE DEF sent, rest
<1>6. Len(sent) = i /\ Len(rest) = n - i
  BY <1>2, <1>4, <1>5
<1>7. \A j \in 1..Len(sent) : sent[j] = q[j]
  BY <1>2, <1>4, <1>6
<1>8. \A j \in 1..Len(rest) : rest[j] = q[i + j]
  BY <1>2, <1>5, <1>6
<1> QED BY <1>4, <1>5, <1>6, <1>7, <1>8 DEF n, sent, rest

(* Cutting an ordered queue: once the CLOSE has left nothing of the user    *)
(* is left.                                                                 *)
LEMMA CutOrdered ==
  ASSUME NEW q \in Seq(Frame), NEW i \in 0..Len(q), Ordered(q)
  PROVE  LET sent == SubSeq(q, 1, i)
             rest == SubSeq(q, i + 1, Len(q))
         IN  /\ Ordered(rest)
             /\ Closes(sent) = IF Has(sent, "close") THEN 1 ELSE 0
             /\ Has(q, "close") <=> Has(sent, "close") \/ Has(rest, "close")
             /\ Has(sent, "close") => ~Has(rest, "close") /\ ~Has(rest, "data")
             /\ Has(rest, "data") => Has(q, "data")
<1> DEFINE sent == SubSeq(q, 1, i)
           rest == SubSeq(q, i + 1, Len(q))
           n == Len(q)
<1>1. n \in Nat
  BY LenProperties
<1>2. /\ sent \in Seq(Frame) /\ Len(sent) = i
      /\ \A j \in 1..Len(sent) : sent[j] = q[j]
      /\ rest \in Seq(Frame) /\ Len(rest) = n - i
      /\ \A j \in 1..Len(rest) : rest[j] = q[i + j]
  BY CutQueue
<1>3. \A a, b \in 1..n : q[a].op = "close" /\ q[b].op \in {"close", "data"} => b <= a
  BY DEF Ordered
<1>4. i \in 0..n
  OBVIOUS
<1>5. Has(q, "close") <=> \E a \in 1..n : q[a].op = "close"
  BY DEF Has
<1>6. Has(q, "data") <=> \E a \in 1..n : q[a].op = "data"
  BY DEF Has
<1> HIDE DEF sent, rest, n
<1>14. \A a \in 1..Len(rest) : i + a \in (i + 1)..n /\ rest[a] = q[i + a]
  BY <1>1, <1>2, <1>4
<1>15. \A a \in 1..Len(sent) : a \in 1..i /\ a \in 1..n /\ sent[a] = q[a]
  BY <1>1, <1>2, <1>4
<1>7. Ordered(rest)
  <2>1. SUFFICES ASSUME NEW a \in 1..Len(rest), NEW b \in 1..Len(rest),
                        rest[a].op = "close", rest[b].op \in {"close", "data"}
                 PROVE  b <= a
    BY DEF Ordered
  <2>2. i + a \in 1..n /\ i + b \in 1..n /\ q[i + a] = rest[a] /\ q[i + b] = rest[b]
    BY <1>1, <1>4, <1>14
  <2>3. i + b <= i + a
    BY <1>3, <2>1, <2>2
  <2> QED BY <1>2, <1>4, <2>3
<1>8. Ordered(sent)
  BY <1>3, <1>15 DEF Ordered
<1>9. Closes(sent) = IF Has(sent, "close") THEN 1 ELSE 0
  BY <1>2, <1>8, ClosesOrdered
<1>10. Has(sent, "close") => ~Has(rest, "close") /\ ~Has(rest, "data")
  <2>1. SUFFICES ASSUME NEW a \in 1..Len(sent), sent[a].op = "close",
                        NEW b \in 1..Len(rest), rest[b].op \in {"close", "data"}
                 PROVE  FALSE
    BY DEF Has
  <2>2. i + b \in 1..n /\ i + b > i /\ q[i + b] = rest[b]
    BY <1>1, <1>4, <1>14
  <2>3. a \in 1..n /\ a <= i /\ q[a] = sent[a]
    BY <1>1, <1>4, <1>15
  <2>4. i + b <= a
    BY <1>3, <2>1, <2>2, <2>3
  <2> QED BY <1>2, <1>4, <2>2, <2>3, <2>4
<1>11. Has(q, "close") => Has(sent, "close") \/ Has(rest, "close")
  <2>1. SUFFICES ASSUME NEW a \in 1..n, q[a].op = "close"
                 PROVE  Has(sent, "close") \/ Has(rest, "close")
    BY <1>5
  <2>2. CASE a <= i
    BY <1>1, <1>2, <1>4, <2>1, <2>2 DEF Has
  <2>3. CASE a > i
    <3>1. a - i \in 1..Len(rest) /\ rest[a - i] = q[i + (a - i)] /\ i + (a - i) = a
      BY <1>1, <1>2, <1>4, <2>3
    <3> QED BY <2>1, <3>1 DEF Has
  <2> QED BY <1>1, <1>4, <2>2, <2>3
<1>12. Has(sent, "close") \/ Has(rest, "close") => Has(q, "close")
  <2>1. \A a \in 1..Len(rest) : i + a \in 1..n /\ rest[a] = q[i + a]
    BY <1>1, <1>4, <1>14
  <2>2. Has(rest, "close") => Has(q, "close")
    BY <1>5, <2>1 DEF Has
  <2>3. Has(sent, "close") => Has(q, "close")
    BY <1>5, <1>15 DEF Has
  <2> QED BY <2>2, <2>3
<1>13. Has(rest, "data") => Has(q, "data")
  <2>1. \A a \in 1..Len(rest) : i + a \in 1..n /\ rest[a] = q[i + a]
    BY <1>1, <1>4, <1>14
  <2> QED BY <1>6, <2>1 DEF Has
<1> QED BY <1>7, <1>9, <1>10, <1>11, <1>12, <1>13 DEF sent, rest, n

(* Appending a frame.                                                       *)
LEMMA AppendFrame ==
  ASSUME NEW q \in Seq(Frame), NEW f \in Frame
  PROVE  /\ Append(q, f) \in Seq(Frame) /\ Len(Append(q, f)) = Len(q) + 1
         /\ \A op : Has(Append(q, f), op) <=> Has(q, op) \/ f.op = op
         /\ Ordered(q) /\ (f.op \in {"close", "data"} => ~Has(q, "close")) =>
              Ordered(Append(q, f))
<1> DEFINE n == Len(q)
           longer == Append(q, f)
<1>1. n \in Nat
  BY LenProperties
<1>2. /\ longer \in Seq(Frame) /\ Len(longer) = n + 1
      /\ \A j \in 1..n : longer[j] = q[j]
      /\ longer[n + 1] = f
  BY AppendProperties
<1>3. \A op : Has(q, op) <=> \E a \in 1..n : q[a].op = op
  BY DEF Has
<1>4. Ordered(q) <=>
        \A a, b \in 1..n : q[a].op = "close" /\ q[b].op \in {"close", "data"} => b <= a
  BY DEF Ordered
<1> HIDE DEF n, longer
<1>5. \A op : Has(longer, op) <=> Has(q, op) \/ f.op = op
  <2>1. 1..(n + 1) = (1..n) \cup {n + 1}
    BY <1>1
  <2>2. TAKE op
  <2>3. Has(longer, op) <=> \E a \in (1..n) \cup {n + 1} : longer[a].op = op
    BY <1>2, <2>1 DEF Has
  <2>4. (\E a \in (1..n) \cup {n + 1} : longer[a].op = op) <=>
          (\E a \in 1..n : longer[a].op = op) \/ longer[n + 1].op = op
    OBVIOUS
  <2>5. (\E a \in 1..n : longer[a].op = op) <=> Has(q, op)
    BY <1>2, <1>3
  <2> QED BY <1>2, <2>3, <2>4, <2>5
<1>6. ASSUME Ordered(q), f.op \in {"close", "data"} => ~Has(q, "close")
      PROVE  Ordered(longer)
  <2>1. SUFFICES ASSUME NEW a \in 1..(n + 1), NEW b \in 1..(n + 1),
                        longer[a].op = "close", longer[b].op \in {"close", "data"}
                 PROVE  b <= a
    BY <1>2 DEF Ordered
  <2>2. a = n + 1 => b <= a
    BY <1>1
  <2>3. a \in 1..n /\ b \in 1..n => b <= a
    BY <1>1, <1>2, <1>4, <1>6, <2>1
  <2>4. ~(a \in 1..n /\ b = n + 1)
    BY <1>2, <1>3, <1>6, <2>1
  <2> QED BY <1>1, <2>2, <2>3, <2>4
<1> QED BY <1>2, <1>5, <1>6 DEF n, longer

-----------------------------------------------------------------------------
(* What every session keeps true of itself, n CLOSE frames having left it.  *)

(* The deadlines of DeadlinesMatch; a connection never pings by itself.     *)
Timed(s, r) ==
  /\ r.state = "connecting" /\ r.phase # None => "handshake" \in r.armed
  /\ r.state = "closing" <=> "close" \in r.armed
  /\ r.state = "closed" => r.armed = {}
  /\ r.state = "open" => "handshake" \notin r.armed
  /\ s \in Conns => "auto" \notin r.armed

(* A closed session has let go of its transport; one without a transport    *)
(* has not begun.                                                           *)
Linked(s, r) ==
  /\ r.state = "closed" => r.link \in {"none", "closed"}
  /\ s \in Conns /\ r.link = "none" => r.state = "connecting" /\ r.phase = None
  /\ s \in Clients /\ r.state = "connecting" /\ r.phase \in {None, "awaiting"} =>
       r.link = "none"

(* Callbacks run in a pass, and return to it.                               *)
Placed(r) ==
  /\ r.pc # "idle" => r.state # "connecting"
  /\ r.pc \in {"callback", "opened"} => r.back \in {"feed", "read"}

(* The queue: a slot is left for CLOSE until it is queued.                  *)
Queued(r, n) ==
  LET q == Pending(r) IN
  /\ Len(r.tx) <= HardCap
  /\ r.state \in {"connecting", "open"} =>
       Len(r.tx) < HardCap /\ n = 0 /\ ~Has(q, "close")
  /\ r.state = "closing" => n = 1 \/ Has(q, "close")
  /\ n \in {0, 1}
  /\ n = 1 => ~Has(q, "close") /\ ~Has(q, "data")
  /\ Ordered(q)

(* A client that was not told to connect has done nothing, though it may    *)
(* have been closed.                                                        *)
Fresh(s, r, n) ==
  s \in Clients /\ ~r.called =>
    /\ r.state \in {"connecting", "closed"} /\ r.phase = None /\ r.link = "none"
    /\ r.armed = {} /\ r.pc = "idle" /\ r.tx = <<>> /\ r.part = None /\ n = 0

Sound(s, r, n) ==
  r \in Session /\ Timed(s, r) /\ Linked(s, r) /\ Placed(r) /\ Queued(r, n) /\ Fresh(s, r, n)

(* on_close is told of an end, and of nothing else.                         *)
Told(r) ==
  /\ r.state = "closed" => r.told \/ r.refused
  /\ r.told => r.state = "closed"

(* A session in a pass has been told to connect, or has a transport.        *)
Busy(s, r) == /\ s \in Clients => r.called
              /\ s \in Conns => r.link # "none"

(* What no step inside a pass does: reopen a session, or find it a          *)
(* transport.                                                               *)
Follows(r, t) ==
  /\ r.state = "closed" => t.state = "closed"
  /\ t.link = "none" <=> r.link = "none"
  /\ t.shut = r.shut /\ t.called = r.called

Keeps(s, r, n, t) ==
  Sound(s, t, n) /\ Follows(r, t) /\ Busy(s, t) /\ (Told(r) => Told(t))

(* Steps inside a pass compose.                                             *)
LEMMA KeepsComposes ==
  ASSUME NEW s, NEW n, NEW r, NEW t, NEW u, Keeps(s, r, n, t), Keeps(s, t, n, u)
  PROVE  Keeps(s, r, n, u)
BY DEF Keeps, Follows

LEMMA KeepsItself ==
  ASSUME NEW s, NEW n, NEW r, Sound(s, r, n), Busy(s, r)
  PROVE  Keeps(s, r, n, r)
BY DEF Keeps, Follows

(* The queue of a session is a sequence of frames.                          *)
LEMMA PendingType ==
  ASSUME NEW r \in Session
  PROVE  /\ Pending(r) \in Seq(Frame)
         /\ Len(r.tx) \in Nat /\ Len(Pending(r)) \in Nat
         /\ Len(Pending(r)) <= Len(r.tx) + 1
<1>1. r.tx \in Seq(Frame) /\ (r.part # None => r.part \in Frame)
  BY DEF Session
<1> DEFINE first == IF r.part = None THEN <<>> ELSE <<r.part>>
<1>2. first \in Seq(Frame) /\ Len(first) = IF r.part = None THEN 0 ELSE 1
  BY <1>1
<1> HIDE DEF first
<1>3. first \o r.tx \in Seq(Frame) /\ Len(first \o r.tx) = Len(first) + Len(r.tx)
  BY <1>1, <1>2, ConcatProperties
<1>4. Pending(r) = first \o r.tx
  BY DEF Pending, first
<1>5. Pending(r) \in Seq(Frame) /\ Len(Pending(r)) = Len(first) + Len(r.tx)
  BY <1>3, <1>4
<1>6. Len(r.tx) \in Nat
  BY <1>1, LenProperties
<1> QED
  <2>1. CASE r.part = None
    BY <1>2, <1>5, <1>6, <2>1
  <2>2. CASE r.part # None
    BY <1>2, <1>5, <1>6, <2>2
  <2> QED BY <2>1, <2>2

(* A frame put into the queue is behind all that is pending.                *)
LEMMA PendingAppend ==
  ASSUME NEW r \in Session, NEW f \in Frame, NEW t,
         t.tx = Append(r.tx, f), t.part = r.part
  PROVE  Pending(t) = Append(Pending(r), f)
<1>1. r.tx \in Seq(Frame) /\ (r.part # None => r.part \in Frame)
  BY DEF Session
<1> DEFINE first == IF r.part = None THEN <<>> ELSE <<r.part>>
<1>2. first \in Seq(Frame) /\ <<f>> \in Seq(Frame)
  BY <1>1
<1>3. Pending(r) = first \o r.tx /\ Pending(t) = first \o Append(r.tx, f)
  BY DEF Pending
<1>4. Append(r.tx, f) = r.tx \o <<f>>
  BY <1>1, AppendIsConcat
<1> DEFINE last == <<f>>
<1> HIDE DEF first, last
<1>7. first \o (r.tx \o last) = (first \o r.tx) \o last
  <2>1. last \in Seq(Frame)
    BY <1>2 DEF last
  <2>2. \A a, b, c \in Seq(Frame) : (a \o b) \o c = a \o (b \o c)
    BY SMTT(30), ConcatAssociative
  <2> QED BY ZenonT(60), <1>1, <1>2, <2>1, <2>2
<1>5. first \o (r.tx \o <<f>>) = (first \o r.tx) \o <<f>>
  BY <1>7 DEF last
<1>6. Append(Pending(r), f) = Pending(r) \o <<f>>
  BY PendingType, AppendIsConcat
<1> QED BY <1>3, <1>4, <1>5, <1>6

(* A queue that is not touched stays sound, whatever ends the session.      *)
LEMMA QueuedKept ==
  ASSUME NEW r, NEW t, NEW n, Queued(r, n), t.tx = r.tx, t.part = r.part,
         t.state \in {r.state, "closed"}
  PROVE  Queued(t, n)
<1>1. Pending(t) = Pending(r)
  BY DEF Pending
<1> QED BY <1>1 DEF Queued

(* The frames the library makes are frames.                                 *)
LEMMA FramesMade ==
  /\ \A n \in Nat : \A op \in {"data", "ping", "pong", "request", "accept", "refusal"} :
       Plain(op, n) \in Frame /\ Plain(op, n).op = op
  /\ \A code \in Codes \cup {None, "normal", "protocol", "baddata", "toobig", "malformed"} :
       CloseFrame(ClosePayload(code)) \in Frame /\ CloseFrame(ClosePayload(code)).op = "close"
<1>1. \A n \in Nat : \A op \in {"data", "ping", "pong", "request", "accept", "refusal"} :
       Plain(op, n) \in Frame /\ Plain(op, n).op = op
  BY DEF Plain, Frame
<1>2. ASSUME NEW code \in Codes \cup {None, "normal", "protocol", "baddata", "toobig",
                                       "malformed"}
      PROVE  CloseFrame(code) \in Frame /\ CloseFrame(code).op = "close"
  BY DEF CloseFrame, Plain, Frame
<1>3. \A code : ClosePayload(code) \in {None, code}
  BY DEF ClosePayload
<1> QED BY <1>1, <1>2, <1>3

-----------------------------------------------------------------------------
(* The steps inside a pass.                                                 *)

(* The end of a session, reported to on_close.                              *)
Finalized(s, r) == OnClose(OnFinalized(s, DropTransport(r)))

LEMMA FinalizedFields ==
  ASSUME NEW s \in Sessions, NEW r \in Session
  PROVE  LET t == Finalized(s, r) IN
         /\ t \in Session /\ t.state = "closed" /\ t.told
         /\ t.tx = r.tx /\ t.part = r.part /\ t.pc = r.pc /\ t.back = r.back
         /\ t.shut = r.shut /\ t.called = r.called /\ t.code = r.code
         /\ t.link = IF r.link = "none" THEN "none" ELSE "closed"
         /\ t.armed \subseteq r.armed /\ t.armed \subseteq {"auto"}
         /\ s \in Clients => t.armed = {} /\ t.phase = None
         /\ s \notin Clients => t.phase = r.phase
<1> DEFINE d == DropTransport(r)
           o == OnFinalized(s, d)
           t == OnClose(o)
<1>7. /\ d.state = "closed" /\ d.told = r.told
      /\ d.tx = r.tx /\ d.part = r.part /\ d.pc = r.pc /\ d.back = r.back
      /\ d.shut = r.shut /\ d.called = r.called /\ d.code = r.code /\ d.phase = r.phase
      /\ d.link = IF r.link = "none" THEN "none" ELSE "closed"
      /\ d.armed = r.armed \ {"handshake", "close", "pong"}
  BY DEF DropTransport, Session
<1>1. d \in Session
  BY <1>7 DEF DropTransport, Session
<1>2. r.armed \subseteq {"handshake", "close", "pong", "auto"}
  BY DEF Session
<1> HIDE DEF d
<1>3. /\ o \in Session /\ o.state = "closed"
      /\ o.tx = r.tx /\ o.part = r.part /\ o.pc = r.pc /\ o.back = r.back
      /\ o.shut = r.shut /\ o.called = r.called /\ o.code = r.code
      /\ o.link = IF r.link = "none" THEN "none" ELSE "closed"
      /\ o.armed = d.armed \ (IF s \in Clients THEN {"handshake", "auto"} ELSE {"handshake"})
      /\ o.phase = IF s \in Clients THEN None ELSE r.phase
  <2>1. CASE s \in Clients
    BY ZenonT(60), <1>1, <1>7, <2>1 DEF OnFinalized, Session
  <2>2. CASE s \notin Clients
    BY <1>1, <1>7, <2>2 DEF OnFinalized, Session
  <2> QED BY <2>1, <2>2
<1> HIDE DEF o
<1>4. /\ t \in Session /\ t.state = "closed" /\ t.told
      /\ t.tx = r.tx /\ t.part = r.part /\ t.pc = r.pc /\ t.back = r.back
      /\ t.shut = r.shut /\ t.called = r.called /\ t.code = r.code
      /\ t.link = IF r.link = "none" THEN "none" ELSE "closed"
      /\ t.armed = o.armed /\ t.phase = o.phase
  BY <1>3 DEF OnClose, Session
<1>5. t = Finalized(s, r)
  BY DEF Finalized, t, o, d
<1> HIDE DEF t
<1>6. t.armed \subseteq r.armed /\ t.armed \subseteq {"auto"} /\ (s \in Clients => t.armed = {})
  BY <1>2, <1>3, <1>4, <1>7
<1> QED BY <1>3, <1>4, <1>5, <1>6

LEMMA FinalizedKeeps ==
  ASSUME NEW s \in Sessions, NEW r, NEW n, Sound(s, r, n), Busy(s, r)
  PROVE  Keeps(s, r, n, Finalized(s, r)) /\ Told(Finalized(s, r))
<1> DEFINE t == Finalized(s, r)
<1>1. r \in Session
  BY DEF Sound
<1>2. /\ t \in Session /\ t.state = "closed" /\ t.told
      /\ t.tx = r.tx /\ t.part = r.part /\ t.pc = r.pc /\ t.back = r.back
      /\ t.shut = r.shut /\ t.called = r.called /\ t.code = r.code
      /\ t.link = IF r.link = "none" THEN "none" ELSE "closed"
      /\ t.armed \subseteq r.armed /\ t.armed \subseteq {"auto"}
      /\ s \in Clients => t.armed = {} /\ t.phase = None
  BY <1>1, FinalizedFields
<1> HIDE DEF t
<1>3. Timed(s, t)
  <2>1. t.armed = {}
    BY <1>2 DEF Sound, Timed, Sessions
  <2> QED BY <1>2, <2>1 DEF Timed
<1>4. Linked(s, t)
  BY <1>2 DEF Linked, Busy
<1>5. Placed(t)
  BY <1>2 DEF Sound, Placed
<1>6. Queued(t, n)
  BY <1>2, QueuedKept DEF Sound
<1>7. Fresh(s, t, n) /\ Follows(r, t) /\ Busy(s, t)
  BY <1>2 DEF Fresh, Follows, Busy
<1>8. Told(t)
  BY <1>2 DEF Told
<1> QED BY <1>2, <1>3, <1>4, <1>5, <1>6, <1>7, <1>8 DEF Keeps, Sound, t

(* What the message, the callback and the parser of a session change        *)
(* disturbs nothing of this.                                                *)
LEMMA OtherFieldsKeep ==
  ASSUME NEW s \in Sessions, NEW r, NEW n, Sound(s, r, n), Busy(s, r),
         NEW t \in Session, Placed(t),
         t.state = r.state, t.phase = r.phase, t.called = r.called, t.link = r.link,
         t.tx = r.tx, t.part = r.part, t.code = r.code, t.told = r.told,
         t.refused = r.refused, t.shut = r.shut,
         t.armed = r.armed \/ t.armed = r.armed \ {"pong"}
  PROVE  Keeps(s, r, n, t)
<1>1. Timed(s, t)
  BY DEF Sound, Timed
<1>2. Linked(s, t)
  BY DEF Sound, Linked
<1>3. Queued(t, n)
  BY QueuedKept DEF Sound
<1>4. Fresh(s, t, n) /\ Follows(r, t) /\ Busy(s, t)
  BY DEF Fresh, Follows, Busy
<1>5. Told(r) => Told(t)
  BY DEF Told
<1> QED BY <1>1, <1>2, <1>3, <1>4, <1>5 DEF Keeps, Sound

(* _fail_with_error *)
LEMMA FailWithErrorKeeps ==
  ASSUME NEW s \in Sessions, NEW r, NEW n, Sound(s, r, n), Busy(s, r)
  PROVE  Keeps(s, r, n, FailWithError(s, r)) /\ Told(FailWithError(s, r))
         /\ FailWithError(s, r).pc = r.pc /\ FailWithError(s, r).back = r.back
         /\ FailWithError(s, r).state = "closed"
<1> DEFINE q == [r EXCEPT !.code = IF @ = None THEN "internal" ELSE @]
<1>0. r \in Session
  BY DEF Sound
<1>1. /\ q.state = r.state /\ q.phase = r.phase /\ q.called = r.called /\ q.link = r.link
      /\ q.tx = r.tx /\ q.part = r.part /\ q.told = r.told /\ q.refused = r.refused
      /\ q.shut = r.shut /\ q.armed = r.armed /\ q.pc = r.pc /\ q.back = r.back
      /\ r.code # None => q.code # None
  BY <1>0 DEF Session
<1>2. q \in Session
  <2> DEFINE c == IF r.code = None THEN "internal" ELSE r.code
  <2>1. c \in Codes \cup {None, "normal", "protocol", "baddata", "toobig", "malformed",
                          "internal"}
    BY <1>0 DEF Session
  <2>2. q = [r EXCEPT !.code = c]
    OBVIOUS
  <2> HIDE DEF c, q
  <2> QED BY <1>0, <2>1, <2>2 DEF Session
<1>3. FailWithError(s, r) = Finalized(s, q)
  BY DEF FailWithError, Finalized
<1> HIDE DEF q
<1>4. Timed(s, q) /\ Linked(s, q)
  BY <1>1 DEF Sound, Timed, Linked
<1>5. Placed(q) /\ Fresh(s, q, n) /\ Busy(s, q) /\ Follows(r, q)
  BY <1>1 DEF Sound, Placed, Fresh, Busy, Follows
<1>6. Queued(q, n)
  BY <1>1, QueuedKept DEF Sound
<1>7. Sound(s, q, n)
  BY <1>2, <1>4, <1>5, <1>6 DEF Sound
<1>8. Keeps(s, q, n, Finalized(s, q)) /\ Told(Finalized(s, q))
  BY <1>5, <1>7, FinalizedKeeps
<1>9. Finalized(s, q).pc = q.pc /\ Finalized(s, q).back = q.back
      /\ Finalized(s, q).state = "closed"
  BY <1>2, FinalizedFields
<1> QED BY <1>1, <1>3, <1>5, <1>8, <1>9 DEF Keeps, Follows

(* An internal frame that is not CLOSE, queued while there is room for it   *)
(* and for CLOSE.                                                           *)
LEMMA InternalKeeps ==
  ASSUME NEW s \in Sessions, NEW r, NEW n, Sound(s, r, n), Busy(s, r),
         NEW f \in Frame, f.op \notin {"close", "data"}
  PROVE  /\ Keeps(s, r, n, Internal(r, f))
         /\ Internal(r, f).pc = r.pc /\ Internal(r, f).state = r.state
         /\ Internal(r, f).armed = r.armed
<1>0. r \in Session /\ r.tx \in Seq(Frame) /\ Len(r.tx) \in Nat
  BY LenProperties DEF Sound, Session
<1>1. CASE Len(r.tx) >= InternalLimit(f.op)
  BY <1>1, KeepsItself DEF Internal
<1>2. CASE ~(Len(r.tx) >= InternalLimit(f.op))
  <2> DEFINE longer == Append(r.tx, f)
             t == [r EXCEPT !.tx = longer]
  <2>1. longer \in Seq(Frame) /\ Len(longer) = Len(r.tx) + 1
    BY <1>0, AppendProperties
  <2>2. Internal(r, f) = t
    BY <1>2 DEF Internal
  <2> HIDE DEF longer
  <2>3. /\ t.state = r.state /\ t.phase = r.phase /\ t.called = r.called /\ t.link = r.link
        /\ t.tx = longer /\ t.part = r.part /\ t.code = r.code /\ t.told = r.told
        /\ t.refused = r.refused /\ t.shut = r.shut /\ t.armed = r.armed
        /\ t.pc = r.pc /\ t.back = r.back
    BY <1>0 DEF Session
  <2>4. t \in Session
    BY <1>0, <2>1 DEF Session
  <2> HIDE DEF t
  <2>5. Pending(t) = Append(Pending(r), f)
    BY <1>0, <2>3, PendingAppend DEF longer
  <2>6. Len(longer) < HardCap
    <3>1. HardCap \in Nat
      BY SessionAssumption DEF HardCap
    <3> QED BY <1>0, <1>2, <2>1, <3>1 DEF InternalLimit
  <2>7. /\ \A op : Has(Pending(t), op) <=> Has(Pending(r), op) \/ f.op = op
        /\ Ordered(Pending(r)) => Ordered(Pending(t))
    <3> DEFINE q == Pending(r)
    <3>1. q \in Seq(Frame) /\ Pending(t) = Append(q, f)
      BY <1>0, <2>5, PendingType
    <3> HIDE DEF q
    <3>2. /\ \A op : Has(Append(q, f), op) <=> Has(q, op) \/ f.op = op
          /\ Ordered(q) => Ordered(Append(q, f))
      BY <3>1, AppendFrame
    <3> QED BY <3>1, <3>2 DEF q
  <2>8. Queued(t, n)
    <3>1. HardCap \in Nat /\ Len(longer) \in Nat
      BY <1>0, <2>1, SessionAssumption DEF HardCap
    <3>2. \A op \in {"close", "data"} : Has(Pending(t), op) <=> Has(Pending(r), op)
      BY <2>7
    <3>3. Len(t.tx) <= HardCap /\ Len(t.tx) < HardCap /\ t.state = r.state
      BY <2>3, <2>6, <3>1
    <3> QED BY <2>7, <3>2, <3>3 DEF Sound, Queued
  <2>9. Timed(s, t) /\ Linked(s, t) /\ Placed(t)
    BY <2>3 DEF Sound, Timed, Linked, Placed
  <2>10. Fresh(s, t, n) /\ Busy(s, t) /\ Follows(r, t) /\ (Told(r) => Told(t))
    BY <2>3 DEF Fresh, Busy, Follows, Told
  <2> QED BY <2>2, <2>3, <2>4, <2>8, <2>9, <2>10 DEF Keeps, Sound
<1> QED BY <1>1, <1>2

(* _send_close: there is a slot for CLOSE as long as none is queued.        *)
CloseCodes == Codes \cup {None, "normal", "protocol", "baddata", "toobig", "malformed"}

LEMMA SendCloseKeeps ==
  ASSUME NEW s \in Sessions, NEW r, NEW n, Sound(s, r, n), Busy(s, r),
         NEW code \in CloseCodes, s \in Clients => r.state # "connecting"
  PROVE  /\ Keeps(s, r, n, SendClose(r, code))
         /\ SendClose(r, code).pc = r.pc /\ SendClose(r, code).back = r.back
         /\ r.state # "closed" => SendClose(r, code).state = "closing"
<1>0. /\ r \in Session /\ r.tx \in Seq(Frame) /\ Len(r.tx) \in Nat
      /\ r.state \in {"connecting", "open", "closing", "closed"}
  BY LenProperties DEF Sound, Session
<1>1. CASE r.state \in {"closing", "closed"}
  BY <1>1, KeepsItself DEF SendClose
<1>2. CASE r.state \notin {"closing", "closed"}
  <2> DEFINE f == CloseFrame(ClosePayload(code))
             longer == Append(r.tx, f)
             t == SendClose(r, code)
  <2>1. f \in Frame /\ f.op = "close"
    BY FramesMade DEF CloseCodes
  <2> HIDE DEF f
  <2>2. longer \in Seq(Frame) /\ Len(longer) = Len(r.tx) + 1
    BY <1>0, <2>1, AppendProperties
  <2>3. HardCap \in Nat /\ Len(r.tx) < HardCap /\ n = 0 /\ ~Has(Pending(r), "close")
    BY <1>0, <1>2, SessionAssumption DEF HardCap, Sound, Queued
  <2>4. Internal(r, f) = [r EXCEPT !.tx = longer]
    BY <1>0, <2>1, <2>3 DEF Internal, InternalLimit
  <2> HIDE DEF longer
  <2>5. t = [[r EXCEPT !.tx = longer] EXCEPT !.code = IF @ = None THEN code ELSE @,
                                             !.state = "closing",
                                             !.armed = @ \cup {"close"}]
    BY <1>2, <2>4 DEF SendClose, f
  <2>6. /\ t.state = "closing" /\ t.phase = r.phase /\ t.called = r.called
        /\ t.link = r.link /\ t.tx = longer /\ t.part = r.part
        /\ t.code = (IF r.code = None THEN code ELSE r.code)
        /\ t.told = r.told /\ t.refused = r.refused /\ t.shut = r.shut
        /\ t.armed = r.armed \cup {"close"} /\ t.pc = r.pc /\ t.back = r.back
    BY <1>0, <2>5 DEF Session
  <2>7. t \in Session
    <3> DEFINE c == IF r.code = None THEN code ELSE r.code
               a == r.armed \cup {"close"}
    <3>1. /\ c \in CloseCodes \cup {"internal"}
          /\ a \in SUBSET {"handshake", "close", "pong", "auto"}
      BY <1>0 DEF Session, CloseCodes
    <3>2. t = [r EXCEPT !.tx = longer, !.code = c, !.state = "closing", !.armed = a]
      BY <1>0, <2>5 DEF Session
    <3> HIDE DEF c, a, t
    <3> QED BY ZenonT(60), <1>0, <2>2, <3>1, <3>2 DEF Session, CloseCodes
  <2> HIDE DEF t
  <2>8. Pending(t) = Append(Pending(r), f)
    BY <1>0, <2>1, <2>6, PendingAppend DEF longer
  <2>9. /\ \A op : Has(Pending(t), op) <=> Has(Pending(r), op) \/ f.op = op
        /\ Ordered(Pending(r)) => Ordered(Pending(t))
    <3> DEFINE q == Pending(r)
    <3>1. q \in Seq(Frame) /\ Pending(t) = Append(q, f) /\ ~Has(q, "close")
      BY <1>0, <2>3, <2>8, PendingType
    <3> HIDE DEF q
    <3>2. /\ \A op : Has(Append(q, f), op) <=> Has(q, op) \/ f.op = op
          /\ Ordered(q) => Ordered(Append(q, f))
      BY <2>1, <3>1, AppendFrame
    <3> QED BY <3>1, <3>2 DEF q
  <2>10. Queued(t, n)
    BY <1>0, <2>1, <2>2, <2>3, <2>6, <2>9 DEF Sound, Queued
  <2>11. Timed(s, t)
    BY <2>6 DEF Sound, Timed
  <2>12. Linked(s, t) /\ Placed(t)
    BY <1>2, <2>6 DEF Sound, Linked, Placed, Busy
  <2>13. Fresh(s, t, n) /\ Busy(s, t) /\ Follows(r, t)
    BY <1>2, <2>6 DEF Fresh, Busy, Follows
  <2>14. Told(r) => Told(t)
    BY <1>2, <2>6 DEF Told
  <2> QED BY <1>2, <2>6, <2>7, <2>10, <2>11, <2>12, <2>13, <2>14 DEF Keeps, Sound, t
<1> QED BY <1>1, <1>2

-----------------------------------------------------------------------------
(* What the frames of the peer do to a session in a pass.                   *)

(* The pass stays where it was, or a callback interrupts it.                *)
LEMMA CallbackKeeps ==
  ASSUME NEW s \in Sessions, NEW r, NEW n, Sound(s, r, n), Busy(s, r),
         r.pc \in {"read", "feed"}
  PROVE  Keeps(s, r, n, Callback(r, "callback"))
<1> DEFINE t == Callback(r, "callback")
<1>0. r \in Session /\ r.state # "connecting"
  BY DEF Sound, Placed
<1>1. /\ t.state = r.state /\ t.phase = r.phase /\ t.called = r.called /\ t.link = r.link
      /\ t.tx = r.tx /\ t.part = r.part /\ t.code = r.code /\ t.told = r.told
      /\ t.refused = r.refused /\ t.shut = r.shut /\ t.armed = r.armed
      /\ t.pc = "callback" /\ t.back = r.pc
  BY <1>0 DEF Callback, Session
<1>2. t \in Session
  BY <1>0 DEF Callback, Session
<1> HIDE DEF t
<1>3. Placed(t)
  BY <1>0, <1>1 DEF Placed
<1> QED BY <1>1, <1>2, <1>3, OtherFieldsKeep DEF t

(* The message being put together.                                          *)
Messages == [open : BOOLEAN, fill : 0..MaxMessage, big : BOOLEAN, utf8 : BOOLEAN,
             empty : 0..MaxEmptyRun + 1]

LEMMA MessageType ==
  ASSUME NEW m \in Messages, NEW f \in Frame
  PROVE  /\ NoMessage \in Messages
         /\ Started(m, f) \in Messages
         /\ Extended(m, f) \in Messages
<1>0. MaxMessage \in Nat /\ MaxEmptyRun \in Nat
  BY SessionAssumption
<1>1. NoMessage \in Messages
  BY <1>0 DEF NoMessage, Messages
<1>2. Started(m, f) \in Messages
  <2> DEFINE e == IF f.len > 0 THEN 0 ELSE IF f.fin THEN m.empty
                  ELSE Least(m.empty + 1, MaxEmptyRun + 1)
             u == m.utf8 /\ f.utf8
  <2>1. e \in 0..MaxEmptyRun + 1 /\ u \in BOOLEAN
    BY <1>0 DEF Messages, Frame, Least
  <2>2. Started(m, f) = [m EXCEPT !.open = TRUE, !.utf8 = u, !.empty = e]
    BY DEF Started
  <2> HIDE DEF e, u
  <2> QED BY <2>1, <2>2 DEF Messages
<1>3. Extended(m, f) \in Messages
  <2>1. [m EXCEPT !.big = TRUE] \in Messages
    BY DEF Messages
  <2>2. CASE m.fill + f.len > MaxMessage
    BY <2>1, <2>2 DEF Extended
  <2>3. CASE ~(m.fill + f.len > MaxMessage)
    <3> DEFINE c == m.fill + f.len
    <3>1. c \in 0..MaxMessage
      BY <1>0, <2>3 DEF Messages, Frame
    <3> HIDE DEF c
    <3>2. [m EXCEPT !.fill = c] \in Messages
      BY <3>1 DEF Messages
    <3> QED BY <2>1, <2>3, <3>2 DEF Extended, c
  <2> QED BY <2>2, <2>3
<1> QED BY <1>1, <1>2, <1>3

LEMMA MessageKeeps ==
  ASSUME NEW s \in Sessions, NEW r, NEW n, Sound(s, r, n), Busy(s, r),
         NEW m \in Messages
  PROVE  /\ Keeps(s, r, n, [r EXCEPT !.msg = m])
         /\ [r EXCEPT !.msg = m].pc = r.pc /\ [r EXCEPT !.msg = m].state = r.state
<1> DEFINE t == [r EXCEPT !.msg = m]
<1>0. r \in Session /\ Placed(r)
  BY DEF Sound
<1>1. /\ t.state = r.state /\ t.phase = r.phase /\ t.called = r.called /\ t.link = r.link
      /\ t.tx = r.tx /\ t.part = r.part /\ t.code = r.code /\ t.told = r.told
      /\ t.refused = r.refused /\ t.shut = r.shut /\ t.armed = r.armed
      /\ t.pc = r.pc /\ t.back = r.back
  BY <1>0 DEF Session
<1>2. t \in Session
  BY <1>0 DEF Session, Messages
<1> HIDE DEF t
<1>3. Placed(t)
  BY <1>0, <1>1 DEF Placed
<1> QED BY <1>1, <1>2, <1>3, OtherFieldsKeep DEF t

(* _deliver_message and _finish_oversized_message                           *)
LEMMA DeliverKeeps ==
  ASSUME NEW s \in Sessions, NEW r, NEW n, Sound(s, r, n), Busy(s, r),
         r.pc \in {"read", "feed"}, NEW utf8 \in BOOLEAN, NEW k \in Nat
  PROVE  Keeps(s, r, n, Deliver(r, utf8, k))
<1>0. r \in Session /\ Placed(r) /\ r.state # "connecting"
  BY DEF Sound, Placed
<1>1. CASE ~utf8
  BY <1>0, <1>1, SendCloseKeeps DEF Deliver, CloseCodes
<1>2. CASE utf8
  <2> DEFINE g == IF k = 0 THEN r.got ELSE Append(r.got, k)
             t == [r EXCEPT !.got = g]
  <2>1. g \in Seq(Nat)
    BY <1>0, AppendProperties DEF Session
  <2>2. Deliver(r, utf8, k) = Callback(t, "callback")
    BY <1>2 DEF Deliver
  <2> HIDE DEF g
  <2>3. /\ t.state = r.state /\ t.phase = r.phase /\ t.called = r.called
        /\ t.link = r.link /\ t.tx = r.tx /\ t.part = r.part /\ t.code = r.code
        /\ t.told = r.told /\ t.refused = r.refused /\ t.shut = r.shut
        /\ t.armed = r.armed /\ t.pc = r.pc /\ t.back = r.back
    BY <1>0 DEF Session
  <2>4. t \in Session
    BY <1>0, <2>1 DEF Session
  <2> HIDE DEF t
  <2>5. Placed(t)
    BY <1>0, <2>3 DEF Placed
  <2>6. Keeps(s, r, n, t)
    BY <2>3, <2>4, <2>5, OtherFieldsKeep
  <2>7. Keeps(s, t, n, Callback(t, "callback"))
    BY <2>3, <2>6, CallbackKeeps DEF Keeps
  <2> QED BY <2>2, <2>6, <2>7, KeepsComposes
<1> QED BY <1>1, <1>2

LEMMA FinishOversizedKeeps ==
  ASSUME NEW s \in Sessions, NEW r, NEW n, Sound(s, r, n), Busy(s, r),
         r.pc \in {"read", "feed"}
  PROVE  Keeps(s, r, n, FinishOversized(r))
<1>0. r.state # "connecting"
  BY DEF Sound, Placed
<1>1. CASE Policy = "drop_silent"
  BY <1>1, KeepsItself DEF FinishOversized
<1>2. CASE Policy = "drop_with_event"
  BY <1>2, CallbackKeeps DEF FinishOversized
<1>3. CASE Policy = "disconnect"
  BY <1>0, <1>3, SendCloseKeeps DEF FinishOversized, CloseCodes
<1> QED BY <1>1, <1>2, <1>3, SessionAssumption

(* _handle_data_frame *)
LEMMA HandleDataKeeps ==
  ASSUME NEW s \in Sessions, NEW r, NEW n, Sound(s, r, n), Busy(s, r),
         r.pc \in {"read", "feed"}, NEW f \in Frame
  PROVE  Keeps(s, r, n, HandleData(r, f))
<1> DEFINE m    == Started(r.msg, f)
           e    == Extended(m, f)
           done == [r EXCEPT !.msg = NoMessage]
           kept == [r EXCEPT !.msg = m]
           more == [r EXCEPT !.msg = e]
<1>0. r \in Session /\ r.state # "connecting" /\ r.msg \in Messages
  BY DEF Sound, Placed, Session, Messages
<1>1. m \in Messages /\ NoMessage \in Messages
  BY <1>0, MessageType
<1>2. e \in Messages
  BY <1>1, MessageType
<1>3. f.utf8 \in BOOLEAN /\ e.utf8 \in BOOLEAN /\ f.n \in Nat
  BY <1>2 DEF Frame, Messages
<1>4. Keeps(s, r, n, done) /\ done.pc = r.pc
  BY <1>1, MessageKeeps
<1>5. Keeps(s, r, n, kept) /\ kept.state = r.state
  BY <1>1, MessageKeeps
<1>6. Keeps(s, r, n, more)
  BY <1>2, MessageKeeps
<1>7. \/ HandleData(r, f) = SendClose(r, "protocol")
      \/ HandleData(r, f) = SendClose(kept, "protocol")
      \/ HandleData(r, f) = Deliver(done, f.utf8, f.n)
      \/ HandleData(r, f) = more
      \/ HandleData(r, f) = FinishOversized(done)
      \/ HandleData(r, f) = Deliver(done, e.utf8, f.n)
  BY DEF HandleData
<1> HIDE DEF m, e, done, kept, more
<1>8. Keeps(s, r, n, SendClose(r, "protocol"))
  BY <1>0, SendCloseKeeps DEF CloseCodes
<1>9. Keeps(s, r, n, SendClose(kept, "protocol"))
  <2>1. Keeps(s, kept, n, SendClose(kept, "protocol"))
    BY <1>0, <1>5, SendCloseKeeps DEF CloseCodes, Keeps
  <2> QED BY <1>5, <2>1, KeepsComposes
<1>10. \A u \in BOOLEAN : Keeps(s, r, n, Deliver(done, u, f.n))
  <2>1. \A u \in BOOLEAN : Keeps(s, done, n, Deliver(done, u, f.n))
    BY <1>3, <1>4, DeliverKeeps DEF Keeps
  <2> QED BY <1>4, <2>1, KeepsComposes
<1>11. Keeps(s, r, n, FinishOversized(done))
  <2>1. Keeps(s, done, n, FinishOversized(done))
    BY <1>4, FinishOversizedKeeps DEF Keeps
  <2> QED BY <1>4, <2>1, KeepsComposes
<1> QED BY <1>3, <1>6, <1>7, <1>8, <1>9, <1>10, <1>11

LEMMA HandlePingKeeps ==
  ASSUME NEW s \in Sessions, NEW r, NEW n, Sound(s, r, n), Busy(s, r),
         r.pc \in {"read", "feed"}, NEW f \in Frame
  PROVE  Keeps(s, r, n, HandlePing(r, f))
<1> DEFINE t == Internal(r, Plain("pong", 0))
<1>1. Keeps(s, r, n, t) /\ t.pc = r.pc
  BY FramesMade, InternalKeeps
<1>2. HandlePing(r, f) = Callback(t, "callback")
  BY DEF HandlePing
<1> HIDE DEF t
<1>3. Keeps(s, t, n, Callback(t, "callback"))
  BY <1>1, CallbackKeeps DEF Keeps
<1> QED BY <1>1, <1>2, <1>3, KeepsComposes

LEMMA HandlePongKeeps ==
  ASSUME NEW s \in Sessions, NEW r, NEW n, Sound(s, r, n), Busy(s, r),
         r.pc \in {"read", "feed"}
  PROVE  Keeps(s, r, n, HandlePong(r))
<1> DEFINE t == [r EXCEPT !.armed = @ \ {"pong"}]
<1>0. r \in Session /\ Placed(r)
  BY DEF Sound
<1>1. /\ t.state = r.state /\ t.phase = r.phase /\ t.called = r.called /\ t.link = r.link
      /\ t.tx = r.tx /\ t.part = r.part /\ t.code = r.code /\ t.told = r.told
      /\ t.refused = r.refused /\ t.shut = r.shut /\ t.armed = r.armed \ {"pong"}
      /\ t.pc = r.pc /\ t.back = r.back
  BY <1>0 DEF Session
<1>2. t \in Session
  BY <1>0 DEF Session
<1>3. HandlePong(r) = Callback(t, "callback")
  BY DEF HandlePong
<1> HIDE DEF t
<1>4. Placed(t)
  BY <1>0, <1>1 DEF Placed
<1>5. Keeps(s, r, n, t)
  BY <1>1, <1>2, <1>4, OtherFieldsKeep
<1>6. Keeps(s, t, n, Callback(t, "callback"))
  BY <1>1, <1>5, CallbackKeeps DEF Keeps
<1> QED BY <1>3, <1>5, <1>6, KeepsComposes

-----------------------------------------------------------------------------
(* Outcomes: what a step leaves of a session, and hands to its transport.   *)
Fine(s, r, o) ==
  /\ o.out \in Seq(Frame)
  /\ Keeps(s, r, r.shut + Closes(o.out), o.r)

LEMMA NoCloses == Closes(<<>>) = 0
<1>1. {i \in DOMAIN <<>> : <<>>[i].op = "close"} = {}
  OBVIOUS
<1> QED BY <1>1, FS_EmptySet DEF Closes

LEMMA OnlyFine ==
  ASSUME NEW s \in Sessions, NEW r \in Session, NEW t, Keeps(s, r, r.shut, t)
  PROVE  Fine(s, r, Out(t, <<>>))
<1>1. r.shut + 0 = r.shut
  BY DEF Session
<1> QED BY <1>1, NoCloses DEF Fine, Out

(* A part of the queue has left.                                            *)
LEMMA CutKeeps ==
  ASSUME NEW s \in Sessions, NEW r, Sound(s, r, r.shut), Busy(s, r),
         NEW i \in 0..Len(Pending(r)), NEW t \in Session,
         Pending(t) = SubSeq(Pending(r), i + 1, Len(Pending(r))),
         Len(t.tx) <= Len(r.tx),
         t.state = r.state, t.phase = r.phase, t.called = r.called, t.link = r.link,
         t.code = r.code, t.told = r.told, t.refused = r.refused, t.shut = r.shut,
         t.armed = r.armed, t.pc = r.pc, t.back = r.back, s \in Clients => t.called
  PROVE  Fine(s, r, Out(t, SubSeq(Pending(r), 1, i)))
<1> DEFINE q == Pending(r)
           sent == SubSeq(q, 1, i)
           rest == SubSeq(q, i + 1, Len(q))
           n == r.shut + Closes(sent)
<1>1. r \in Session /\ q \in Seq(Frame)
  BY PendingType DEF Sound
<1>2. /\ sent \in Seq(Frame) /\ Ordered(rest)
      /\ Closes(sent) = IF Has(sent, "close") THEN 1 ELSE 0
      /\ Has(q, "close") <=> Has(sent, "close") \/ Has(rest, "close")
      /\ Has(sent, "close") => ~Has(rest, "close") /\ ~Has(rest, "data")
      /\ Has(rest, "data") => Has(q, "data")
  <2>1. Ordered(q)
    BY DEF Sound, Queued
  <2> HIDE DEF q
  <2>2. i \in 0..Len(q)
    BY DEF q
  <2> QED BY <1>1, <2>1, <2>2, CutQueue, CutOrdered
<1>3. Pending(t) = rest
  OBVIOUS
<1>4. /\ Len(r.tx) <= HardCap
      /\ r.state \in {"connecting", "open"} =>
           Len(r.tx) < HardCap /\ r.shut = 0 /\ ~Has(q, "close")
      /\ r.state = "closing" => r.shut = 1 \/ Has(q, "close")
      /\ r.shut \in {0, 1}
      /\ r.shut = 1 => ~Has(q, "close") /\ ~Has(q, "data")
  BY DEF Sound, Queued
<1>5. Len(r.tx) \in Nat /\ Len(t.tx) \in Nat /\ HardCap \in Nat
  BY <1>1, SessionAssumption, LenProperties DEF Session, HardCap
<1> HIDE DEF q, sent, rest
<1>6. n \in {0, 1} /\ (n = 1 => ~Has(rest, "close") /\ ~Has(rest, "data"))
  BY <1>2, <1>4
<1>7. r.state \in {"connecting", "open"} =>
        Len(t.tx) < HardCap /\ n = 0 /\ ~Has(rest, "close")
  BY <1>2, <1>4, <1>5
<1>8. r.state = "closing" => n = 1 \/ Has(rest, "close")
  BY <1>2, <1>4
<1>9. Len(t.tx) <= HardCap
  BY <1>4, <1>5
<1> HIDE DEF n
<1>10. Queued(t, n)
  BY <1>2, <1>3, <1>6, <1>7, <1>8, <1>9 DEF Queued
<1>11. Timed(s, t) /\ Linked(s, t) /\ Placed(t)
  BY DEF Sound, Timed, Linked, Placed
<1>12. Fresh(s, t, n) /\ Busy(s, t) /\ Follows(r, t) /\ (Told(r) => Told(t))
  BY DEF Fresh, Busy, Follows, Told
<1>13. Keeps(s, r, n, t)
  BY <1>10, <1>11, <1>12 DEF Keeps, Sound
<1> QED BY <1>2, <1>13 DEF Fine, Out, n, sent, q

(* _drain_tx_queue: whole frames leave, or the next one is half sent.       *)
LEMMA WithoutFine ==
  ASSUME NEW s \in Sessions, NEW r, Sound(s, r, r.shut), Busy(s, r),
         NEW i \in 1..Len(Pending(r))
  PROVE  /\ Fine(s, r, Out(Without(r, i), SubSeq(Pending(r), 1, i)))
         /\ Without(r, i).state = r.state /\ Without(r, i).pc = r.pc
         /\ Without(r, i).back = r.back
<1> DEFINE q == Pending(r)
           rest == SubSeq(q, i + 1, Len(q))
           t == Without(r, i)
<1>1. /\ r \in Session /\ q \in Seq(Frame)
      /\ Len(r.tx) \in Nat /\ Len(q) \in Nat /\ Len(q) <= Len(r.tx) + 1
  BY PendingType DEF Sound
<1>2. rest \in Seq(Frame) /\ Len(rest) = Len(q) - i
  <2> HIDE DEF q
  <2>1. i \in 0..Len(q)
    BY DEF q
  <2> QED BY <1>1, <2>1, CutQueue
<1>3. t = [r EXCEPT !.part = None, !.tx = rest]
  BY DEF Without
<1>4. i \in 1..Len(q)
  OBVIOUS
<1> HIDE DEF rest, q
<1>5. /\ t.state = r.state /\ t.phase = r.phase /\ t.called = r.called /\ t.link = r.link
      /\ t.code = r.code /\ t.told = r.told /\ t.refused = r.refused /\ t.shut = r.shut
      /\ t.armed = r.armed /\ t.pc = r.pc /\ t.back = r.back
      /\ t.part = None /\ t.tx = rest
  BY <1>1, <1>3 DEF Session
<1>6. t \in Session
  BY ZenonT(60), <1>1, <1>2, <1>3 DEF Session
<1> HIDE DEF t
<1>7. Pending(t) = rest
  <2>1. Pending(t) = <<>> \o rest
    BY <1>5 DEF Pending
  <2> QED BY <1>2, <2>1, ConcatEmptySeq
<1>8. Len(t.tx) <= Len(r.tx)
  <2>1. PICK l \in Nat, m \in Nat : l = Len(q) /\ m = Len(r.tx)
    BY <1>1
  <2>2. l - i <= m
    BY <1>1, <1>4, <2>1
  <2> QED BY <1>2, <1>5, <2>1, <2>2
<1>9. i \in 0..Len(q)
  BY <1>4
<1>10. s \in Clients => t.called
  BY <1>5 DEF Busy
<1> QED BY <1>5, <1>6, <1>7, <1>8, <1>9, <1>10, CutKeeps DEF q, rest, t

LEMMA HalfSentFine ==
  ASSUME NEW s \in Sessions, NEW r, Sound(s, r, r.shut), Busy(s, r),
         NEW i \in 0..(Len(Pending(r)) - 1)
  PROVE  /\ Fine(s, r, Out(HalfSent(r, i), SubSeq(Pending(r), 1, i)))
         /\ HalfSent(r, i).state = r.state /\ HalfSent(r, i).pc = r.pc
         /\ HalfSent(r, i).back = r.back
<1> DEFINE q == Pending(r)
           next == q[i + 1]
           rest == SubSeq(q, i + 1 + 1, Len(q))
           t == HalfSent(r, i)
<1>1. /\ r \in Session /\ q \in Seq(Frame)
      /\ Len(r.tx) \in Nat /\ Len(q) \in Nat /\ Len(q) <= Len(r.tx) + 1
  BY PendingType DEF Sound
<1>2. i \in 0..(Len(q) - 1) /\ Len(q) \in Nat
  BY <1>1
<1>3. t = [[r EXCEPT !.part = None, !.tx = rest] EXCEPT !.part = next]
  BY DEF HalfSent, Without
<1> HIDE DEF q
<1>4. i + 1 \in 0..Len(q) /\ i + 1 \in 1..Len(q)
  BY <1>2
<1>5. rest \in Seq(Frame) /\ Len(rest) = Len(q) - (i + 1) /\ next \in Frame
  BY <1>1, <1>4, CutQueue, ElementOfSeq
<1>6. <<next>> \o rest = SubSeq(q, i + 1, Len(q))
  <2>1. Len(q) \in (i + 1)..Len(q)
    BY <1>2
  <2>2. SubSeq(q, i + 1, Len(q)) = <<q[i + 1]>> \o SubSeq(q, (i + 1) + 1, Len(q))
    BY <1>1, <1>4, <2>1, SubSeqRecursiveFirst
  <2> QED BY <2>2
<1> HIDE DEF rest, next
<1>7. /\ t.state = r.state /\ t.phase = r.phase /\ t.called = r.called /\ t.link = r.link
      /\ t.code = r.code /\ t.told = r.told /\ t.refused = r.refused /\ t.shut = r.shut
      /\ t.armed = r.armed /\ t.pc = r.pc /\ t.back = r.back
      /\ t.part = next /\ t.tx = rest
  BY <1>1, <1>3 DEF Session
<1>8. t \in Session
  <2>1. t = [r EXCEPT !.part = next, !.tx = rest]
    BY <1>1, <1>3 DEF Session
  <2> HIDE DEF t
  <2> QED BY <1>1, <1>5, <2>1 DEF Session
<1> HIDE DEF t
<1>9. Pending(t) = <<next>> \o rest
  <2>1. next # None
    BY <1>5, SessionAssumption
  <2> QED BY <1>7, <2>1 DEF Pending
<1>10. Len(t.tx) <= Len(r.tx)
  <2>1. PICK l \in Nat, m \in Nat : l = Len(q) /\ m = Len(r.tx)
    BY <1>1
  <2>2. l - (i + 1) <= m
    BY <1>1, <1>2, <2>1
  <2> QED BY <1>5, <1>7, <2>1, <2>2
<1>11. i \in 0..Len(q)
  BY <1>2
<1>12. s \in Clients => t.called
  BY <1>7 DEF Busy
<1>13. Pending(t) = SubSeq(q, i + 1, Len(q))
  BY <1>6, <1>9
<1> QED BY <1>7, <1>8, <1>10, <1>11, <1>12, <1>13, CutKeeps DEF q, t

(* _drain_tx_queue may also fail, and end the session.                      *)
LEMMA DrainedFine ==
  ASSUME NEW s \in Sessions, NEW r, Sound(s, r, r.shut), Busy(s, r), Room(s) \in Int,
         NEW o \in Drained(s, r)
  PROVE  /\ Fine(s, r, o)
         /\ o.r.pc = r.pc /\ o.r.back = r.back /\ o.r.state \in {r.state, "closed"}
<1> DEFINE todo == Pending(r)
           most == IF r.link \in {"up", "eof", "dead"} THEN Least(Len(todo), Room(s)) ELSE 0
           Sent(i) == SubSeq(todo, 1, i)
<1>1. r \in Session /\ todo \in Seq(Frame) /\ Len(todo) \in Nat
  BY PendingType DEF Sound
<1>2. CASE todo = <<>>
  <2>1. o = Out(r, <<>>)
    BY <1>2 DEF Drained, Only
  <2>2. o.r = r
    BY <2>1 DEF Out
  <2> QED BY <1>1, <2>1, <2>2, KeepsItself, OnlyFine
<1>3. CASE todo # <<>>
  <2>1. Len(todo) \in Nat \ {0}
    BY <1>1, <1>3, EmptySeq
  <2>2. most \in Int /\ most <= Len(todo)
    BY <1>1 DEF Least
  <2>3. 1..most \subseteq 1..Len(todo)
    BY <1>1, <2>2
  <2>4. 0..Least(most, Len(todo) - 1) \subseteq 0..(Len(todo) - 1)
    BY <2>1, <2>2 DEF Least
  <2>5. \/ \E i \in 1..most : o = Out(Without(r, i), Sent(i))
        \/ \E i \in 0..Least(most, Len(todo) - 1) : o = Out(HalfSent(r, i), Sent(i))
        \/ \E i \in 0..Least(most, Len(todo) - 1) :
             o = Out(FailWithError(s, HalfSent(r, i)), Sent(i))
    <3>1. Drained(s, r) =
            {Out(Without(r, i), Sent(i)) : i \in 1..most}
            \cup (IF r.link \in {"up", "eof", "dead"}
                  THEN {Out(HalfSent(r, i), Sent(i)) : i \in 0..Least(most, Len(todo) - 1)}
                  ELSE {})
            \cup (IF r.link \in {"eof", "reset", "closed"}
                  THEN {Out(FailWithError(s, HalfSent(r, i)), Sent(i)) :
                          i \in 0..Least(most, Len(todo) - 1)}
                  ELSE {})
      BY <1>3 DEF Drained
    <3> HIDE DEF most, todo, Sent
    <3> QED BY <3>1
  <2>6. \/ \E i \in 1..Len(todo) : o = Out(Without(r, i), Sent(i))
        \/ \E i \in 0..(Len(todo) - 1) : o = Out(HalfSent(r, i), Sent(i))
        \/ \E i \in 0..(Len(todo) - 1) :
             o = Out(FailWithError(s, HalfSent(r, i)), Sent(i))
    <3> HIDE DEF most, todo, Sent
    <3> QED BY <2>3, <2>4, <2>5
  <2>7. ASSUME NEW i \in 1..Len(todo), o = Out(Without(r, i), Sent(i))
        PROVE  /\ Fine(s, r, o)
               /\ o.r.pc = r.pc /\ o.r.back = r.back /\ o.r.state = r.state
    <3>1. o.r = Without(r, i)
      BY <2>7 DEF Out
    <3> QED BY <2>7, <3>1, WithoutFine
  <2>8. ASSUME NEW i \in 0..(Len(todo) - 1), o = Out(HalfSent(r, i), Sent(i))
        PROVE  /\ Fine(s, r, o)
               /\ o.r.pc = r.pc /\ o.r.back = r.back /\ o.r.state = r.state
    <3>1. o.r = HalfSent(r, i)
      BY <2>8 DEF Out
    <3> QED BY <2>8, <3>1, HalfSentFine
  <2>9. ASSUME NEW i \in 0..(Len(todo) - 1),
               o = Out(FailWithError(s, HalfSent(r, i)), Sent(i))
        PROVE  /\ Fine(s, r, o)
               /\ o.r.pc = r.pc /\ o.r.back = r.back /\ o.r.state = "closed"
    <3> DEFINE h == HalfSent(r, i)
               b == Out(h, Sent(i))
               n == r.shut + Closes(Sent(i))
    <3>1. Fine(s, r, b) /\ h.pc = r.pc /\ h.back = r.back
      BY HalfSentFine
    <3> HIDE DEF h
    <3>2. Keeps(s, r, n, h) /\ Sent(i) \in Seq(Frame)
      BY <3>1 DEF Fine, Out
    <3>3. o.r = FailWithError(s, h) /\ o.out = Sent(i)
      BY <2>9 DEF Out, h
    <3> HIDE DEF b, Sent, n
    <3>4. Keeps(s, h, n, FailWithError(s, h)) /\ FailWithError(s, h).pc = h.pc
          /\ FailWithError(s, h).back = h.back /\ FailWithError(s, h).state = "closed"
      BY <3>2, FailWithErrorKeeps DEF Keeps
    <3>5. Keeps(s, r, n, FailWithError(s, h))
      BY <3>2, <3>4, KeepsComposes
    <3> QED BY <3>1, <3>2, <3>3, <3>4, <3>5 DEF Fine, n
  <2> HIDE DEF todo, Sent
  <2> QED BY <2>6, <2>7, <2>8, <2>9
<1> QED BY <1>2, <1>3

(* _finalize_closed *)
LEMMA FinalizeClosedFine ==
  ASSUME NEW s \in Sessions, NEW r, Sound(s, r, r.shut), Busy(s, r), Room(s) \in Int,
         NEW o \in FinalizeClosed(s, r)
  PROVE  /\ Fine(s, r, o) /\ Told(o.r)
         /\ o.r.pc = r.pc /\ o.r.back = r.back /\ o.r.state = "closed"
<1>1. PICK d \in Drained(s, r) : o = Out(Finalized(s, d.r), d.out)
  BY DEF FinalizeClosed, Finalized
<1>2. Fine(s, r, d) /\ d.r.pc = r.pc /\ d.r.back = r.back
  BY DrainedFine
<1>3. PICK t, n, out : t = d.r /\ out = d.out /\ n = r.shut + Closes(d.out)
  OBVIOUS
<1>4. Keeps(s, r, n, t) /\ out \in Seq(Frame) /\ t.pc = r.pc /\ t.back = r.back
  BY <1>2, <1>3 DEF Fine
<1>5. o.r = Finalized(s, t) /\ o.out = out
  BY <1>1, <1>3 DEF Out
<1>6. Keeps(s, t, n, Finalized(s, t)) /\ Told(Finalized(s, t))
  BY <1>4, FinalizedKeeps DEF Keeps
<1>7. Keeps(s, r, n, Finalized(s, t))
  BY <1>4, <1>6, KeepsComposes
<1>8. Finalized(s, t).pc = t.pc /\ Finalized(s, t).back = t.back
      /\ Finalized(s, t).state = "closed"
  BY <1>4, FinalizedFields DEF Keeps, Sound
<1> QED BY <1>3, <1>4, <1>5, <1>6, <1>7, <1>8 DEF Fine

(* _handle_close_frame: the code the peer closed with replaces the one a    *)
(* client was closed with before it connected.                              *)
LEMMA HandleCloseFine ==
  ASSUME NEW s \in Sessions, NEW r, Sound(s, r, r.shut), Busy(s, r), Room(s) \in Int,
         r.pc \in {"read", "feed"}, NEW f \in Frame, NEW o \in HandleClose(s, r, f)
  PROVE  Fine(s, r, o) /\ (Told(r) => Told(o.r))
<1>0. /\ r \in Session /\ r.state # "connecting" /\ Placed(r)
      /\ f.code \in CloseCodes
  BY DEF Sound, Placed, Frame, CloseCodes
<1>1. CASE Malformed(f)
  <2>1. Keeps(s, r, r.shut, SendClose(r, "protocol"))
    BY <1>0, SendCloseKeeps DEF CloseCodes
  <2>2. o = Out(SendClose(r, "protocol"), <<>>)
    BY <1>1 DEF HandleClose, Only
  <2>3. o.r = SendClose(r, "protocol")
    BY <2>2 DEF Out
  <2> QED BY <1>0, <2>1, <2>2, <2>3, OnlyFine DEF Keeps
<1>2. ASSUME NEW c \in CloseCodes \cup {"internal"}
      PROVE  LET t == [r EXCEPT !.code = c] IN
             /\ Sound(s, t, r.shut) /\ Busy(s, t) /\ Follows(r, t)
             /\ t.pc = r.pc /\ t.state = r.state /\ t.code = c
  <2> DEFINE t == [r EXCEPT !.code = c]
  <2>1. /\ t.state = r.state /\ t.phase = r.phase /\ t.called = r.called
        /\ t.link = r.link /\ t.tx = r.tx /\ t.part = r.part /\ t.code = c
        /\ t.told = r.told /\ t.refused = r.refused /\ t.shut = r.shut
        /\ t.armed = r.armed /\ t.pc = r.pc /\ t.back = r.back
    BY <1>0 DEF Session
  <2>2. t \in Session
    BY <1>0 DEF Session, CloseCodes
  <2> HIDE DEF t
  <2>3. Timed(s, t) /\ Linked(s, t) /\ Placed(t)
    BY <2>1 DEF Sound, Timed, Linked, Placed
  <2>4. Queued(t, r.shut)
    BY <2>1, QueuedKept DEF Sound
  <2>5. Fresh(s, t, r.shut) /\ Busy(s, t) /\ Follows(r, t)
    BY <2>1 DEF Fresh, Busy, Follows
  <2> QED BY <2>1, <2>2, <2>3, <2>4, <2>5 DEF Sound, t
<1>3. ASSUME NEW t, Sound(s, t, r.shut), Busy(s, t), Follows(r, t), NEW e \in FinalizeClosed(s, t)
      PROVE  Fine(s, r, e) /\ Told(e.r)
  <2>1. t.shut = r.shut
    BY <1>3 DEF Follows
  <2>2. Fine(s, t, e) /\ Told(e.r)
    BY <1>3, <2>1, FinalizeClosedFine
  <2> QED BY <1>3, <2>1, <2>2 DEF Fine, Keeps, Follows
<1>4. CASE ~Malformed(f) /\ r.state = "closing"
  <2>1. PICK c : c = IF r.code = None THEN f.code ELSE r.code
    OBVIOUS
  <2>2. c \in CloseCodes \cup {"internal"}
    BY <1>0, <2>1 DEF Session, CloseCodes
  <2>3. o \in FinalizeClosed(s, [r EXCEPT !.code = c])
    BY <1>4, <2>1 DEF HandleClose
  <2>4. PICK t : t = [r EXCEPT !.code = c]
    OBVIOUS
  <2>5. Sound(s, t, r.shut) /\ Busy(s, t) /\ Follows(r, t)
    BY <1>2, <2>2, <2>4
  <2> QED BY <1>3, <2>3, <2>4, <2>5
<1>5. CASE ~Malformed(f) /\ r.state # "closing"
  <2>1. PICK c, d : c = f.code /\ d = IF f.code = None THEN "normal" ELSE f.code
    OBVIOUS
  <2>2. PICK t : t = [r EXCEPT !.code = c]
    OBVIOUS
  <2>3. c \in CloseCodes /\ d \in CloseCodes
    BY <1>0, <2>1 DEF CloseCodes
  <2>4. o \in FinalizeClosed(s, SendClose(t, d))
    BY <1>5, <2>1, <2>2 DEF HandleClose
  <2>5. Sound(s, t, r.shut) /\ Busy(s, t) /\ Follows(r, t) /\ t.state = r.state
    BY <1>2, <2>2, <2>3
  <2>6. Keeps(s, t, r.shut, SendClose(t, d))
    BY <1>0, <2>3, <2>5, SendCloseKeeps
  <2>7. Follows(r, SendClose(t, d))
    BY <2>5, <2>6 DEF Keeps, Follows
  <2> QED BY <1>3, <2>4, <2>6, <2>7 DEF Keeps
<1> QED BY <1>1, <1>4, <1>5

(* _dispatch_frame *)
LEMMA DispatchFine ==
  ASSUME NEW s \in Sessions, NEW r, Sound(s, r, r.shut), Busy(s, r), Room(s) \in Int,
         r.pc \in {"read", "feed"}, NEW f \in Frame, NEW o \in Dispatch(s, r, f)
  PROVE  Fine(s, r, o)
<1>0. r \in Session /\ r.state # "connecting"
  BY DEF Sound, Placed
<1>1. Keeps(s, r, r.shut, SendClose(r, "protocol"))
  BY <1>0, SendCloseKeeps DEF CloseCodes
<1>2. Keeps(s, r, r.shut, [SendClose(r, "protocol") EXCEPT !.garbled = TRUE])
  <2>1. PICK c : c = SendClose(r, "protocol")
    OBVIOUS
  <2> DEFINE t == [c EXCEPT !.garbled = TRUE]
  <2>2. c \in Session /\ Placed(c) /\ Sound(s, c, r.shut) /\ Busy(s, c)
    BY <1>1, <2>1 DEF Keeps, Sound
  <2>3. /\ t.state = c.state /\ t.phase = c.phase /\ t.called = c.called
        /\ t.link = c.link /\ t.tx = c.tx /\ t.part = c.part /\ t.code = c.code
        /\ t.told = c.told /\ t.refused = c.refused /\ t.shut = c.shut
        /\ t.armed = c.armed /\ t.pc = c.pc /\ t.back = c.back
    BY <2>2 DEF Session
  <2>4. t \in Session
    BY <2>2 DEF Session
  <2> HIDE DEF t
  <2>5. Placed(t)
    BY <2>2, <2>3 DEF Placed
  <2>6. Keeps(s, c, r.shut, t)
    BY <2>2, <2>3, <2>4, <2>5, OtherFieldsKeep
  <2> QED BY <1>1, <2>1, <2>6, KeepsComposes DEF t
<1>3. Keeps(s, r, r.shut, r) /\ Keeps(s, r, r.shut, HandlePing(r, f))
      /\ Keeps(s, r, r.shut, HandlePong(r)) /\ Keeps(s, r, r.shut, HandleData(r, f))
  BY KeepsItself, HandlePingKeeps, HandlePongKeeps, HandleDataKeeps
<1>4. \/ \E t : Keeps(s, r, r.shut, t) /\ o = Out(t, <<>>)
      \/ o \in HandleClose(s, r, f)
  <2>1. \/ o \in Only(r)
        \/ o \in Only([SendClose(r, "protocol") EXCEPT !.garbled = TRUE])
        \/ o \in Only(SendClose(r, "protocol"))
        \/ o \in HandleClose(s, r, f)
        \/ o \in Only(HandlePing(r, f))
        \/ o \in Only(HandlePong(r))
        \/ o \in Only(HandleData(r, f))
    BY DEF Dispatch
  <2>2. \A t : o \in Only(t) => o = Out(t, <<>>)
    BY DEF Only
  <2> QED BY <1>1, <1>2, <1>3, <2>1, <2>2
<1>5. ASSUME NEW t, Keeps(s, r, r.shut, t), o = Out(t, <<>>)
      PROVE  Fine(s, r, o)
  BY <1>0, <1>5, OnlyFine
<1> QED BY <1>4, <1>5, HandleCloseFine

-----------------------------------------------------------------------------
(* The server's table: every accepted connection is in it until its last    *)
(* pass is over, and none that the server has not accepted has begun.       *)
Table ==
  /\ server.conns \cap server.backlog = {}
  /\ IsFiniteSet(server.conns) /\ Cardinality(server.conns) <= MaxConnections
  /\ \A k \in Conns \cap Live :
       /\ ws[k].state # "closed" /\ (ws[k].state # "connecting" \/ ws[k].phase # None) =>
            k \in server.conns
       /\ k \in server.conns /\ ws[k].state = "closed" => ws[k].pc # "idle"
       /\ k \in server.conns \cup server.backlog => ws[k].link # "none"
       /\ k \in server.backlog => ws[k].state = "connecting"

(* A connection has no transport before its client has.                     *)
Dialled ==
  \A s \in Clients \cap Live :
    peer[s] # None /\ ws[s].link = "none" => ws[peer[s]].link = "none"

WellFormed ==
  /\ peer \in Worlds
  /\ ws \in [Live -> Session]
  /\ wire \in [Live -> Seq(Frame)]
  /\ server \in [state : {"unbound", "listening", "closed"},
                 conns : SUBSET (Conns \cap Live), backlog : SUBSET (Conns \cap Live)]

IInv ==
  /\ WellFormed
  /\ \A s \in Live : Sound(s, ws[s], ws[s].shut) /\ Told(ws[s])
  /\ Table
  /\ Dialled

(* The pairing of sessions in a world.                                      *)
LEMMA Pairs ==
  ASSUME WellFormed
  PROVE  /\ Live \subseteq Sessions
         /\ \A s \in Live : peer[s] # None =>
              /\ peer[s] \in Live /\ peer[peer[s]] = s /\ peer[s] # s
              /\ s \in Clients <=> peer[s] \in Conns
         /\ \A s \in Live : Room(s) \in Int
<1>1. /\ Live \subseteq Sessions
      /\ \A s \in Live : peer[s] # None =>
              /\ peer[s] \in Live /\ peer[peer[s]] = s /\ peer[s] # s
              /\ s \in Clients <=> peer[s] \in Conns
  BY SessionAssumption DEF WellFormed, Live, Sessions
<1>2. ASSUME NEW s \in Live PROVE Room(s) \in Int
  <2>1. CASE peer[s] = None
    BY <2>1, SessionAssumption DEF Room
  <2>2. CASE peer[s] # None
    <3>1. wire[peer[s]] \in Seq(Frame)
      BY <1>1, <2>2 DEF WellFormed
    <3> QED BY <2>2, <3>1, LenProperties, SessionAssumption DEF Room
  <2> QED BY <2>1, <2>2
<1> QED BY <1>1, <1>2

(* The other side of a session may lose its transport, and nothing else.    *)
Relinked(x, y) ==
  /\ y \in Session
  /\ y.state = x.state /\ y.phase = x.phase /\ y.called = x.called /\ y.pc = x.pc
  /\ y.back = x.back /\ y.tx = x.tx /\ y.part = x.part /\ y.armed = x.armed
  /\ y.code = x.code /\ y.told = x.told /\ y.refused = x.refused /\ y.shut = x.shut
  /\ \/ y.link = x.link
     \/ /\ x.link # "none" /\ x.state # "closed"
        /\ y.link \in {"eof", "reset", "dead", "closed"}

LEMMA RelinkedSound ==
  ASSUME NEW s, NEW x, NEW y, Relinked(x, y), Sound(s, x, x.shut), Told(x)
  PROVE  Sound(s, y, y.shut) /\ Told(y)
<1>1. Timed(s, y) /\ Placed(y) /\ Told(y)
  BY DEF Relinked, Sound, Timed, Placed, Told
<1>2. Linked(s, y)
  BY DEF Relinked, Sound, Linked
<1>3. Fresh(s, y, y.shut)
  BY DEF Relinked, Sound, Fresh
<1>4. Queued(y, x.shut) /\ y.shut = x.shut
  BY QueuedKept DEF Relinked, Sound
<1> QED BY <1>1, <1>2, <1>3, <1>4 DEF Sound, Relinked

LEMMA LinkChange ==
  ASSUME NEW x \in Session, x.link # "none", x.state # "closed",
         NEW l \in {"eof", "reset", "dead", "closed"}
  PROVE  Relinked(x, [x EXCEPT !.link = l])
<1> DEFINE y == [x EXCEPT !.link = l]
<1>1. y \in Session
  BY DEF Session
<1>2. /\ y.state = x.state /\ y.phase = x.phase /\ y.called = x.called /\ y.pc = x.pc
      /\ y.back = x.back /\ y.tx = x.tx /\ y.part = x.part /\ y.armed = x.armed
      /\ y.code = x.code /\ y.told = x.told /\ y.refused = x.refused /\ y.shut = x.shut
      /\ y.link = l
  BY DEF Session
<1> HIDE DEF y
<1> QED BY <1>1, <1>2 DEF Relinked, y

(* Counting the CLOSE frames sent, and forgetting a session that has ended. *)
LEMMA CountedSound ==
  ASSUME NEW s, NEW x \in Session, NEW n, Sound(s, x, n), Told(x)
  PROVE  LET c == [x EXCEPT !.shut = n] IN
         /\ c \in Session /\ Sound(s, c, c.shut) /\ Told(c)
         /\ c.state = x.state /\ c.link = x.link /\ c.phase = x.phase /\ c.pc = x.pc
<1> DEFINE c == [x EXCEPT !.shut = n]
<1>1. /\ c.state = x.state /\ c.phase = x.phase /\ c.called = x.called /\ c.pc = x.pc
      /\ c.back = x.back /\ c.tx = x.tx /\ c.part = x.part /\ c.armed = x.armed
      /\ c.code = x.code /\ c.told = x.told /\ c.refused = x.refused /\ c.shut = n
      /\ c.link = x.link
  BY DEF Session
<1>2. n \in Nat
  BY DEF Sound, Queued
<1>3. c \in Session
  BY <1>2 DEF Session
<1> HIDE DEF c
<1>4. Timed(s, c) /\ Placed(c) /\ Told(c)
  BY <1>1 DEF Sound, Timed, Placed, Told
<1>5. Linked(s, c) /\ Fresh(s, c, n)
  BY <1>1 DEF Sound, Linked, Fresh
<1>6. Queued(c, n)
  BY <1>1, QueuedKept DEF Sound
<1> QED BY <1>1, <1>3, <1>4, <1>5, <1>6 DEF Sound, c

LEMMA ForgottenSound ==
  ASSUME NEW s, NEW c \in Session, Sound(s, c, c.shut), Told(c)
  PROVE  LET r == Forgotten(c) IN
         /\ r \in Session /\ Sound(s, r, r.shut) /\ Told(r)
         /\ r.state = c.state /\ r.link = c.link /\ r.phase = c.phase /\ r.pc = c.pc
<1>1. CASE ~Ended(c)
  BY <1>1 DEF Forgotten
<1>2. CASE Ended(c)
  <2> DEFINE r == [c EXCEPT !.tx = <<>>, !.part = None, !.msg = NoMessage, !.garbled = FALSE,
                            !.carry = <<>>]
  <2>1. Forgotten(c) = r
    BY <1>2 DEF Forgotten
  <2>2. /\ r.state = c.state /\ r.phase = c.phase /\ r.called = c.called /\ r.pc = c.pc
        /\ r.back = c.back /\ r.tx = <<>> /\ r.part = None /\ r.armed = c.armed
        /\ r.code = c.code /\ r.told = c.told /\ r.refused = c.refused /\ r.shut = c.shut
        /\ r.link = c.link
    BY DEF Session
  <2>3. r \in Session
    <3>1. <<>> \in Seq(Frame) /\ MaxMessage \in Nat /\ MaxEmptyRun \in Nat
      BY SessionAssumption
    <3>2. NoMessage \in Messages
      BY <3>1 DEF NoMessage, Messages
    <3> QED BY <3>1, <3>2 DEF Session, Messages
  <2> HIDE DEF r
  <2>4. Timed(s, r) /\ Placed(r) /\ Told(r)
    BY <2>2 DEF Sound, Timed, Placed, Told
  <2>5. Linked(s, r) /\ Fresh(s, r, r.shut)
    BY <2>2 DEF Sound, Linked, Fresh
  <2>6. Queued(r, r.shut)
    <3>1. Pending(r) = <<>> \o <<>>
      BY <2>2 DEF Pending
    <3>2. Pending(r) = <<>>
      BY <3>1
    <3>3. Len(<<>>) = 0 /\ HardCap \in Nat /\ ~Has(<<>>, "close") /\ ~Has(<<>>, "data")
          /\ Ordered(<<>>)
      BY SessionAssumption DEF HardCap, Has, Ordered
    <3>4. r.shut \in {0, 1} /\ r.state = "closed"
      BY <1>2, <2>2 DEF Sound, Queued, Ended
    <3> QED BY <2>2, <3>2, <3>3, <3>4 DEF Queued
  <2> QED BY <2>1, <2>2, <2>3, <2>4, <2>5, <2>6 DEF Sound
<1> QED BY <1>1, <1>2

-----------------------------------------------------------------------------
(* Taking an outcome of a session keeps the invariant of the system.        *)
Ready(s, o) ==
  /\ o.out \in Seq(Frame)
  /\ Sound(s, o.r, o.r.shut + Closes(o.out)) /\ Told(o.r)
  /\ o.r.link = "none" <=> ws[s].link = "none"
  /\ s \in Conns =>
       /\ s \notin server.backlog
       /\ o.r.state # "closed" /\ (o.r.state # "connecting" \/ o.r.phase # None) =>
            s \in server.conns

LEMMA YieldKeeps ==
  ASSUME IInv, NEW s \in Live, NEW o, NEW rest \in Seq(Frame), Ready(s, o),
         YieldFrom(s, o, rest)
  PROVE  IInv'
<1> DEFINE c == [o.r EXCEPT !.shut = @ + Closes(o.out)]
<1>1. peer' = peer /\ Live' = Live /\ Live \subseteq Sessions
  BY Pairs DEF YieldFrom, Live, IInv
<1>2. PICK r : r = Forgotten(c)
  OBVIOUS
<1>3. /\ r \in Session /\ Sound(s, r, r.shut) /\ Told(r)
      /\ r.state = o.r.state /\ r.link = o.r.link /\ r.phase = o.r.phase /\ r.pc = o.r.pc
  <2>1. PICK n, x : n = o.r.shut + Closes(o.out) /\ x = o.r
    OBVIOUS
  <2>2. x \in Session /\ Sound(s, x, n) /\ Told(x) /\ c = [x EXCEPT !.shut = n]
    BY <2>1 DEF Ready, Sound
  <2> HIDE DEF c
  <2>3. /\ c \in Session /\ Sound(s, c, c.shut) /\ Told(c)
        /\ c.state = x.state /\ c.link = x.link /\ c.phase = x.phase /\ c.pc = x.pc
    BY <2>2, CountedSound
  <2> QED BY <1>2, <2>1, <2>3, ForgottenSound
<1>4. /\ ws' = [t \in Live |->
                  IF t = s THEN r
                  ELSE IF t = peer[s] /\ r.link = "closed" /\ ws[t].link = "up"
                  THEN [ws[t] EXCEPT !.link = "eof"] ELSE ws[t]]
      /\ wire' = [t \in Live |->
                    IF t = s THEN IF Ended(r) THEN <<>> ELSE rest
                    ELSE IF t = peer[s] /\ ws[s].link = "up" /\ ws[t].link = "up"
                    THEN wire[t] \o o.out ELSE wire[t]]
      /\ server' = [server EXCEPT !.conns = Kept(s, r)]
  BY <1>2 DEF YieldFrom
<1> HIDE DEF c
<1>5. ws'[s] = r
  BY <1>4
<1>6. \A t \in Live \ {s} : Relinked(ws[t], ws'[t])
  <2>1. TAKE t \in Live \ {s}
  <2>2. ws[t] \in Session
    BY DEF IInv, WellFormed
  <2>3. ws'[t] = ws[t] \/ (ws[t].link = "up" /\ ws'[t] = [ws[t] EXCEPT !.link = "eof"])
    BY <1>4
  <2>5. ws[t].link = "up" => ws[t].state # "closed"
    BY DEF IInv, Sound, Linked
  <2>4. Relinked(ws[t], ws[t])
    BY <2>2 DEF Relinked
  <2> QED BY <2>2, <2>3, <2>4, <2>5, LinkChange
<1>7. \A t \in Live : /\ ws'[t] \in Session
                      /\ Sound(t, ws'[t], (ws'[t]).shut) /\ Told(ws'[t])
  <2>1. \A t \in Live \ {s} : /\ ws'[t] \in Session
                              /\ Sound(t, ws'[t], (ws'[t]).shut) /\ Told(ws'[t])
    BY <1>6, RelinkedSound DEF IInv, Relinked
  <2> QED BY <1>3, <1>5, <2>1
<1>8. ws' \in [Live -> Session]
  BY <1>4, <1>7
<1>9. wire' \in [Live -> Seq(Frame)]
  <2>1. <<>> \in Seq(Frame) /\ o.out \in Seq(Frame)
    BY DEF Ready
  <2>2. \A t \in Live : wire[t] \in Seq(Frame)
    BY DEF IInv, WellFormed
  <2>3. \A t \in Live : wire[t] \o o.out \in Seq(Frame)
    BY <2>1, <2>2, ConcatProperties
  <2> QED BY <1>4, <2>1, <2>2, <2>3
<1>10. /\ server.conns \subseteq Conns \cap Live /\ server.backlog \subseteq Conns \cap Live
       /\ server'.conns = Kept(s, r) /\ server'.backlog = server.backlog
       /\ server'.state = server.state
       /\ server' \in [state : {"unbound", "listening", "closed"},
                       conns : SUBSET (Conns \cap Live), backlog : SUBSET (Conns \cap Live)]
  <2>1. server \in [state : {"unbound", "listening", "closed"},
                    conns : SUBSET (Conns \cap Live), backlog : SUBSET (Conns \cap Live)]
    BY DEF IInv, WellFormed
  <2>2. Kept(s, r) \subseteq server.conns
    BY DEF Kept
  <2> QED BY <1>4, <2>1, <2>2
<1>11. WellFormed'
  BY <1>1, <1>8, <1>9, <1>10 DEF WellFormed, IInv
<1>12. Table'
  <2>1. /\ server.conns \cap server.backlog = {}
        /\ IsFiniteSet(server.conns) /\ Cardinality(server.conns) <= MaxConnections
    BY DEF IInv, Table
  <2>2. Kept(s, r) = server.conns \/ Kept(s, r) = server.conns \ {s}
    BY DEF Kept
  <2>3. IsFiniteSet(Kept(s, r)) /\ Cardinality(Kept(s, r)) <= MaxConnections
    <3>1. Cardinality(server.conns) \in Nat
      BY <2>1, FS_CardinalityType
    <3>2. IsFiniteSet(Kept(s, r)) /\ Cardinality(Kept(s, r)) <= Cardinality(server.conns)
      BY <2>1, <2>2, FS_Subset
    <3>3. Cardinality(Kept(s, r)) \in Nat
      BY <3>2, FS_CardinalityType
    <3> QED BY <2>1, <3>1, <3>2, <3>3, SessionAssumption
  <2>4. ASSUME NEW k \in Conns \cap Live, k # s
        PROVE  /\ (ws'[k]).state # "closed"
                  /\ ((ws'[k]).state # "connecting" \/ (ws'[k]).phase # None) =>
                    k \in Kept(s, r)
               /\ k \in Kept(s, r) /\ (ws'[k]).state = "closed" => (ws'[k]).pc # "idle"
               /\ k \in Kept(s, r) \cup server.backlog => (ws'[k]).link # "none"
               /\ k \in server.backlog => (ws'[k]).state = "connecting"
    <3>1. Relinked(ws[k], ws'[k])
      BY <1>6, <2>4
    <3>2. k \in Kept(s, r) <=> k \in server.conns
      BY <2>2, <2>4
    <3> QED BY <3>1, <3>2 DEF IInv, Table, Relinked
  <2>5. ASSUME s \in Conns
        PROVE  /\ r.state # "closed" /\ (r.state # "connecting" \/ r.phase # None) =>
                    s \in Kept(s, r)
               /\ s \in Kept(s, r) /\ r.state = "closed" => r.pc # "idle"
               /\ s \in Kept(s, r) \cup server.backlog => r.link # "none"
               /\ s \notin server.backlog
    <3>1. s \in server.conns => ws[s].link # "none"
      BY <2>5 DEF IInv, Table
    <3> QED BY <1>3, <2>5, <3>1 DEF Ready, Kept
  <2>6. Kept(s, r) \cap server.backlog = {}
    BY <2>1, <2>2
  <2>7. \A k \in Conns \cap Live :
          /\ (ws'[k]).state # "closed"
                  /\ ((ws'[k]).state # "connecting" \/ (ws'[k]).phase # None) =>
                    k \in Kept(s, r)
          /\ k \in Kept(s, r) /\ (ws'[k]).state = "closed" => (ws'[k]).pc # "idle"
          /\ k \in Kept(s, r) \cup server.backlog => (ws'[k]).link # "none"
          /\ k \in server.backlog => (ws'[k]).state = "connecting"
    BY <1>5, <2>4, <2>5
  <2> QED BY <1>1, <1>10, <2>3, <2>6, <2>7 DEF Table
<1>13. Dialled'
  <2>1. \A t \in Live : (ws'[t]).link = "none" <=> ws[t].link = "none"
    BY <1>3, <1>5, <1>6 DEF Ready, Relinked
  <2>2. \A t \in Clients \cap Live : peer[t] # None => peer[t] \in Live
    BY Pairs DEF IInv
  <2> QED BY <1>1, <2>1, <2>2 DEF Dialled, IInv
<1>14. \A t \in Live' : (Sound(t, ws[t], ws[t].shut) /\ Told(ws[t]))'
  <2>1. ASSUME NEW t \in Live
        PROVE  (Sound(t, ws[t], ws[t].shut) /\ Told(ws[t]))'
    <3>1. Sound(t, ws'[t], (ws'[t]).shut) /\ Told(ws'[t])
      BY <1>7
    <3> QED BY <3>1
  <2> QED BY <1>1, <2>1
<1> QED BY <1>11, <1>12, <1>13, <1>14 DEF IInv

(* A session in a pass, or reached by handle().                             *)
Passing(s) ==
  /\ Busy(s, ws[s])
  /\ s \in Conns => /\ s \notin server.backlog
                    /\ ws[s].state # "closed" => s \in server.conns

LEMMA HandledPasses ==
  ASSUME IInv, NEW s \in Live, Handled(s)
  PROVE  Passing(s)
<1>1. s \in Clients \cup Conns /\ Clients \cap Conns = {}
  BY Pairs, SessionAssumption DEF IInv, Sessions
<1> QED BY <1>1 DEF Handled, Passing, Busy, IInv, Table

LEMMA InPassPasses ==
  ASSUME IInv, NEW s \in Live, ws[s].pc # "idle"
  PROVE  Passing(s)
<1>1. Sound(s, ws[s], ws[s].shut)
  BY DEF IInv
<1>2. ws[s].state # "connecting"
  BY <1>1 DEF Sound, Placed
<1>3. Busy(s, ws[s])
  BY <1>1, <1>2 DEF Sound, Fresh, Linked, Busy
<1> QED BY <1>2, <1>3 DEF Passing, IInv, Table

(* What Yields needs of an outcome reached through steps inside a pass.     *)
LEMMA PassYields ==
  ASSUME IInv, NEW s \in Live, Passing(s), NEW o, Fine(s, ws[s], o),
         NEW rest \in Seq(Frame), YieldFrom(s, o, rest)
  PROVE  IInv'
<1>1. Told(ws[s]) /\ ws[s] \in Session
  BY DEF IInv, WellFormed
<1>2. Ready(s, o)
  BY <1>1 DEF Ready, Fine, Keeps, Follows, Passing
<1> QED BY <1>2, YieldKeeps

LEMMA PassYield ==
  ASSUME IInv, NEW s \in Live, Passing(s), NEW o, Fine(s, ws[s], o), Yield(s, o)
  PROVE  IInv'
<1>1. wire[s] \in Seq(Frame)
  BY DEF IInv, WellFormed
<1> QED BY <1>1, PassYields DEF Yield

LEMMA FineAfter ==
  ASSUME NEW s, NEW r, NEW t, NEW o, Keeps(s, r, r.shut, t), Fine(s, t, o)
  PROVE  Fine(s, r, o)
BY DEF Fine, Keeps, Follows

(* A session of the system is sound where it stands.                        *)
LEMMA SoundHere ==
  ASSUME IInv, NEW s \in Live
  PROVE  /\ s \in Sessions /\ ws[s] \in Session /\ Room(s) \in Int
         /\ Sound(s, ws[s], ws[s].shut) /\ Told(ws[s]) /\ wire[s] \in Seq(Frame)
BY Pairs DEF IInv, WellFormed

(* The place of a pass, and the bytes behind a handshake.                   *)
At(r, p, b, c) == [r EXCEPT !.pc = p, !.back = b, !.carry = c]

LEMMA PlaceKeeps ==
  ASSUME NEW s \in Sessions, NEW r, NEW n, Sound(s, r, n), Busy(s, r),
         NEW p \in {"idle", "opened", "callback", "feed", "read"},
         NEW b \in {None, "feed", "read"}, NEW c \in Seq(Frame),
         p # "idle" => r.state # "connecting",
         p \in {"callback", "opened"} => b \in {"feed", "read"}
  PROVE  /\ Keeps(s, r, n, At(r, p, b, c))
         /\ At(r, p, b, c).pc = p /\ At(r, p, b, c).back = b
         /\ At(r, p, b, c).state = r.state
<1> DEFINE t == At(r, p, b, c)
<1>0. r \in Session
  BY DEF Sound
<1>1. /\ t.state = r.state /\ t.phase = r.phase /\ t.called = r.called /\ t.link = r.link
      /\ t.tx = r.tx /\ t.part = r.part /\ t.code = r.code /\ t.told = r.told
      /\ t.refused = r.refused /\ t.shut = r.shut /\ t.armed = r.armed
      /\ t.pc = p /\ t.back = b
  BY <1>0 DEF Session, At
<1>2. t \in Session
  BY <1>0 DEF Session, At
<1> HIDE DEF t
<1>3. Placed(t)
  BY <1>1 DEF Placed
<1> QED BY <1>1, <1>2, <1>3, OtherFieldsKeep DEF t

LEMMA PlaceFields ==
  ASSUME NEW r \in Session
  PROVE  /\ \A p : [r EXCEPT !.pc = p] = At(r, p, r.back, r.carry)
         /\ \A p, b : [r EXCEPT !.pc = p, !.back = b] = At(r, p, b, r.carry)
         /\ \A c : [r EXCEPT !.carry = c] = At(r, r.pc, r.back, c)
         /\ r.back \in {None, "feed", "read"} /\ r.carry \in Seq(Frame)
         /\ r.pc \in {"idle", "opened", "callback", "feed", "read"}
BY DEF Session, At

LEMMA GarbledKeeps ==
  ASSUME NEW s \in Sessions, NEW r, NEW n, Sound(s, r, n), Busy(s, r)
  PROVE  Keeps(s, r, n, [r EXCEPT !.garbled = TRUE])
<1> DEFINE t == [r EXCEPT !.garbled = TRUE]
<1>0. r \in Session /\ Placed(r)
  BY DEF Sound
<1>1. /\ t.state = r.state /\ t.phase = r.phase /\ t.called = r.called /\ t.link = r.link
      /\ t.tx = r.tx /\ t.part = r.part /\ t.code = r.code /\ t.told = r.told
      /\ t.refused = r.refused /\ t.shut = r.shut /\ t.armed = r.armed
      /\ t.pc = r.pc /\ t.back = r.back
  BY <1>0 DEF Session
<1>2. t \in Session
  BY <1>0 DEF Session
<1> HIDE DEF t
<1>3. Placed(t)
  BY <1>0, <1>1 DEF Placed
<1> QED BY <1>1, <1>2, <1>3, OtherFieldsKeep DEF t

(* Settle: what is left of a chunk may be dropped.                          *)
LEMMA SettleKeeps ==
  ASSUME NEW s \in Sessions, NEW r, NEW n, Sound(s, r, n), Busy(s, r)
  PROVE  Keeps(s, r, n, Settle(r))
<1>1. r \in Session /\ Placed(r) /\ <<>> \in Seq(Frame)
  BY DEF Sound
<1>2. Keeps(s, r, n, [r EXCEPT !.carry = <<>>])
  <2>1. PICK c \in Seq(Frame) : c = <<>>
    BY <1>1
  <2>2. Keeps(s, r, n, At(r, r.pc, r.back, c))
    <3>1. PICK p, b : p = r.pc /\ b = r.back
      OBVIOUS
    <3>2. /\ p \in {"idle", "opened", "callback", "feed", "read"}
          /\ b \in {None, "feed", "read"}
      BY <1>1, <3>1, PlaceFields
    <3>3. /\ p # "idle" => r.state # "connecting"
          /\ p \in {"callback", "opened"} => b \in {"feed", "read"}
      BY <1>1, <3>1 DEF Placed
    <3>4. Keeps(s, r, n, At(r, p, b, c))
      BY <3>2, <3>3, PlaceKeeps
    <3> QED BY <3>1, <3>4
  <2>3. [r EXCEPT !.carry = c] = At(r, r.pc, r.back, c)
    BY <1>1, PlaceFields
  <2> QED BY <2>1, <2>2, <2>3
<1>3. Keeps(s, r, n, r)
  BY KeepsItself
<1>4. Settle(r) \in {r, [r EXCEPT !.carry = <<>>]}
  BY DEF Settle
<1> QED BY <1>2, <1>3, <1>4

-----------------------------------------------------------------------------
(* The steps of handle().                                                   *)

LEMMA OneFrame ==
  ASSUME NEW op \in {"request", "accept", "refusal"}
  PROVE  /\ <<Plain(op, 0)>> \in Seq(Frame)
         /\ Closes(<<Plain(op, 0)>>) = 0
<1>1. PICK f : f = Plain(op, 0)
  OBVIOUS
<1>2. f \in Frame /\ f.op = op
  BY <1>1, FramesMade
<1>3. {i \in DOMAIN <<f>> : <<f>>[i].op = "close"} = {}
  BY <1>2
<1>4. Closes(<<f>>) = 0
  BY <1>3, FS_EmptySet DEF Closes
<1> QED BY <1>1, <1>2, <1>4

LEMMA HeadFine ==
  ASSUME NEW s \in Sessions, NEW r \in Session, NEW t, Keeps(s, r, r.shut, t),
         NEW op \in {"request", "accept", "refusal"}
  PROVE  Fine(s, r, Out(t, <<Plain(op, 0)>>))
<1>1. r.shut + 0 = r.shut
  BY DEF Session
<1> QED BY <1>1, OneFrame DEF Fine, Out

LEMMA TimeoutStep ==
  ASSUME IInv, NEW s \in Live, NEW d, Timeout(s, d)
  PROVE  IInv'
<1> DEFINE r == ws[s]
<1>1. /\ s \in Sessions /\ r \in Session /\ Room(s) \in Int /\ Sound(s, r, r.shut)
      /\ Passing(s) /\ Busy(s, r)
  BY SoundHere, HandledPasses DEF Timeout, Passing
<1>2. CASE d = "close"
  <2>1. PICK o \in FinalizeClosed(s, r) : Yield(s, o)
    BY <1>2 DEF Timeout, Yields
  <2> QED BY <1>1, <2>1, FinalizeClosedFine, PassYield
<1>3. CASE d # "close"
  <2>1. PICK f : f = FailWithError(s, r)
    OBVIOUS
  <2>2. Keeps(s, r, r.shut, f) /\ f.pc = r.pc /\ f.back = r.back
    BY <1>1, <2>1, FailWithErrorKeeps
  <2>3. Yield(s, Out([f EXCEPT !.carry = <<>>], <<>>))
    BY <1>3, <2>1 DEF Timeout, Yields, Only
  <2>4. r.pc = "idle"
    BY DEF Timeout, Handled, Resting, Board
  <2>5. Keeps(s, f, r.shut, [f EXCEPT !.carry = <<>>])
    <3>1. f \in Session /\ Sound(s, f, r.shut) /\ Busy(s, f)
      BY <2>2 DEF Keeps, Sound
    <3>2. PICK c \in Seq(Frame) : c = <<>>
      BY EmptySeq
    <3>3. PICK b : b = f.back
      OBVIOUS
    <3>4. b \in {None, "feed", "read"} /\ f.pc = "idle"
      BY <2>2, <2>4, <3>1, <3>3, PlaceFields
    <3>5. Keeps(s, f, r.shut, At(f, "idle", b, c))
      BY <1>1, <3>1, <3>4, PlaceKeeps
    <3>6. [f EXCEPT !.carry = c] = At(f, f.pc, f.back, c)
      BY <3>1, PlaceFields
    <3> QED BY <3>2, <3>3, <3>4, <3>5, <3>6
  <2>6. Fine(s, r, Out([f EXCEPT !.carry = <<>>], <<>>))
    BY <1>1, <2>2, <2>5, KeepsComposes, OnlyFine
  <2> QED BY <1>1, <2>3, <2>6, PassYield
<1> QED BY <1>2, <1>3

(* A handshake that fails ends the session.                                 *)
LEMMA FailStep ==
  ASSUME IInv, NEW s \in Live, Passing(s), NEW rest \in Seq(Frame),
         YieldFrom(s, Out(FailWithError(s, ws[s]), <<>>), rest)
  PROVE  IInv'
<1>1. Keeps(s, ws[s], ws[s].shut, FailWithError(s, ws[s]))
  BY SoundHere, FailWithErrorKeeps DEF Passing
<1> QED BY <1>1, SoundHere, OnlyFine, PassYields

LEMMA TransportFailsStep ==
  ASSUME IInv, NEW s \in Live, TransportFails(s)
  PROVE  IInv'
BY SoundHere, HandledPasses, FailStep DEF TransportFails, Yields, Only, Yield

LEMMA HandshakeLostStep ==
  ASSUME IInv, NEW s \in Live, HandshakeLost(s)
  PROVE  IInv'
BY SoundHere, HandledPasses, FailStep DEF HandshakeLost, Yields, Only, Yield

(* The phases of a handshake, once there is a transport.                    *)
LEMMA PhaseKeeps ==
  ASSUME NEW s \in Sessions, NEW r, NEW n, Sound(s, r, n), Busy(s, r),
         r.state = "connecting", r.phase \in {"sending", "receiving"},
         NEW p \in {"sending", "receiving"}
  PROVE  LET t == [r EXCEPT !.phase = p] IN
         Keeps(s, r, n, t) /\ t.pc = r.pc /\ t.back = r.back /\ t.state = r.state
<1> DEFINE t == [r EXCEPT !.phase = p]
<1>0. r \in Session
  BY DEF Sound
<1>1. /\ t.state = r.state /\ t.phase = p /\ t.called = r.called /\ t.link = r.link
      /\ t.tx = r.tx /\ t.part = r.part /\ t.code = r.code /\ t.told = r.told
      /\ t.refused = r.refused /\ t.shut = r.shut /\ t.armed = r.armed
      /\ t.pc = r.pc /\ t.back = r.back
  BY <1>0 DEF Session
<1>2. t \in Session
  BY <1>0 DEF Session
<1> HIDE DEF t
<1>3. None \notin {"sending", "receiving"}
  BY SessionAssumption
<1>4. Timed(s, t) /\ Placed(t)
  BY <1>1, <1>3 DEF Sound, Timed, Placed
<1>5. Linked(s, t)
  BY <1>1, <1>3 DEF Sound, Linked, Busy
<1>6. Queued(t, n)
  BY <1>1, QueuedKept DEF Sound
<1>7. Fresh(s, t, n) /\ Follows(r, t) /\ Busy(s, t) /\ (Told(r) => Told(t))
  BY <1>1 DEF Fresh, Follows, Busy, Told
<1> QED BY <1>1, <1>2, <1>4, <1>5, <1>6, <1>7 DEF Keeps, Sound, t

(* _enter_open                                                              *)
LEMMA EnterOpenKeeps ==
  ASSUME NEW s \in Sessions, NEW r, NEW n, Sound(s, r, n), Busy(s, r),
         r.state = "connecting"
  PROVE  LET t == EnterOpen(r) IN
         /\ Keeps(s, r, n, t)
         /\ t.pc = "opened" /\ t.back = "feed" /\ t.state = "open"
<1> DEFINE t == EnterOpen(r)
<1>0. r \in Session
  BY DEF Sound
<1>1. /\ t.state = "open" /\ t.phase = None /\ t.called = r.called /\ t.link = r.link
      /\ t.tx = r.tx /\ t.part = r.part /\ t.code = r.code /\ t.told = r.told
      /\ t.refused = r.refused /\ t.shut = r.shut /\ t.armed = r.armed \ {"handshake"}
      /\ t.pc = "opened" /\ t.back = "feed"
  BY <1>0 DEF Session, EnterOpen
<1>2. t \in Session
  <2>1. PICK a \in SUBSET {"handshake", "close", "pong", "auto"} : a = r.armed \ {"handshake"}
    BY <1>0 DEF Session
  <2>2. t = [r EXCEPT !.phase = None, !.armed = a, !.state = "open",
                      !.pc = "opened", !.back = "feed"]
    BY <2>1 DEF EnterOpen
  <2> HIDE DEF t
  <2> QED BY ZenonT(60), <1>0, <2>1, <2>2 DEF Session
<1> HIDE DEF t
<1>4. Timed(s, t) /\ Placed(t)
  BY <1>1 DEF Sound, Timed, Placed
<1>5. Linked(s, t)
  BY <1>1 DEF Sound, Linked, Busy
<1>6. Queued(t, n)
  <2>1. Pending(t) = Pending(r)
    BY <1>1 DEF Pending
  <2> QED BY <1>1, <2>1 DEF Sound, Queued
<1>7. Fresh(s, t, n) /\ Follows(r, t) /\ Busy(s, t) /\ (Told(r) => Told(t))
  BY <1>1 DEF Fresh, Follows, Busy, Told
<1> QED BY <1>1, <1>2, <1>4, <1>5, <1>6, <1>7 DEF Keeps, Sound, t

LEMMA SendHandshakeStep ==
  ASSUME IInv, NEW s \in Live, SendHandshake(s)
  PROVE  IInv'
<1>1. /\ s \in Sessions /\ ws[s] \in Session /\ wire[s] \in Seq(Frame)
      /\ Sound(s, ws[s], ws[s].shut) /\ Passing(s) /\ Busy(s, ws[s])
      /\ ws[s].state = "connecting" /\ ws[s].phase = "sending"
  BY SoundHere, HandledPasses DEF SendHandshake, Passing
<1>2. CASE Yields(s, {Out([ws[s] EXCEPT !.phase = "receiving"], <<Plain("request", 0)>>)})
  <2>1. Fine(s, ws[s], Out([ws[s] EXCEPT !.phase = "receiving"], <<Plain("request", 0)>>))
    BY <1>1, PhaseKeeps, HeadFine
  <2> QED BY <1>1, <1>2, <2>1, PassYield DEF Yields
<1>3. CASE Yields(s, {Out(EnterOpen(ws[s]), <<Plain("accept", 0)>>)})
  <2>1. Fine(s, ws[s], Out(EnterOpen(ws[s]), <<Plain("accept", 0)>>))
    BY <1>1, EnterOpenKeeps, HeadFine
  <2> QED BY <1>1, <1>3, <2>1, PassYield DEF Yields
<1>4. CASE Yields(s, Only(FailWithError(s, ws[s])))
  BY <1>1, <1>4, FailStep DEF Yields, Only, Yield
<1> QED BY <1>2, <1>3, <1>4 DEF SendHandshake

(* The bytes on their way to a session.                                     *)
LEMMA NextFrameType ==
  ASSUME IInv, NEW s \in Live, wire[s] # <<>>
  PROVE  /\ Head(wire[s]) \in Frame /\ Tail(wire[s]) \in Seq(Frame)
         /\ Len(Tail(wire[s])) \in Nat
BY SoundHere, HeadTailProperties, LenProperties

LEMMA WithCarryStep ==
  ASSUME IInv, NEW s \in Live, Passing(s), wire[s] # <<>>,
         NEW r, Keeps(s, ws[s], ws[s].shut, r), WithCarry(s, r)
  PROVE  IInv'
<1>1. PICK w : w = Tail(wire[s])
  OBVIOUS
<1>2. w \in Seq(Frame)
  BY <1>1, NextFrameType
<1>3. PICK n \in 0..Len(w) :
        YieldFrom(s, Out([r EXCEPT !.carry = SubSeq(w, 1, n)], <<>>),
                  SubSeq(w, n + 1, Len(w)))
  BY <1>1 DEF WithCarry
<1>4. PICK c, rest : c = SubSeq(w, 1, n) /\ rest = SubSeq(w, n + 1, Len(w))
  OBVIOUS
<1>5. c \in Seq(Frame) /\ rest \in Seq(Frame)
  BY <1>2, <1>4, CutQueue
<1>6. PICK p, b, m : p = r.pc /\ b = r.back /\ m = ws[s].shut
  OBVIOUS
<1>7. r \in Session /\ Sound(s, r, m) /\ Busy(s, r) /\ Placed(r) /\ s \in Sessions
  BY <1>6, SoundHere DEF Keeps, Sound
<1>8. /\ p \in {"idle", "opened", "callback", "feed", "read"}
      /\ b \in {None, "feed", "read"} /\ [r EXCEPT !.carry = c] = At(r, p, b, c)
  BY <1>6, <1>7, PlaceFields
<1>9. /\ p # "idle" => r.state # "connecting"
      /\ p \in {"callback", "opened"} => b \in {"feed", "read"}
  BY <1>6, <1>7 DEF Placed
<1>10. Keeps(s, r, m, At(r, p, b, c))
  BY <1>5, <1>7, <1>8, <1>9, PlaceKeeps
<1>11. Fine(s, ws[s], Out([r EXCEPT !.carry = c], <<>>))
  BY <1>6, <1>8, <1>10, KeepsComposes, SoundHere, OnlyFine
<1> QED BY <1>3, <1>4, <1>5, <1>11, PassYields

LEMMA AbsorbedStep ==
  ASSUME IInv, NEW s \in Live, Passing(s), NEW f, NEW o \in Absorbed(ws[s], f),
         NEW rest \in Seq(Frame), YieldFrom(s, o, rest)
  PROVE  IInv'
<1>1. o = Out([ws[s] EXCEPT !.garbled = TRUE], <<>>)
  BY DEF Absorbed, Only
<1>2. Keeps(s, ws[s], ws[s].shut, [ws[s] EXCEPT !.garbled = TRUE])
  BY SoundHere, GarbledKeeps DEF Passing
<1> QED BY <1>1, <1>2, SoundHere, OnlyFine, PassYields

(* Only a client is armed to ping by itself.                                *)
LEMMA ArmAutoPingKeeps ==
  ASSUME NEW s \in Sessions, NEW r, NEW n, Sound(s, r, n), Busy(s, r), r.state = "open"
  PROVE  Keeps(s, r, n, ArmAutoPing(s, r))
<1> DEFINE t == ArmAutoPing(s, r)
<1>0. r \in Session
  BY DEF Sound
<1>1. PICK a : a = r.armed \cup (IF s \in AutoPing THEN {"auto"} ELSE {})
  OBVIOUS
<1>2. /\ a \in SUBSET {"handshake", "close", "pong", "auto"}
      /\ \A d \in {"handshake", "close"} : d \in a <=> d \in r.armed
      /\ s \in Conns => a = r.armed
  BY <1>0, <1>1, SessionAssumption DEF Session
<1>3. t = [r EXCEPT !.armed = a]
  BY <1>1 DEF ArmAutoPing
<1> HIDE DEF t
<1>4. /\ t.state = r.state /\ t.phase = r.phase /\ t.called = r.called /\ t.link = r.link
      /\ t.tx = r.tx /\ t.part = r.part /\ t.code = r.code /\ t.told = r.told
      /\ t.refused = r.refused /\ t.shut = r.shut /\ t.armed = a
      /\ t.pc = r.pc /\ t.back = r.back
  BY <1>0, <1>3 DEF Session
<1>5. t \in Session
  BY <1>0, <1>2, <1>3 DEF Session
<1>6. Timed(s, t) /\ Placed(t)
  BY <1>2, <1>4 DEF Sound, Timed, Placed
<1>7. Linked(s, t)
  BY <1>4 DEF Sound, Linked
<1>8. Queued(t, n)
  BY <1>4, QueuedKept DEF Sound
<1>9. Fresh(s, t, n) /\ Follows(r, t) /\ Busy(s, t) /\ (Told(r) => Told(t))
  BY <1>4 DEF Fresh, Follows, Busy, Told
<1> QED BY <1>5, <1>6, <1>7, <1>8, <1>9 DEF Keeps, Sound, t

LEMMA ReceiveResponseStep ==
  ASSUME IInv, NEW s \in Live, ReceiveResponse(s)
  PROVE  IInv'
<1> DEFINE r == ws[s]
<1>1. /\ s \in Sessions /\ r \in Session /\ Sound(s, r, r.shut) /\ Passing(s) /\ Busy(s, r)
      /\ r.state = "connecting" /\ wire[s] # <<>> /\ Tail(wire[s]) \in Seq(Frame)
  BY SoundHere, HandledPasses, NextFrameType DEF ReceiveResponse, Receiving, Passing
<1>2. CASE WithCarry(s, ArmAutoPing(s, EnterOpen(r)))
  <2>1. PICK t : t = EnterOpen(r)
    OBVIOUS
  <2>2. Keeps(s, r, r.shut, t) /\ t.state = "open"
    BY <1>1, <2>1, EnterOpenKeeps
  <2>3. Keeps(s, t, r.shut, ArmAutoPing(s, t))
    BY <1>1, <2>2, ArmAutoPingKeeps DEF Keeps
  <2>4. Keeps(s, r, r.shut, ArmAutoPing(s, t))
    BY <2>2, <2>3, KeepsComposes
  <2> QED BY <1>1, <1>2, <2>1, <2>4, WithCarryStep
<1>3. ASSUME NEW o \in Absorbed(r, Head(wire[s])) \cup Only(FailWithError(s, r)),
             YieldFrom(s, o, Tail(wire[s]))
      PROVE  IInv'
  <2>1. CASE o \in Absorbed(r, Head(wire[s]))
    BY <1>1, <1>3, <2>1, AbsorbedStep
  <2>2. CASE o \in Only(FailWithError(s, r))
    BY <1>1, <1>3, <2>2, FailStep DEF Only
  <2> QED BY <1>3, <2>1, <2>2
<1> QED BY <1>2, <1>3 DEF ReceiveResponse

(* _reject: the transport is dropped and nobody is told.                    *)
LEMMA RejectKeeps ==
  ASSUME NEW s \in Conns, NEW r, NEW n, Sound(s, r, n), Busy(s, r)
  PROVE  Keeps(s, r, n, Reject(r))
<1> DEFINE t == Reject(r)
<1>0. r \in Session /\ s \notin Clients /\ s \in Sessions
  BY SessionAssumption DEF Sound, Sessions
<1>1. PICK a, l : /\ a = r.armed \ {"handshake", "close", "pong"}
                  /\ l = IF r.link = "none" THEN r.link ELSE "closed"
  OBVIOUS
<1>2. t = [r EXCEPT !.refused = TRUE, !.state = "closed", !.armed = a, !.link = l]
  BY <1>0, <1>1 DEF Reject, DropTransport, Session
<1>3. a = {} /\ l \in {"none", "closed"} /\ (l = "none" <=> r.link = "none")
  BY <1>0, <1>1 DEF Sound, Timed, Session
<1> HIDE DEF t
<1>4. /\ t.state = "closed" /\ t.phase = r.phase /\ t.called = r.called /\ t.link = l
      /\ t.tx = r.tx /\ t.part = r.part /\ t.code = r.code /\ t.told = r.told
      /\ t.refused /\ t.shut = r.shut /\ t.armed = a
      /\ t.pc = r.pc /\ t.back = r.back
  BY <1>0, <1>2 DEF Session
<1>5. t \in Session
  BY ZenonT(60), <1>0, <1>2, <1>3 DEF Session
<1>6. Timed(s, t) /\ Placed(t)
  BY <1>3, <1>4 DEF Sound, Timed, Placed
<1>7. Linked(s, t)
  BY <1>0, <1>3, <1>4 DEF Sound, Linked, Busy
<1>8. Queued(t, n)
  BY <1>4, QueuedKept DEF Sound
<1>9. Fresh(s, t, n) /\ Follows(r, t) /\ Busy(s, t) /\ (Told(r) => Told(t))
  BY <1>0, <1>3, <1>4 DEF Fresh, Follows, Busy, Told
<1> QED BY <1>5, <1>6, <1>7, <1>8, <1>9 DEF Keeps, Sound, t

LEMMA ReceiveRequestStep ==
  ASSUME IInv, NEW s \in Live, ReceiveRequest(s)
  PROVE  IInv'
<1> DEFINE r == ws[s]
<1>1. /\ s \in Sessions /\ r \in Session /\ Sound(s, r, r.shut) /\ Passing(s) /\ Busy(s, r)
      /\ r.state = "connecting" /\ r.phase = "receiving"
      /\ wire[s] # <<>> /\ Tail(wire[s]) \in Seq(Frame) /\ s \in Conns
  BY SoundHere, HandledPasses, NextFrameType DEF ReceiveRequest, Receiving, Passing
<1>2. CASE WithCarry(s, [r EXCEPT !.phase = "sending"])
  <2>1. Keeps(s, r, r.shut, [r EXCEPT !.phase = "sending"])
    BY <1>1, PhaseKeeps
  <2> QED BY <1>1, <1>2, <2>1, WithCarryStep
<1>3. ASSUME NEW o \in Absorbed(r, Head(wire[s])) \cup {Out(Reject(r), <<Plain("refusal", 0)>>)},
             YieldFrom(s, o, Tail(wire[s]))
      PROVE  IInv'
  <2>1. CASE o \in Absorbed(r, Head(wire[s]))
    BY <1>1, <1>3, <2>1, AbsorbedStep
  <2>2. CASE o = Out(Reject(r), <<Plain("refusal", 0)>>)
    <3>1. Fine(s, r, o)
      BY <1>1, <2>2, RejectKeeps, HeadFine
    <3> QED BY <1>1, <1>3, <3>1, PassYields
  <2> QED BY <1>3, <2>1, <2>2
<1> QED BY <1>2, <1>3 DEF ReceiveRequest

-----------------------------------------------------------------------------
(* The passes of an open or closing session.                                *)

LEMMA ReadingPasses ==
  ASSUME IInv, NEW s \in Live, Reading(s)
  PROVE  Passing(s) /\ ws[s].state # "connecting"
<1>1. CASE ws[s].pc = "read"
  BY <1>1, InPassPasses, SoundHere DEF Sound, Placed
<1>2. CASE Handled(s) /\ ws[s].state \in {"open", "closing"}
  BY <1>2, HandledPasses
<1> QED BY <1>1, <1>2 DEF Reading

LEMMA ReadStep ==
  ASSUME IInv, NEW s \in Live, Read(s)
  PROVE  IInv'
<1>1. /\ s \in Sessions /\ ws[s] \in Session /\ Room(s) \in Int /\ Passing(s)
      /\ Sound(s, ws[s], ws[s].shut) /\ Busy(s, ws[s]) /\ ws[s].state # "connecting"
      /\ wire[s] # <<>> /\ NextFrame(s) \in Frame /\ Tail(wire[s]) \in Seq(Frame)
  BY SoundHere, ReadingPasses, NextFrameType DEF Read, Passing, NextFrame
<1>2. PICK r, b, c, n : /\ r = [ws[s] EXCEPT !.pc = "read"] /\ n = ws[s].shut
                        /\ b = ws[s].back /\ c = ws[s].carry
  OBVIOUS
<1>3. r = At(ws[s], "read", b, c) /\ b \in {None, "feed", "read"} /\ c \in Seq(Frame)
  BY <1>1, <1>2, PlaceFields
<1>4. Keeps(s, ws[s], n, r) /\ r.pc = "read"
  <2>1. PICK x : x = ws[s]
    OBVIOUS
  <2>2. Sound(s, x, n) /\ Busy(s, x) /\ x.state # "connecting"
    BY <1>1, <1>2, <2>1
  <2>3. Keeps(s, x, n, At(x, "read", b, c)) /\ At(x, "read", b, c).pc = "read"
    BY <1>1, <1>3, <2>2, PlaceKeeps
  <2> QED BY <1>3, <2>1, <2>3
<1>5. PICK o \in Dispatch(s, r, NextFrame(s)) : YieldFrom(s, o, Tail(wire[s]))
  BY <1>2 DEF Read
<1>6. Sound(s, r, r.shut) /\ Busy(s, r)
  BY <1>2, <1>4 DEF Keeps, Follows
<1>7. Fine(s, r, o)
  BY <1>1, <1>4, <1>5, <1>6, DispatchFine
<1>8. Fine(s, ws[s], o)
  BY <1>2, <1>4, <1>7, FineAfter
<1> QED BY <1>1, <1>5, <1>8, PassYields

(* The automatic ping                                                       *)
LEMMA ArmPongKeeps ==
  ASSUME NEW s \in Sessions, NEW r, NEW n, Sound(s, r, n), Busy(s, r), r.state = "open"
  PROVE  Keeps(s, r, n, ArmPong(r))
<1> DEFINE t == ArmPong(r)
<1>0. r \in Session
  BY DEF Sound
<1>1. PICK a : a = r.armed \cup {"pong"}
  OBVIOUS
<1>2. /\ a \in SUBSET {"handshake", "close", "pong", "auto"}
      /\ \A d \in {"handshake", "close", "auto"} : d \in a <=> d \in r.armed
  BY <1>0, <1>1 DEF Session
<1>3. t = [r EXCEPT !.armed = a]
  BY <1>1 DEF ArmPong
<1> HIDE DEF t
<1>4. /\ t.state = r.state /\ t.phase = r.phase /\ t.called = r.called /\ t.link = r.link
      /\ t.tx = r.tx /\ t.part = r.part /\ t.code = r.code /\ t.told = r.told
      /\ t.refused = r.refused /\ t.shut = r.shut /\ t.armed = a
      /\ t.pc = r.pc /\ t.back = r.back
  BY <1>0, <1>3 DEF Session
<1>5. t \in Session
  BY <1>0, <1>2, <1>3 DEF Session
<1>6. Timed(s, t) /\ Placed(t)
  BY <1>2, <1>4 DEF Sound, Timed, Placed
<1>7. Linked(s, t)
  BY <1>4 DEF Sound, Linked
<1>8. Queued(t, n)
  BY <1>4, QueuedKept DEF Sound
<1>9. Fresh(s, t, n) /\ Follows(r, t) /\ Busy(s, t) /\ (Told(r) => Told(t))
  BY <1>4 DEF Fresh, Follows, Busy, Told
<1> QED BY <1>5, <1>6, <1>7, <1>8, <1>9 DEF Keeps, Sound, t

LEMMA AutoPingedKeeps ==
  ASSUME NEW s \in Sessions, NEW r, NEW n, Sound(s, r, n), Busy(s, r)
  PROVE  Keeps(s, r, n, AutoPinged(r))
<1>1. CASE r.state # "open" \/ "auto" \notin r.armed
  BY <1>1, KeepsItself DEF AutoPinged
<1>2. CASE ~(r.state # "open" \/ "auto" \notin r.armed)
  <2>1. PICK t : t = Internal(r, Plain("ping", 0))
    OBVIOUS
  <2>2. Keeps(s, r, n, t) /\ t.state = "open"
    BY <1>2, <2>1, FramesMade, InternalKeeps
  <2>3. Keeps(s, t, n, ArmPong(t))
    BY <2>2, ArmPongKeeps DEF Keeps
  <2> QED BY <1>2, <2>1, <2>2, <2>3, KeepsComposes DEF AutoPinged
<1> QED BY <1>1, <1>2

LEMMA FinishPassStep ==
  ASSUME IInv, NEW s \in Live, NEW pings \in BOOLEAN, FinishPass(s, pings)
  PROVE  IInv'
<1>1. /\ s \in Sessions /\ ws[s] \in Session /\ Room(s) \in Int /\ Passing(s)
      /\ Sound(s, ws[s], ws[s].shut) /\ Busy(s, ws[s])
  BY SoundHere, ReadingPasses DEF FinishPass, Passing
<1>2. PICK r, b, c, n : /\ r = [ws[s] EXCEPT !.pc = "idle"] /\ n = ws[s].shut
                        /\ b = ws[s].back /\ c = ws[s].carry
  OBVIOUS
<1>3. r = At(ws[s], "idle", b, c) /\ b \in {None, "feed", "read"} /\ c \in Seq(Frame)
  BY <1>1, <1>2, PlaceFields
<1>4. Keeps(s, ws[s], n, r)
  BY <1>1, <1>2, <1>3, PlaceKeeps
<1>5. PICK q : q = IF r.state # "closed" /\ StreamEnds(s) THEN FailWithError(s, r) ELSE r
  OBVIOUS
<1>6. Keeps(s, ws[s], n, q)
  <2>1. Keeps(s, r, n, FailWithError(s, r)) /\ Keeps(s, r, n, r)
    BY <1>1, <1>4, FailWithErrorKeeps, KeepsItself DEF Keeps
  <2> QED BY <1>4, <1>5, <2>1, KeepsComposes
<1>7. PICK o \in Drained(s, q) :
        Yield(s, IF pings THEN Out(AutoPinged(o.r), o.out) ELSE o)
  BY <1>2, <1>5 DEF FinishPass, Yields
<1>8. Sound(s, q, q.shut) /\ Busy(s, q)
  BY <1>2, <1>6 DEF Keeps, Follows
<1>9. Fine(s, q, o)
  BY <1>1, <1>8, DrainedFine
<1>10. Fine(s, ws[s], o)
  BY <1>2, <1>6, <1>9, FineAfter
<1>11. Fine(s, ws[s], Out(AutoPinged(o.r), o.out))
  <2>1. PICK t, out, m : t = o.r /\ out = o.out /\ m = ws[s].shut + Closes(o.out)
    OBVIOUS
  <2>2. Keeps(s, ws[s], m, t) /\ out \in Seq(Frame)
    BY <1>10, <2>1 DEF Fine
  <2>3. Keeps(s, t, m, AutoPinged(t))
    BY <1>1, <2>2, AutoPingedKeeps DEF Keeps
  <2>4. Keeps(s, ws[s], m, AutoPinged(t))
    BY <2>2, <2>3, KeepsComposes
  <2> QED BY <2>1, <2>2, <2>4 DEF Fine, Out
<1> QED BY <1>1, <1>7, <1>10, <1>11, PassYield

LEMMA FeedStep ==
  ASSUME IInv, NEW s \in Live, Feed(s)
  PROVE  IInv'
<1>1. /\ s \in Sessions /\ ws[s] \in Session /\ Room(s) \in Int /\ Passing(s)
      /\ Sound(s, ws[s], ws[s].shut) /\ Busy(s, ws[s]) /\ ws[s].pc = "feed"
      /\ ws[s].state # "connecting"
  BY SoundHere, InPassPasses DEF Feed, Passing, Sound, Placed
<1>2. PICK b, c, n : n = ws[s].shut /\ b = ws[s].back /\ c = ws[s].carry
  OBVIOUS
<1>3. b \in {None, "feed", "read"} /\ c \in Seq(Frame)
  BY <1>1, <1>2, PlaceFields
<1>4. CASE c = <<>>
  <2>1. Yield(s, Out([ws[s] EXCEPT !.pc = "idle"], <<>>))
    BY <1>2, <1>4 DEF Feed, Yields, Only
  <2>2. [ws[s] EXCEPT !.pc = "idle"] = At(ws[s], "idle", b, c)
    BY <1>1, <1>2, PlaceFields
  <2>3. Keeps(s, ws[s], n, At(ws[s], "idle", b, c))
    BY <1>1, <1>2, <1>3, PlaceKeeps
  <2>4. Fine(s, ws[s], Out([ws[s] EXCEPT !.pc = "idle"], <<>>))
    BY <1>1, <1>2, <2>2, <2>3, OnlyFine
  <2> QED BY <1>1, <2>1, <2>4, PassYield
<1>5. CASE c # <<>>
  <2>1. PICK r, f, rest : r = [ws[s] EXCEPT !.carry = rest] /\ f = Head(c) /\ rest = Tail(c)
    OBVIOUS
  <2>2. f \in Frame /\ rest \in Seq(Frame)
    BY <1>3, <1>5, <2>1, HeadTailProperties
  <2>3. r = At(ws[s], "feed", b, rest)
    BY ZenonT(60), <1>1, <1>2, <2>1, PlaceFields
  <2>4. Keeps(s, ws[s], n, r) /\ r.pc = "feed"
    BY <1>1, <1>2, <1>3, <2>2, <2>3, PlaceKeeps
  <2>5. PICK o \in Dispatch(s, r, f) : Yield(s, Out(Settle(o.r), o.out))
    BY <1>2, <1>5, <2>1 DEF Feed, Yields
  <2>6. Sound(s, r, r.shut) /\ Busy(s, r)
    BY <1>2, <2>4 DEF Keeps, Follows
  <2>7. Fine(s, r, o)
    BY <1>1, <2>2, <2>4, <2>5, <2>6, DispatchFine
  <2>8. Fine(s, ws[s], o)
    BY <1>2, <2>4, <2>7, FineAfter
  <2>9. Fine(s, ws[s], Out(Settle(o.r), o.out))
    <3>1. PICK t, out, m : t = o.r /\ out = o.out /\ m = ws[s].shut + Closes(o.out)
      OBVIOUS
    <3>2. Keeps(s, ws[s], m, t) /\ out \in Seq(Frame)
      BY <2>8, <3>1 DEF Fine
    <3>3. Keeps(s, t, m, Settle(t))
      BY <1>1, <3>2, SettleKeeps DEF Keeps
    <3>4. Keeps(s, ws[s], m, Settle(t))
      BY <3>2, <3>3, KeepsComposes
    <3> QED BY <3>1, <3>2, <3>4 DEF Fine, Out
  <2> QED BY <1>1, <2>5, <2>9, PassYield
<1> QED BY <1>4, <1>5

LEMMA CallbackReturnsStep ==
  ASSUME IInv, NEW s \in Live, CallbackReturns(s)
  PROVE  IInv'
<1>1. /\ s \in Sessions /\ ws[s] \in Session /\ Passing(s)
      /\ Sound(s, ws[s], ws[s].shut) /\ Busy(s, ws[s])
      /\ ws[s].pc # "idle" /\ ws[s].state # "connecting" /\ ws[s].back \in {"feed", "read"}
  BY SoundHere, InPassPasses DEF CallbackReturns, Passing, Sound, Placed
<1>2. PICK r, p, c, n : /\ r = [ws[s] EXCEPT !.pc = p, !.back = None] /\ n = ws[s].shut
                        /\ p = ws[s].back /\ c = ws[s].carry
  OBVIOUS
<1>3. r = At(ws[s], p, None, c) /\ c \in Seq(Frame) /\ p \in {"feed", "read"}
  BY <1>1, <1>2, PlaceFields
<1>4. Keeps(s, ws[s], n, r)
  BY <1>1, <1>2, <1>3, PlaceKeeps
<1>5. Keeps(s, ws[s], n, Settle(r))
  <2>1. Keeps(s, r, n, Settle(r))
    BY <1>1, <1>4, SettleKeeps DEF Keeps
  <2> QED BY <1>4, <2>1, KeepsComposes
<1>6. PICK t \in {r, Settle(r)} : Yield(s, Out(t, <<>>))
  BY <1>2 DEF CallbackReturns, Yields, Only
<1>7. Fine(s, ws[s], Out(t, <<>>))
  BY <1>1, <1>2, <1>4, <1>5, <1>6, OnlyFine
<1> QED BY <1>1, <1>6, <1>7, PassYield

LEMMA OnConnectionRaisesStep ==
  ASSUME IInv, NEW s \in Live, OnConnectionRaises(s)
  PROVE  IInv'
<1>1. /\ s \in Sessions /\ ws[s] \in Session /\ Passing(s)
      /\ Sound(s, ws[s], ws[s].shut) /\ Busy(s, ws[s])
  BY SoundHere, InPassPasses DEF OnConnectionRaises, Passing
<1>2. PICK f, n, c : f = FailWithError(s, ws[s]) /\ n = ws[s].shut /\ c = <<>>
  OBVIOUS
<1>3. Keeps(s, ws[s], n, f) /\ f \in Session
  BY <1>1, <1>2, FailWithErrorKeeps DEF Keeps, Sound
<1>4. c \in Seq(Frame)
  BY <1>2
<1>5. Yield(s, Out(At(f, "idle", None, c), <<>>))
  BY <1>2 DEF OnConnectionRaises, Yields, Only, At
<1>6. Keeps(s, f, n, At(f, "idle", None, c))
  BY <1>1, <1>3, <1>4, PlaceKeeps DEF Keeps
<1>7. Fine(s, ws[s], Out(At(f, "idle", None, c), <<>>))
  BY <1>1, <1>2, <1>3, <1>6, KeepsComposes, OnlyFine
<1> QED BY <1>1, <1>5, <1>7, PassYield

-----------------------------------------------------------------------------
(* The application.                                                         *)

(* Code of the application runs for a session that is not in the table, or  *)
(* for one that is.                                                         *)
LEMMA OpenPasses ==
  ASSUME IInv, NEW s \in Live, ws[s].state \in {"open", "closing"}
  PROVE  Passing(s)
<1>1. Sound(s, ws[s], ws[s].shut)
  BY DEF IInv
<1>2. Busy(s, ws[s])
  BY <1>1 DEF Sound, Fresh, Linked, Busy
<1> QED BY <1>2 DEF Passing, IInv, Table

LEMMA SendStep ==
  ASSUME IInv, NEW s \in Live,
         NEW op \in {"data", "ping"}, NEW k \in Nat, NEW t,
         ws[s].state = "open", UserRoom(ws[s]),
         LET r == ws[s]  longer == Append(r.tx, Plain(op, k)) IN
           \/ t = [r EXCEPT !.tx = longer, !.sends = @ + 1]
           \/ t = [r EXCEPT !.tx = longer]
  PROVE  Keeps(s, ws[s], ws[s].shut, t) /\ t.state = "open"
<1>1. PICK r, f : r = ws[s] /\ f = Plain(op, k)
  OBVIOUS
<1>2. /\ s \in Sessions /\ r \in Session /\ Sound(s, r, r.shut) /\ Busy(s, r)
      /\ f \in Frame /\ f.op \in {"data", "ping"}
  BY <1>1, SoundHere, OpenPasses, FramesMade DEF Passing
<1>3. PICK longer : longer = Append(r.tx, f)
  OBVIOUS
<1>4. longer \in Seq(Frame) /\ Len(longer) = Len(r.tx) + 1 /\ Len(r.tx) \in Nat
  BY <1>2, <1>3, AppendProperties, LenProperties DEF Session
<1>5. t = [r EXCEPT !.tx = longer, !.sends = @ + 1] \/ t = [r EXCEPT !.tx = longer]
  BY <1>1, <1>3
<1>6. /\ t.state = r.state /\ t.phase = r.phase /\ t.called = r.called /\ t.link = r.link
      /\ t.tx = longer /\ t.part = r.part /\ t.code = r.code /\ t.told = r.told
      /\ t.refused = r.refused /\ t.shut = r.shut /\ t.armed = r.armed
      /\ t.pc = r.pc /\ t.back = r.back
  BY ZenonT(60), <1>2, <1>5 DEF Session
<1>7. t \in Session
  <2>1. PICK m \in Nat : m = r.sends + 1
    BY <1>2 DEF Session
  <2>2. [r EXCEPT !.tx = longer, !.sends = m] \in Session
    BY <1>2, <1>4 DEF Session
  <2>3. [r EXCEPT !.tx = longer] \in Session
    BY <1>2, <1>4 DEF Session
  <2> QED BY <1>5, <2>1, <2>2, <2>3
<1>8. Len(longer) < HardCap /\ Len(longer) <= HardCap
  <2>1. HardCap \in Nat /\ Len(r.tx) < MaxTx /\ MaxTx + 1 <= HardCap /\ MaxTx \in Nat
    BY <1>1, SessionAssumption DEF HardCap, UserRoom
  <2> QED BY <1>4, <2>1
<1>9. r.state = "open" /\ r.shut = 0 /\ ~Has(Pending(r), "close") /\ Ordered(Pending(r))
  BY <1>1, <1>2 DEF Sound, Queued
<1>10. Pending(t) = Append(Pending(r), f)
  BY <1>2, <1>3, <1>6, PendingAppend
<1>11. /\ Ordered(Pending(t)) /\ ~Has(Pending(t), "close")
  <2>1. PICK q : q = Pending(r)
    OBVIOUS
  <2>2. q \in Seq(Frame) /\ Ordered(q) /\ ~Has(q, "close") /\ Pending(t) = Append(q, f)
    BY <1>2, <1>9, <1>10, <2>1, PendingType
  <2> QED BY <1>2, <2>2, AppendFrame
<1>12. Queued(t, r.shut)
  BY <1>6, <1>8, <1>9, <1>11 DEF Queued
<1>13. Timed(s, t) /\ Linked(s, t) /\ Placed(t)
  BY <1>2, <1>6 DEF Sound, Timed, Linked, Placed
<1>14. Fresh(s, t, r.shut) /\ Busy(s, t) /\ Follows(r, t) /\ (Told(r) => Told(t))
  BY <1>2, <1>6 DEF Fresh, Busy, Follows, Told
<1> QED BY <1>1, <1>6, <1>7, <1>9, <1>12, <1>13, <1>14 DEF Keeps, Sound

LEMMA SendTextStep ==
  ASSUME IInv, NEW s \in Live, Send(s)
  PROVE  IInv'
<1>1. PICK k, t : /\ k = ws[s].sends + 1
                  /\ t = [ws[s] EXCEPT !.tx = Append(@, Plain("data", k)), !.sends = @ + 1]
  OBVIOUS
<1>2. k \in Nat /\ ws[s].state = "open" /\ UserRoom(ws[s])
  BY <1>1, SoundHere DEF Send, Session
<1>3. Keeps(s, ws[s], ws[s].shut, t)
  BY <1>1, <1>2, SendStep
<1>4. Yield(s, Out(t, <<>>))
  BY <1>1 DEF Send, Yields, Only
<1> QED BY <1>2, <1>3, <1>4, OpenPasses, SoundHere, OnlyFine, PassYield

LEMMA SendPingStep ==
  ASSUME IInv, NEW s \in Live, SendPing(s)
  PROVE  IInv'
<1>1. PICK t : t = [ws[s] EXCEPT !.tx = Append(@, Plain("ping", 0))]
  OBVIOUS
<1>2. ws[s].state = "open" /\ UserRoom(ws[s])
  BY DEF SendPing
<1>3. Keeps(s, ws[s], ws[s].shut, t) /\ t.state = "open"
  BY <1>1, <1>2, SendStep
<1>4. Keeps(s, t, ws[s].shut, ArmPong(t))
  BY <1>3, SoundHere, ArmPongKeeps DEF Keeps
<1>5. Keeps(s, ws[s], ws[s].shut, ArmPong(t))
  BY <1>3, <1>4, KeepsComposes
<1>6. Yield(s, Out(ArmPong(t), <<>>))
  BY <1>1 DEF SendPing, Yields, Only
<1> QED BY <1>2, <1>5, <1>6, OpenPasses, SoundHere, OnlyFine, PassYield

(* A client that is not in a pass: connect(), and close() before it.        *)
LEMMA AloneYield ==
  ASSUME IInv, NEW s \in Clients \cap Live, NEW t, t \in Session,
         Sound(s, t, t.shut), Told(t), t.link = "none" <=> ws[s].link = "none",
         Yield(s, Out(t, <<>>))
  PROVE  IInv'
<1>1. t.shut + 0 = t.shut /\ <<>> \in Seq(Frame) /\ s \notin Conns
  BY SessionAssumption DEF Session
<1>2. Ready(s, Out(t, <<>>))
  BY <1>1, NoCloses DEF Ready, Out
<1>3. wire[s] \in Seq(Frame)
  BY SoundHere
<1> QED BY <1>2, <1>3, YieldKeeps DEF Yield

LEMMA ConnectRaisesStep ==
  ASSUME IInv, NEW s \in Live, ConnectRaises(s)
  PROVE  IInv'
<1> DEFINE r == ws[s]
           t == [r EXCEPT !.called = TRUE]
<1>0. /\ s \in Sessions /\ r \in Session /\ Sound(s, r, r.shut) /\ Told(r) /\ s \in Clients
  BY SoundHere DEF ConnectRaises
<1>1. /\ t.state = r.state /\ t.phase = r.phase /\ t.called /\ t.link = r.link
      /\ t.tx = r.tx /\ t.part = r.part /\ t.code = r.code /\ t.told = r.told
      /\ t.refused = r.refused /\ t.shut = r.shut /\ t.armed = r.armed
      /\ t.pc = r.pc /\ t.back = r.back
  BY <1>0 DEF Session
<1>2. t \in Session
  BY <1>0 DEF Session
<1>3. Yield(s, Out(t, <<>>))
  BY DEF ConnectRaises, Yields, Only
<1> HIDE DEF t
<1>4. Timed(s, t) /\ Linked(s, t) /\ Placed(t)
  BY <1>0, <1>1 DEF Sound, Timed, Linked, Placed
<1>5. Queued(t, t.shut)
  BY <1>0, <1>1, QueuedKept DEF Sound
<1>6. Fresh(s, t, t.shut) /\ Told(t)
  BY <1>0, <1>1 DEF Fresh, Told
<1> QED BY <1>0, <1>1, <1>2, <1>3, <1>4, <1>5, <1>6, AloneYield DEF Sound

LEMMA ConnectStep ==
  ASSUME IInv, NEW s \in Live, Connect(s)
  PROVE  IInv'
<1>0. /\ s \in Sessions /\ ws[s] \in Session /\ Sound(s, ws[s], ws[s].shut)
      /\ Told(ws[s]) /\ s \in Clients /\ ~ws[s].called
  BY SoundHere DEF Connect
<1>1. PICK r, a : r = ws[s] /\ a = ws[s].armed \cup {"handshake"}
  OBVIOUS
<1>2. PICK t : t = [r EXCEPT !.called = TRUE, !.state = "connecting",
                             !.phase = "awaiting", !.armed = a, !.told = FALSE]
  OBVIOUS
<1>3. a = {"handshake"} /\ r.link = "none" /\ r.pc = "idle" /\ r.tx = <<>> /\ r.part = None
      /\ r.shut = 0
  BY <1>0, <1>1 DEF Sound, Fresh
<1>4. /\ t.state = "connecting" /\ t.phase = "awaiting" /\ t.called /\ t.link = r.link
      /\ t.tx = r.tx /\ t.part = r.part /\ t.code = r.code /\ ~t.told
      /\ t.refused = r.refused /\ t.shut = r.shut /\ t.armed = a
      /\ t.pc = r.pc /\ t.back = r.back
  BY <1>0, <1>1, <1>2 DEF Session
<1>5. t \in Session
  <2>1. a \in SUBSET {"handshake", "close", "pong", "auto"} /\ r \in Session
    BY <1>0, <1>1, <1>3
  <2> QED BY <1>2, <2>1 DEF Session
<1>6. Yield(s, Out(t, <<>>))
  BY <1>1, <1>2 DEF Connect, Yields, Only
<1>7. Timed(s, t) /\ Linked(s, t) /\ Placed(t)
  BY <1>0, <1>3, <1>4, SessionAssumption DEF Timed, Linked, Placed
<1>8. Queued(t, t.shut)
  <2>1. Pending(t) = <<>> \o <<>>
    BY <1>3, <1>4 DEF Pending
  <2>2. Pending(t) = <<>>
    BY <2>1
  <2>3. /\ Len(<<>>) = 0 /\ HardCap \in Nat \ {0} /\ ~Has(<<>>, "close")
        /\ ~Has(<<>>, "data") /\ Ordered(<<>>)
    BY SessionAssumption DEF HardCap, Has, Ordered
  <2> QED BY <1>3, <1>4, <2>2, <2>3 DEF Queued
<1>9. Fresh(s, t, t.shut) /\ Told(t)
  BY <1>3, <1>4 DEF Fresh, Told
<1> QED BY <1>0, <1>1, <1>4, <1>5, <1>6, <1>7, <1>8, <1>9, AloneYield DEF Sound

(* close(): a client that is still connecting lets go.                      *)
LEMMA CloseEarly ==
  ASSUME IInv, NEW s \in Clients \cap Live, ws[s].state = "connecting", NEW code \in Codes,
         NEW t, t = Finalized(s, [ws[s] EXCEPT !.code = IF @ = None THEN code ELSE @]),
         Yield(s, Out(t, <<>>))
  PROVE  IInv'
<1>0. /\ s \in Sessions /\ ws[s] \in Session /\ Sound(s, ws[s], ws[s].shut)
  BY SoundHere
<1>1. PICK r, c, q : /\ r = ws[s] /\ c = IF ws[s].code = None THEN code ELSE ws[s].code
                     /\ q = [ws[s] EXCEPT !.code = c]
  OBVIOUS
<1>2. /\ c \in CloseCodes \cup {"internal"} /\ c # None
      /\ t = Finalized(s, q)
  BY <1>0, <1>1, SessionAssumption DEF Session, CloseCodes
<1>3. /\ q.state = r.state /\ q.phase = r.phase /\ q.called = r.called /\ q.link = r.link
      /\ q.tx = r.tx /\ q.part = r.part /\ q.code = c /\ q.told = r.told
      /\ q.refused = r.refused /\ q.shut = r.shut /\ q.armed = r.armed
      /\ q.pc = r.pc /\ q.back = r.back
  BY <1>0, <1>1 DEF Session
<1>10. q \in Session
  <2>1. q = [r EXCEPT !.code = c] /\ r \in Session
    BY <1>0, <1>1
  <2> QED BY ZenonT(60), <1>2, <2>1 DEF Session, CloseCodes
<1>4. /\ t \in Session /\ t.state = "closed" /\ t.told
      /\ t.tx = q.tx /\ t.part = q.part /\ t.pc = q.pc /\ t.back = q.back
      /\ t.shut = q.shut /\ t.called = q.called /\ t.code = q.code
      /\ t.link = IF q.link = "none" THEN "none" ELSE "closed"
      /\ t.armed = {} /\ t.phase = None
  <2>1. s \in Sessions /\ s \in Clients /\ q \in Session
    BY <1>0, <1>10
  <2> DEFINE e == Finalized(s, q)
  <2>2. /\ e \in Session /\ e.state = "closed" /\ e.told
        /\ e.tx = q.tx /\ e.part = q.part /\ e.pc = q.pc /\ e.back = q.back
        /\ e.shut = q.shut /\ e.called = q.called /\ e.code = q.code
        /\ e.link = IF q.link = "none" THEN "none" ELSE "closed"
        /\ s \in Clients => e.armed = {} /\ e.phase = None
    BY <2>1, FinalizedFields
  <2>3. t = e
    BY <1>2
  <2> HIDE DEF e
  <2> QED BY <2>1, <2>2, <2>3
<1>5. Timed(s, t) /\ Placed(t) /\ Told(t)
  BY <1>0, <1>1, <1>3, <1>4, SessionAssumption DEF Sound, Timed, Placed, Told
<1>6. Linked(s, t)
  BY <1>0, <1>4, SessionAssumption DEF Linked
<1>7. Queued(t, t.shut)
  BY <1>0, <1>1, <1>3, <1>4, QueuedKept DEF Sound
<1>8. Fresh(s, t, t.shut)
  BY <1>0, <1>1, <1>2, <1>3, <1>4 DEF Sound, Fresh
<1>9. t.link = "none" <=> ws[s].link = "none"
  BY <1>1, <1>3, <1>4
<1> QED BY <1>4, <1>5, <1>6, <1>7, <1>8, <1>9, AloneYield DEF Sound

LEMMA CloseStep ==
  ASSUME IInv, NEW s \in Live, NEW code \in Codes, Close(s, code)
  PROVE  IInv'
<1>0. /\ s \in Sessions /\ ws[s] \in Session /\ Sound(s, ws[s], ws[s].shut)
      /\ ws[s].state \in {"connecting", "open"} /\ code \in CloseCodes
  BY SoundHere DEF Close, CloseCodes
<1>1. CASE s \in Clients /\ ws[s].state = "connecting"
  <2>1. Yield(s, Out(Finalized(s, [ws[s] EXCEPT !.code = IF @ = None THEN code ELSE @]), <<>>))
    BY <1>1 DEF Close, Yields, Only, Finalized
  <2> QED BY <1>1, <2>1, CloseEarly
<1>2. CASE ~(s \in Clients /\ ws[s].state = "connecting")
  <2>1. Passing(s)
    <3>1. CASE s \in Clients
      BY <1>0, <1>2, <3>1, OpenPasses
    <3>2. CASE s \in Conns
      <4>1. s \in server.conns /\ s \notin Clients
        BY <3>2, SessionAssumption DEF Close
      <4> QED BY <3>2, <4>1 DEF Passing, Busy, IInv, Table
    <3> QED BY <1>0, <3>1, <3>2 DEF Sessions
  <2>2. PICK c : c = SendClose(ws[s], code)
    OBVIOUS
  <2>3. Keeps(s, ws[s], ws[s].shut, c)
    BY <1>0, <1>2, <2>1, <2>2, SendCloseKeeps DEF Passing
  <2>4. Keeps(s, ws[s], ws[s].shut, [c EXCEPT !.garbled = FALSE])
    <3> DEFINE t == [c EXCEPT !.garbled = FALSE]
    <3>1. c \in Session /\ Placed(c) /\ Sound(s, c, ws[s].shut) /\ Busy(s, c)
      BY <2>3 DEF Keeps, Sound
    <3>2. /\ t.state = c.state /\ t.phase = c.phase /\ t.called = c.called
          /\ t.link = c.link /\ t.tx = c.tx /\ t.part = c.part /\ t.code = c.code
          /\ t.told = c.told /\ t.refused = c.refused /\ t.shut = c.shut
          /\ t.armed = c.armed /\ t.pc = c.pc /\ t.back = c.back
      BY <3>1 DEF Session
    <3>3. t \in Session
      BY <3>1 DEF Session
    <3> HIDE DEF t
    <3>4. Placed(t)
      BY <3>1, <3>2 DEF Placed
    <3>5. Keeps(s, c, ws[s].shut, t)
      BY <1>0, <3>1, <3>2, <3>3, <3>4, OtherFieldsKeep
    <3> QED BY <2>3, <3>5, KeepsComposes DEF t
  <2>5. PICK t \in {c, [c EXCEPT !.garbled = FALSE]} : Yield(s, Out(t, <<>>))
    BY <1>2, <2>2 DEF Close, Yields, Only
  <2>6. Fine(s, ws[s], Out(t, <<>>))
    BY <1>0, <2>3, <2>4, <2>5, OnlyFine
  <2> QED BY <2>1, <2>5, <2>6, PassYield
<1> QED BY <1>1, <1>2

-----------------------------------------------------------------------------
(* Steps that are not of one session.                                       *)

(* A session that gains its transport.                                      *)
Up(x, p) == [x EXCEPT !.link = "up", !.phase = p]

LEMMA LinkedUp ==
  ASSUME NEW s \in Sessions, NEW x \in Session, Sound(s, x, x.shut), Told(x),
         x.link = "none", x.state = "connecting", s \in Clients => x.called,
         NEW p \in {x.phase, "sending"}, p = "sending" => "handshake" \in x.armed,
         s \in Clients => p = "sending"
  PROVE  /\ Up(x, p) \in Session /\ Sound(s, Up(x, p), Up(x, p).shut) /\ Told(Up(x, p))
         /\ Up(x, p).state = "connecting" /\ Up(x, p).phase = p
         /\ Up(x, p).link = "up" /\ Up(x, p).pc = x.pc
<1> DEFINE y == Up(x, p)
<1>1. /\ y.state = x.state /\ y.phase = p /\ y.called = x.called /\ y.pc = x.pc
      /\ y.back = x.back /\ y.tx = x.tx /\ y.part = x.part /\ y.armed = x.armed
      /\ y.code = x.code /\ y.told = x.told /\ y.refused = x.refused /\ y.shut = x.shut
      /\ y.link = "up"
  BY DEF Session, Up
<1>2. y \in Session
  BY DEF Session, Up
<1> HIDE DEF y
<1>3. Timed(s, y) /\ Placed(y) /\ Told(y)
  BY <1>1 DEF Sound, Timed, Placed, Told
<1>4. Linked(s, y) /\ Fresh(s, y, y.shut)
  BY <1>1, SessionAssumption DEF Sound, Linked, Fresh
<1>5. Queued(y, y.shut)
  BY <1>1, QueuedKept DEF Sound
<1> QED BY <1>1, <1>2, <1>3, <1>4, <1>5 DEF Sound, y

(* Establishing the invariant after a step, part by part.                   *)
LEMMA Rebuild ==
  ASSUME IInv, UNCHANGED peer, wire' \in [Live -> Seq(Frame)],
         DOMAIN ws' = Live, ws' = [t \in Live |-> ws'[t]],
         \A t \in Live : /\ ws'[t] \in Session
                         /\ Sound(t, ws'[t], (ws'[t]).shut) /\ Told(ws'[t]),
         server' \in [state : {"unbound", "listening", "closed"},
                      conns : SUBSET (Conns \cap Live), backlog : SUBSET (Conns \cap Live)],
         Table', Dialled'
  PROVE  IInv'
<1>1. peer' = peer /\ Live' = Live
  BY DEF Live
<1>2. ws' \in [Live -> Session]
  OBVIOUS
<1>3. WellFormed'
  BY <1>1, <1>2 DEF WellFormed, IInv
<1>4. \A t \in Live' : (Sound(t, ws[t], ws[t].shut) /\ Told(ws[t]))'
  <2>1. ASSUME NEW t \in Live
        PROVE  (Sound(t, ws[t], ws[t].shut) /\ Told(ws[t]))'
    <3>1. Sound(t, ws'[t], (ws'[t]).shut) /\ Told(ws'[t])
      OBVIOUS
    <3> QED BY <3>1
  <2> QED BY <1>1, <2>1
<1> QED BY <1>3, <1>4 DEF IInv

LEMMA UpAlone ==
  ASSUME NEW x \in Session
  PROVE  [x EXCEPT !.link = "up"] = Up(x, x.phase)
BY DEF Session, Up

(* A connection that is dialled: nothing has happened to it before.         *)
LEMMA DialledUp ==
  ASSUME IInv, NEW k \in Conns \cap Live, ws[k].link = "none"
  PROVE  LET z == [ws[k] EXCEPT !.link = "up"] IN
         /\ z \in Session /\ Sound(k, z, z.shut) /\ Told(z)
         /\ z.state = "connecting" /\ z.phase = None /\ z.link = "up"
<1>1. PICK h, f : h = ws[k] /\ f = None
  OBVIOUS
<1>2. /\ k \in Sessions /\ k \notin Clients /\ h \in Session /\ Sound(k, h, h.shut)
      /\ Told(h) /\ h.link = "none" /\ h.state = "connecting" /\ h.phase = f
      /\ f # "sending"
  BY <1>1, SoundHere, SessionAssumption DEF Sound, Linked
<1>3. [h EXCEPT !.link = "up"] = Up(h, f)
  BY <1>2, UpAlone
<1>4. /\ Up(h, f) \in Session /\ Sound(k, Up(h, f), Up(h, f).shut) /\ Told(Up(h, f))
      /\ Up(h, f).state = "connecting" /\ Up(h, f).phase = f /\ Up(h, f).link = "up"
  BY <1>2, LinkedUp
<1> QED BY <1>1, <1>3, <1>4

LEMMA TransportReadyStep ==
  ASSUME IInv, NEW s \in Live, TransportReady(s)
  PROVE  IInv'
<1> DEFINE p == peer[s]
           x == ws[s]
           y == [x EXCEPT !.link = "up", !.phase = "sending"]
<1>1. /\ s \in Clients /\ s \in Sessions /\ x \in Session /\ Sound(s, x, x.shut) /\ Told(x)
      /\ x.called /\ x.state = "connecting" /\ x.phase = "awaiting"
  BY SoundHere DEF TransportReady, Handled
<1>2. "handshake" \in x.armed /\ x.link = "none"
  BY <1>1, SessionAssumption DEF Sound, Timed, Linked
<1>3. y \in Session /\ Sound(s, y, y.shut) /\ Told(y) /\ y.link = "up"
  <2>1. PICK h, f : h = x /\ f = "sending"
    OBVIOUS
  <2>2. y = Up(h, f)
    BY <2>1 DEF Up
  <2> HIDE DEF x, y
  <2>3. /\ Up(h, f) \in Session /\ Sound(s, Up(h, f), Up(h, f).shut) /\ Told(Up(h, f))
        /\ Up(h, f).link = "up"
    BY <1>1, <1>2, <2>1, LinkedUp
  <2> QED BY <2>2, <2>3
<1>4. p # None => /\ p \in Conns \cap Live /\ p \notin Clients /\ p \in Sessions
                  /\ peer[p] = s /\ p # s
  BY <1>1, Pairs, SessionAssumption DEF IInv
<1>5. p # None => ws[p].link = "none"
  BY <1>1, <1>2 DEF IInv, Dialled
<1>6. p # None =>
        LET z == [ws[p] EXCEPT !.link = "up"] IN
        /\ z \in Session /\ Sound(p, z, z.shut) /\ Told(z)
        /\ z.state = "connecting" /\ z.phase = None /\ z.link = "up"
  BY <1>4, <1>5, DialledUp
<1>7. /\ ws' = [t \in Live |-> IF t = s THEN y
                               ELSE IF t = p THEN [ws[t] EXCEPT !.link = "up"] ELSE ws[t]]
      /\ server' = [server EXCEPT !.backlog = @ \cup ({p} \ {None})]
      /\ UNCHANGED <<wire, peer>> /\ Live' = Live
  BY DEF TransportReady, Live
<1> HIDE DEF y
<1>8. \A t \in Live : /\ ws'[t] \in Session
                      /\ Sound(t, ws'[t], (ws'[t]).shut) /\ Told(ws'[t])
  <2>1. TAKE t \in Live
  <2>2. CASE t = s
    BY <1>3, <1>7, <2>2
  <2>3. CASE t # s /\ t = p
    <3>1. p # None
      BY <2>3, Pairs, SessionAssumption DEF IInv
    <3> QED BY <1>6, <1>7, <2>3, <3>1
  <2>4. CASE t # s /\ t # p
    BY <1>7, <2>4, SoundHere
  <2> QED BY <2>2, <2>3, <2>4
<1>9. /\ server'.conns = server.conns /\ server'.state = server.state
      /\ server'.backlog = server.backlog \cup ({p} \ {None})
      /\ server' \in [state : {"unbound", "listening", "closed"},
                      conns : SUBSET (Conns \cap Live), backlog : SUBSET (Conns \cap Live)]
  BY <1>4, <1>7 DEF IInv, WellFormed
<1>10. Table'
  <2>1. \A k \in Conns \cap Live : k # p => ws'[k] = ws[k]
    BY <1>1, <1>7, SessionAssumption
  <2>2. p # None => /\ (ws'[p]).state = "connecting" /\ (ws'[p]).phase = None
                    /\ (ws'[p]).link = "up" /\ p \notin server.conns
    BY <1>4, <1>5, <1>6, <1>7 DEF IInv, Table
  <2>3. server'.conns \cap server'.backlog = {}
    BY <1>9, <2>2 DEF IInv, Table
  <2>4. \A k \in Conns \cap Live : k = p => p # None
    BY Pairs, SessionAssumption DEF IInv
  <2>5. \A k \in Conns \cap Live : k # p =>
          (k \in server'.backlog <=> k \in server.backlog)
    BY <1>9
  <2>6. \A k \in Conns \cap Live :
          /\ (ws'[k]).state # "closed"
               /\ ((ws'[k]).state # "connecting" \/ (ws'[k]).phase # None) =>
               k \in server'.conns
          /\ k \in server'.conns /\ (ws'[k]).state = "closed" => (ws'[k]).pc # "idle"
          /\ k \in server'.conns \cup server'.backlog => (ws'[k]).link # "none"
          /\ k \in server'.backlog => (ws'[k]).state = "connecting"
    <3>1. TAKE k \in Conns \cap Live
    <3>2. CASE k = p
      BY <2>2, <2>4, <3>2, <1>9
    <3>3. CASE k # p
      BY <1>9, <2>1, <2>5, <3>3 DEF IInv, Table
    <3> QED BY <3>2, <3>3
  <2> QED BY <1>7, <1>9, <2>3, <2>6 DEF Table, IInv
<1>11. Dialled'
  <2>1. SUFFICES ASSUME NEW t \in Clients \cap Live, peer[t] # None, (ws'[t]).link = "none"
                 PROVE  (ws'[peer[t]]).link = "none"
    BY <1>7 DEF Dialled
  <2>2. t # s
    BY <1>3, <1>7, <2>1
  <2>3. peer[t] \in Conns \cap Live /\ peer[peer[t]] = t
    BY <2>1, Pairs DEF IInv
  <2>4. peer[t] # p /\ t # p /\ peer[t] # s
    BY <1>1, <1>4, <2>2, <2>3, Pairs, SessionAssumption DEF IInv
  <2>5. ws'[t] = ws[t] /\ ws'[peer[t]] = ws[peer[t]]
    BY <1>7, <2>2, <2>3, <2>4
  <2> QED BY <2>1, <2>5 DEF IInv, Dialled
<1>12. wire' \in [Live -> Seq(Frame)]
  BY <1>7 DEF IInv, WellFormed
<1> QED BY <1>7, <1>8, <1>9, <1>10, <1>11, <1>12, Rebuild

(* Sessions that may lose their transports, and nothing else.               *)
LEMMA RelinkStep ==
  ASSUME IInv, UNCHANGED <<server, peer>>, wire' \in [Live -> Seq(Frame)],
         DOMAIN ws' = Live, ws' = [t \in Live |-> ws'[t]],
         \A t \in Live : Relinked(ws[t], ws'[t])
  PROVE  IInv'
<1>1. \A t \in Live : /\ ws'[t] \in Session
                      /\ Sound(t, ws'[t], (ws'[t]).shut) /\ Told(ws'[t])
  <2>1. TAKE t \in Live
  <2>2. Relinked(ws[t], ws'[t]) /\ Sound(t, ws[t], ws[t].shut) /\ Told(ws[t])
    BY SoundHere
  <2>3. Sound(t, ws'[t], (ws'[t]).shut) /\ Told(ws'[t])
    BY <2>2, RelinkedSound
  <2> QED BY <2>2, <2>3 DEF Relinked
<1>2. \A t \in Live : /\ (ws'[t]).state = ws[t].state /\ (ws'[t]).phase = ws[t].phase
                      /\ (ws'[t]).pc = ws[t].pc
                      /\ (ws'[t]).link = "none" <=> ws[t].link = "none"
  BY DEF Relinked
<1>3. Live' = Live
  BY DEF Live
<1>4. Table'
  BY <1>2, <1>3 DEF Table, IInv
<1>5. Dialled'
  <2>1. \A t \in Clients \cap Live : peer[t] # None => peer[t] \in Live
    BY Pairs DEF IInv
  <2> QED BY <1>2, <1>3, <2>1 DEF Dialled, IInv
<1>6. server' \in [state : {"unbound", "listening", "closed"},
                   conns : SUBSET (Conns \cap Live), backlog : SUBSET (Conns \cap Live)]
  BY DEF IInv, WellFormed
<1> QED BY <1>1, <1>4, <1>5, <1>6, Rebuild

LEMMA LinkBreaksStep ==
  ASSUME IInv, NEW s \in Live, LinkBreaks(s)
  PROVE  IInv'
<1>1. PICK l \in {"eof", "reset", "dead"} :
        /\ ws' = [t \in Live |-> IF t = s THEN [ws[s] EXCEPT !.link = l]
                               ELSE IF t = peer[s] /\ ws[t].link = "up"
                               THEN [ws[t] EXCEPT !.link = l] ELSE ws[t]]
        /\ wire' = IF l = "eof" THEN wire ELSE [wire EXCEPT ![s] = <<>>]
  BY DEF LinkBreaks
<1>2. ws[s].link = "up"
  BY DEF LinkBreaks
<1>3. \A t \in Live : Relinked(ws[t], ws'[t])
  <2>1. TAKE t \in Live
  <2>2. ws[t] \in Session /\ (ws[t].link = "up" => ws[t].state # "closed")
    BY SoundHere DEF Sound, Linked
  <2>3. ws'[t] = ws[t] \/ (ws[t].link = "up" /\ ws'[t] = [ws[t] EXCEPT !.link = l])
    BY <1>1, <1>2
  <2>4. Relinked(ws[t], ws[t])
    BY <2>2 DEF Relinked
  <2> QED BY <2>2, <2>3, <2>4, LinkChange
<1>4. wire' \in [Live -> Seq(Frame)]
  <2>1. wire \in [Live -> Seq(Frame)] /\ <<>> \in Seq(Frame)
    BY DEF IInv, WellFormed
  <2> QED BY <1>1, <2>1
<1>5. UNCHANGED <<server, peer>> /\ DOMAIN ws' = Live /\ ws' = [t \in Live |-> ws'[t]]
  BY <1>1 DEF LinkBreaks
<1> QED BY <1>3, <1>4, <1>5, RelinkStep

LEMMA ForeignDialsStep ==
  ASSUME IInv, NEW k \in Live, ForeignDials(k)
  PROVE  IInv'
<1> DEFINE z == [ws[k] EXCEPT !.link = "up"]
<1>1. k \in Conns \cap Live /\ peer[k] = None /\ ws[k].link = "none"
  BY DEF ForeignDials
<1>2. /\ z \in Session /\ Sound(k, z, z.shut) /\ Told(z)
      /\ z.state = "connecting" /\ z.phase = None /\ z.link = "up"
  BY <1>1, DialledUp
<1>3. /\ ws' = [ws EXCEPT ![k] = z] /\ UNCHANGED <<wire, peer>>
      /\ server' = [server EXCEPT !.backlog = @ \cup {k}] /\ Live' = Live
  BY DEF ForeignDials, Live
<1> HIDE DEF z
<1>4. /\ DOMAIN ws' = Live /\ ws' = [t \in Live |-> ws'[t]]
      /\ ws'[k] = z /\ \A t \in Live \ {k} : ws'[t] = ws[t]
  BY <1>3 DEF IInv, WellFormed
<1>5. \A t \in Live : /\ ws'[t] \in Session
                      /\ Sound(t, ws'[t], (ws'[t]).shut) /\ Told(ws'[t])
  <2>1. TAKE t \in Live
  <2>2. CASE t = k
    BY <1>2, <1>4, <2>2
  <2>3. CASE t # k
    BY <1>4, <2>3, SoundHere
  <2> QED BY <2>2, <2>3
<1>6. /\ server'.conns = server.conns /\ server'.state = server.state
      /\ server'.backlog = server.backlog \cup {k}
      /\ server' \in [state : {"unbound", "listening", "closed"},
                      conns : SUBSET (Conns \cap Live), backlog : SUBSET (Conns \cap Live)]
  BY <1>1, <1>3 DEF IInv, WellFormed
<1>7. Table'
  <2>1. k \notin server.conns
    BY <1>1 DEF IInv, Table
  <2>2. server'.conns \cap server'.backlog = {}
    BY <1>6, <2>1 DEF IInv, Table
  <2>3. \A t \in Conns \cap Live :
          /\ (ws'[t]).state # "closed"
               /\ ((ws'[t]).state # "connecting" \/ (ws'[t]).phase # None) =>
               t \in server'.conns
          /\ t \in server'.conns /\ (ws'[t]).state = "closed" => (ws'[t]).pc # "idle"
          /\ t \in server'.conns \cup server'.backlog => (ws'[t]).link # "none"
          /\ t \in server'.backlog => (ws'[t]).state = "connecting"
    <3>1. TAKE t \in Conns \cap Live
    <3>2. CASE t = k
      BY <1>2, <1>4, <3>2
    <3>3. CASE t # k
      BY <1>4, <1>6, <3>3 DEF IInv, Table
    <3> QED BY <3>2, <3>3
  <2> QED BY <1>3, <1>6, <2>2, <2>3 DEF Table, IInv
<1>8. Dialled'
  <2>1. SUFFICES ASSUME NEW t \in Clients \cap Live, peer[t] # None, (ws'[t]).link = "none"
                 PROVE  (ws'[peer[t]]).link = "none"
    BY <1>3 DEF Dialled
  <2>2. t # k /\ peer[t] \in Live /\ peer[t] # k
    BY <1>1, <2>1, Pairs, SessionAssumption DEF IInv
  <2> QED BY <1>4, <2>1, <2>2 DEF IInv, Dialled
<1>9. wire' \in [Live -> Seq(Frame)]
  BY <1>3 DEF IInv, WellFormed
<1> QED BY <1>3, <1>4, <1>5, <1>6, <1>7, <1>8, <1>9, Rebuild

LEMMA ForeignSendsStep ==
  ASSUME IInv, NEW s \in Live, ForeignSends(s)
  PROVE  IInv'
<1>1. PICK f \in ForeignFrames[s] : wire' = [wire EXCEPT ![s] = Append(@, f)]
  BY DEF ForeignSends
<1>2. f \in Frame /\ wire[s] \in Seq(Frame)
  BY SoundHere, SessionAssumption
<1>3. Append(wire[s], f) \in Seq(Frame)
  BY <1>2, AppendProperties
<1>4. wire' \in [Live -> Seq(Frame)]
  BY <1>1, <1>3 DEF IInv, WellFormed
<1>5. ws' = ws /\ UNCHANGED <<server, peer>>
  BY DEF ForeignSends
<1>6. \A t \in Live : Relinked(ws[t], ws'[t])
  BY <1>5, SoundHere DEF Relinked
<1>7. DOMAIN ws' = Live /\ ws' = [t \in Live |-> ws'[t]]
  BY <1>5 DEF IInv, WellFormed
<1> QED BY <1>4, <1>5, <1>6, <1>7, RelinkStep

-----------------------------------------------------------------------------
(* The server.                                                              *)

LEMMA BindStep ==
  ASSUME IInv, Bind
  PROVE  IInv'
<1>1. UNCHANGED <<ws, wire, peer>> /\ Live' = Live
  BY DEF Bind, Live
<1>2. /\ server'.conns = server.conns /\ server'.backlog = server.backlog
      /\ server' \in [state : {"unbound", "listening", "closed"},
                      conns : SUBSET (Conns \cap Live), backlog : SUBSET (Conns \cap Live)]
  BY DEF Bind, IInv, WellFormed
<1>3. Table' /\ Dialled'
  BY <1>1, <1>2 DEF Table, Dialled, IInv
<1>4. \A t \in Live : /\ ws'[t] \in Session
                      /\ Sound(t, ws'[t], (ws'[t]).shut) /\ Told(ws'[t])
  BY <1>1, SoundHere
<1>5. /\ wire' \in [Live -> Seq(Frame)] /\ DOMAIN ws' = Live
      /\ ws' = [t \in Live |-> ws'[t]]
  BY <1>1 DEF IInv, WellFormed
<1> QED BY <1>1, <1>2, <1>3, <1>4, <1>5, Rebuild

LEMMA AcceptedSound ==
  ASSUME NEW k \in Conns, NEW x \in Session, Sound(k, x, x.shut), Told(x),
         x.state = "connecting", x.link # "none"
  PROVE  LET y == Accepted(x) IN
         /\ y \in Session /\ Sound(k, y, y.shut) /\ Told(y)
         /\ y.state = "connecting" /\ y.link = x.link
<1> DEFINE y == Accepted(x)
<1>1. /\ y.state = x.state /\ y.phase = "receiving" /\ y.called = x.called /\ y.pc = x.pc
      /\ y.back = x.back /\ y.tx = x.tx /\ y.part = x.part /\ y.armed = {"handshake"}
      /\ y.code = x.code /\ y.told = x.told /\ y.refused = x.refused /\ y.shut = x.shut
      /\ y.link = x.link
  BY DEF Session, Accepted
<1>2. y \in Session
  BY DEF Session, Accepted
<1> HIDE DEF y
<1>3. Timed(k, y) /\ Placed(y) /\ Told(y)
  BY <1>1 DEF Sound, Timed, Placed, Told
<1>4. Linked(k, y) /\ Fresh(k, y, y.shut)
  BY <1>1, SessionAssumption DEF Sound, Linked, Fresh
<1>5. Queued(y, y.shut)
  BY <1>1, QueuedKept DEF Sound
<1> QED BY <1>1, <1>2, <1>3, <1>4, <1>5 DEF Sound, y

LEMMA AcceptStep ==
  ASSUME IInv, NEW k \in Conns \cap Live, Accept(k)
  PROVE  IInv'
<1> DEFINE y == Accepted(ws[k])
<1>1. /\ k \in server.backlog /\ k \notin server.conns /\ ws[k] \in Session
      /\ Sound(k, ws[k], ws[k].shut) /\ Told(ws[k])
      /\ ws[k].state = "connecting" /\ ws[k].link # "none"
  BY SoundHere DEF Accept, IInv, Table
<1>2. /\ y \in Session /\ Sound(k, y, y.shut) /\ Told(y)
      /\ y.state = "connecting" /\ y.link # "none"
  BY <1>1, AcceptedSound
<1>3. /\ ws' = [ws EXCEPT ![k] = y] /\ UNCHANGED <<wire, peer>> /\ Live' = Live
      /\ server' = [server EXCEPT !.backlog = @ \ {k}, !.conns = @ \cup {k}]
  BY DEF Accept, Live
<1> HIDE DEF y
<1>4. /\ DOMAIN ws' = Live /\ ws' = [t \in Live |-> ws'[t]]
      /\ ws'[k] = y /\ \A t \in Live \ {k} : ws'[t] = ws[t]
  BY <1>3 DEF IInv, WellFormed
<1>5. \A t \in Live : /\ ws'[t] \in Session
                      /\ Sound(t, ws'[t], (ws'[t]).shut) /\ Told(ws'[t])
  <2>1. TAKE t \in Live
  <2>2. CASE t = k
    BY <1>2, <1>4, <2>2
  <2>3. CASE t # k
    BY <1>4, <2>3, SoundHere
  <2> QED BY <2>2, <2>3
<1>6. /\ server'.conns = server.conns \cup {k} /\ server'.backlog = server.backlog \ {k}
      /\ server' \in [state : {"unbound", "listening", "closed"},
                      conns : SUBSET (Conns \cap Live), backlog : SUBSET (Conns \cap Live)]
  BY <1>1, <1>3 DEF IInv, WellFormed
<1>7. IsFiniteSet(server'.conns) /\ Cardinality(server'.conns) <= MaxConnections
  <2>1. /\ IsFiniteSet(server.conns) /\ Cardinality(server.conns) < MaxConnections
        /\ Cardinality(server.conns) \in Nat
    BY FS_CardinalityType DEF Accept, HasRoom, IInv, Table
  <2>2. /\ IsFiniteSet(server.conns \cup {k})
        /\ Cardinality(server.conns \cup {k}) = Cardinality(server.conns) + 1
    BY <1>1, <2>1, FS_AddElement
  <2> QED BY <1>6, <2>1, <2>2, SessionAssumption
<1>8. Table'
  <2>1. server'.conns \cap server'.backlog = {}
    BY <1>6 DEF IInv, Table
  <2>2. \A t \in Conns \cap Live :
          /\ (ws'[t]).state # "closed"
               /\ ((ws'[t]).state # "connecting" \/ (ws'[t]).phase # None) =>
               t \in server'.conns
          /\ t \in server'.conns /\ (ws'[t]).state = "closed" => (ws'[t]).pc # "idle"
          /\ t \in server'.conns \cup server'.backlog => (ws'[t]).link # "none"
          /\ t \in server'.backlog => (ws'[t]).state = "connecting"
    <3>1. TAKE t \in Conns \cap Live
    <3>2. CASE t = k
      BY <1>2, <1>4, <1>6, <3>2
    <3>3. CASE t # k
      BY <1>4, <1>6, <3>3 DEF IInv, Table
    <3> QED BY <3>2, <3>3
  <2> QED BY <1>3, <1>7, <2>1, <2>2 DEF Table
<1>9. Dialled'
  <2>1. \A t \in Clients \cap Live : peer[t] # None => peer[t] \in Live
    BY Pairs DEF IInv
  <2>2. \A t \in Live : (ws'[t]).link = "none" <=> ws[t].link = "none"
    <3>1. TAKE t \in Live
    <3>2. CASE t = k
      BY <1>1, <1>2, <1>4, <3>2
    <3>3. CASE t # k
      BY <1>4, <3>3
    <3> QED BY <3>2, <3>3
  <2> QED BY <1>3, <2>1, <2>2 DEF Dialled, IInv
<1>10. wire' \in [Live -> Seq(Frame)]
  BY <1>3 DEF IInv, WellFormed
<1> QED BY <1>3, <1>4, <1>5, <1>6, <1>8, <1>9, <1>10, Rebuild

LEMMA ShutdownSound ==
  ASSUME IInv, NEW k \in server.conns, ws[k].state # "closed", NEW o \in Shutdown(k)
  PROVE  /\ o.out \in Seq(Frame) /\ Told(o.r) /\ o.r \in Session
         /\ Sound(k, o.r, o.r.shut + Closes(o.out))
         /\ o.r.state = "closed" /\ o.r.link # "none"
<1>1. /\ k \in Conns \cap Live /\ k \notin Clients /\ ws[k].link # "none"
  BY SessionAssumption DEF IInv, WellFormed, Table
<1>2. PICK r : r = IF ws[k].state = "open" THEN SendClose(ws[k], "normal") ELSE ws[k]
  OBVIOUS
<1>3. /\ k \in Sessions /\ ws[k] \in Session /\ Room(k) \in Int
      /\ Sound(k, ws[k], ws[k].shut) /\ Busy(k, ws[k])
  BY <1>1, SoundHere DEF Busy
<1>4. Keeps(k, ws[k], ws[k].shut, r)
  <2>1. CASE ws[k].state = "open"
    <3>1. "normal" \in CloseCodes
      BY DEF CloseCodes
    <3>2. Keeps(k, ws[k], ws[k].shut, SendClose(ws[k], "normal"))
      BY <1>3, <2>1, <3>1, SendCloseKeeps
    <3> QED BY <1>2, <2>1, <3>2
  <2>2. CASE ws[k].state # "open"
    BY <1>2, <1>3, <2>2, KeepsItself
  <2> QED BY <2>1, <2>2
<1>5. r.shut = ws[k].shut /\ Sound(k, r, r.shut) /\ Busy(k, r)
  BY <1>4 DEF Keeps, Follows
<1>6. o \in FinalizeClosed(k, r)
  BY <1>2 DEF Shutdown
<1>7. Fine(k, r, o) /\ Told(o.r) /\ o.r.state = "closed"
  BY <1>3, <1>5, <1>6, FinalizeClosedFine
<1>8. o.out \in Seq(Frame) /\ Keeps(k, r, r.shut + Closes(o.out), o.r) /\ o.r.shut = r.shut
  BY <1>7 DEF Fine, Keeps, Follows
<1> QED BY <1>1, <1>4, <1>7, <1>8 DEF Keeps, Follows, Sound

LEMMA CloseServerStep ==
  ASSUME IInv, CloseServer
  PROVE  IInv'
<1> DEFINE open == {k \in server.conns : ws[k].state # "closed"}
<1>2. PICK o :
       /\ \A k \in open : o[k] \in Shutdown(k)
       /\ ws' = [s \in Live |->
             IF s \in open THEN [o[s].r EXCEPT !.shut = @ + Closes(o[s].out)]
             ELSE IF s \in server.backlog THEN [ws[s] EXCEPT !.link = "closed"]
             ELSE IF peer[s] \in open /\ ws[s].link = "up"
             THEN [ws[s] EXCEPT !.link = "eof"]
             ELSE IF peer[s] \in server.backlog /\ ws[s].link = "up"
             THEN [ws[s] EXCEPT !.link = "reset"] ELSE ws[s]]
       /\ wire' = [s \in Live |->
             IF peer[s] \in open /\ ws[s].link = "up" /\ ws[peer[s]].link = "up"
             THEN wire[s] \o o[peer[s]].out ELSE wire[s]]
  BY Zenon DEF CloseServer
<1>1. open = {k \in server.conns : ws[k].state # "closed"}
  OBVIOUS
<1> HIDE DEF open
<1>3. /\ server' = [state |-> "closed", conns |-> {}, backlog |-> {}]
      /\ peer' = peer /\ Live' = Live
  BY DEF CloseServer, Live
<1>4. \A k \in open : k \in Conns \cap Live /\ k \in server.conns /\ ws[k].state # "closed"
  BY <1>1 DEF IInv, WellFormed
<1>5. \A t \in open : /\ ws'[t] \in Session
                      /\ Sound(t, ws'[t], (ws'[t]).shut) /\ Told(ws'[t])
                      /\ (ws'[t]).state = "closed" /\ (ws'[t]).link # "none"
  <2>1. TAKE t \in open
  <2>2. PICK x, n : x = o[t].r /\ n = o[t].r.shut + Closes(o[t].out)
    OBVIOUS
  <2>3. /\ x \in Session /\ Sound(t, x, n) /\ Told(x) /\ x.state = "closed"
        /\ x.link # "none"
    BY <1>2, <1>4, <2>2, ShutdownSound
  <2>4. ws'[t] = [x EXCEPT !.shut = n]
    BY <1>2, <1>4, <2>2
  <2> DEFINE c == [x EXCEPT !.shut = n]
  <2>5. /\ c \in Session /\ Sound(t, c, c.shut) /\ Told(c)
        /\ c.state = x.state /\ c.link = x.link
    BY <2>3, CountedSound
  <2> HIDE DEF c
  <2> QED BY <2>3, <2>4, <2>5 DEF c
<1>6. \A t \in Live \ open : Relinked(ws[t], ws'[t])
  <2>1. TAKE t \in Live \ open
  <2>2. ws[t] \in Session /\ (ws[t].link = "up" => ws[t].state # "closed")
    BY SoundHere DEF Sound, Linked
  <2>3. t \in server.backlog => ws[t].link # "none" /\ ws[t].state # "closed"
    BY DEF IInv, Table, WellFormed
  <2>4. \/ ws'[t] = ws[t]
        \/ t \in server.backlog /\ ws'[t] = [ws[t] EXCEPT !.link = "closed"]
        \/ ws[t].link = "up" /\ \E l \in {"eof", "reset"} : ws'[t] = [ws[t] EXCEPT !.link = l]
    BY <1>2
  <2>5. Relinked(ws[t], ws[t])
    BY <2>2 DEF Relinked
  <2> QED BY <2>2, <2>3, <2>4, <2>5, LinkChange
<1>7. \A t \in Live : /\ ws'[t] \in Session
                      /\ Sound(t, ws'[t], (ws'[t]).shut) /\ Told(ws'[t])
  <2>1. TAKE t \in Live
  <2>2. CASE t \in open
    BY <1>5, <2>2
  <2>3. CASE t \notin open
    <3>1. Relinked(ws[t], ws'[t]) /\ Sound(t, ws[t], ws[t].shut) /\ Told(ws[t])
      BY <1>6, <2>3, SoundHere
    <3>2. Sound(t, ws'[t], (ws'[t]).shut) /\ Told(ws'[t])
      BY <3>1, RelinkedSound
    <3> QED BY <3>1, <3>2 DEF Relinked
  <2> QED BY <2>2, <2>3
<1>8. wire' \in [Live -> Seq(Frame)]
  <2>1. \A t \in Live : wire[t] \in Seq(Frame)
    BY DEF IInv, WellFormed
  <2>2. \A k \in open : o[k].out \in Seq(Frame)
    BY <1>2, <1>4, ShutdownSound
  <2>3. ASSUME NEW t \in Live, peer[t] \in open
        PROVE  wire[t] \o o[peer[t]].out \in Seq(Frame)
    BY <2>1, <2>2, <2>3, ConcatProperties
  <2> QED BY <1>2, <2>1, <2>3
<1>9. Table'
  <2>1. IsFiniteSet({}) /\ Cardinality({}) = 0
    BY FS_EmptySet
  <2>2. \A k \in Conns \cap Live :
          ~ (/\ (ws'[k]).state # "closed"
             /\ ((ws'[k]).state # "connecting" \/ (ws'[k]).phase # None))
    <3>1. TAKE k \in Conns \cap Live
    <3>2. CASE k \in open
      BY <1>5, <3>2
    <3>3. CASE k \notin open
      <4>1. Relinked(ws[k], ws'[k])
        BY <1>6, <3>3
      <4>2. ws[k].state = "closed" \/ (ws[k].state = "connecting" /\ ws[k].phase = None)
        BY <1>1, <3>3 DEF IInv, Table
      <4> QED BY <4>1, <4>2 DEF Relinked
    <3> QED BY <3>2, <3>3
  <2>3. server'.conns = {} /\ server'.backlog = {}
    BY <1>3
  <2> QED BY <1>3, <2>1, <2>2, <2>3, SessionAssumption DEF Table
<1>10. Dialled'
  <2>1. \A t \in Live : (ws'[t]).link = "none" <=> ws[t].link = "none"
    <3>1. TAKE t \in Live
    <3>2. CASE t \in open
      BY <1>4, <1>5, <3>2 DEF IInv, Table
    <3>3. CASE t \notin open
      BY <1>6, <3>3 DEF Relinked
    <3> QED BY <3>2, <3>3
  <2>2. \A t \in Clients \cap Live : peer[t] # None => peer[t] \in Live
    BY Pairs DEF IInv
  <2> QED BY <1>3, <2>1, <2>2 DEF Dialled, IInv
<1>11. /\ DOMAIN ws' = Live /\ ws' = [t \in Live |-> ws'[t]]
       /\ server' \in [state : {"unbound", "listening", "closed"},
                       conns : SUBSET (Conns \cap Live), backlog : SUBSET (Conns \cap Live)]
  BY <1>2, <1>3
<1> QED BY <1>3, <1>7, <1>8, <1>9, <1>10, <1>11, Rebuild

-----------------------------------------------------------------------------
(* The invariant holds initially, and every step keeps it.                  *)

LEMMA NewSessionSound ==
  ASSUME NEW s \in Sessions
  PROVE  /\ NewSession \in Session /\ Sound(s, NewSession, NewSession.shut)
         /\ Told(NewSession) /\ NewSession.link = "none"
<1> DEFINE r == NewSession
<1>1. r \in Session
  <2>1. <<>> \in Seq(Frame) /\ <<>> \in Seq(Nat) /\ MaxMessage \in Nat /\ MaxEmptyRun \in Nat
    BY SessionAssumption
  <2>2. NoMessage \in Messages
    BY <2>1 DEF NoMessage, Messages
  <2> QED BY <2>1, <2>2 DEF Session, Messages, NewSession
<1>2. /\ r.state = "connecting" /\ r.phase = None /\ r.called = FALSE /\ r.pc = "idle"
      /\ r.back = None /\ r.tx = <<>> /\ r.part = None /\ r.armed = {} /\ r.told = FALSE
      /\ r.shut = 0 /\ r.link = "none"
  BY DEF NewSession
<1> HIDE DEF r
<1>3. Timed(s, r) /\ Placed(r) /\ Told(r) /\ Linked(s, r) /\ Fresh(s, r, r.shut)
  BY <1>2 DEF Timed, Placed, Told, Linked, Fresh
<1>4. Queued(r, r.shut)
  <2>1. Pending(r) = <<>> \o <<>>
    BY <1>2 DEF Pending
  <2>2. Pending(r) = <<>>
    BY <2>1
  <2>3. /\ Len(<<>>) = 0 /\ HardCap \in Nat \ {0} /\ ~Has(<<>>, "close")
        /\ ~Has(<<>>, "data") /\ Ordered(<<>>)
    BY SessionAssumption DEF HardCap, Has, Ordered
  <2> QED BY <1>2, <2>2, <2>3 DEF Queued
<1> QED BY <1>1, <1>2, <1>3, <1>4 DEF Sound, r

LEMMA InitStep ==
  ASSUME WsInit
  PROVE  IInv
<1>1. /\ peer \in Worlds /\ ws = [s \in Live |-> NewSession]
      /\ wire = [s \in Live |-> <<>>] /\ Live \subseteq Sessions
      /\ server = [state |-> "unbound", conns |-> {}, backlog |-> {}]
  BY SessionAssumption DEF WsInit, Live
<1>2. \A s \in Live : /\ ws[s] \in Session /\ Sound(s, ws[s], ws[s].shut)
                      /\ Told(ws[s]) /\ ws[s].link = "none"
                      /\ ws[s].state = "connecting" /\ ws[s].phase = None
  <2>1. NewSession.state = "connecting" /\ NewSession.phase = None
    BY DEF NewSession
  <2> QED BY <1>1, <2>1, NewSessionSound
<1>3. WellFormed
  <2>1. <<>> \in Seq(Frame)
    OBVIOUS
  <2> QED BY <1>1, <1>2, <2>1 DEF WellFormed
<1>4. Table
  BY <1>1, <1>2, FS_EmptySet, SessionAssumption DEF Table
<1>5. Dialled
  BY <1>2, <1>3, Pairs DEF Dialled
<1> QED BY <1>2, <1>3, <1>4, <1>5 DEF IInv

LEMMA NextStep ==
  ASSUME IInv, WsNext
  PROVE  IInv'
<1>1. ASSUME NEW s \in Live, Pass(s) PROVE IInv'
  <2>1. CASE TransportReady(s)
    BY <2>1, TransportReadyStep
  <2>2. CASE TransportFails(s)
    BY <2>2, TransportFailsStep
  <2>3. CASE SendHandshake(s)
    BY <2>3, SendHandshakeStep
  <2>4. CASE ReceiveResponse(s)
    BY <2>4, ReceiveResponseStep
  <2>5. CASE ReceiveRequest(s)
    BY <2>5, ReceiveRequestStep
  <2>6. CASE HandshakeLost(s)
    BY <2>6, HandshakeLostStep
  <2>7. CASE Read(s)
    BY <2>7, ReadStep
  <2>8. ASSUME NEW pings \in BOOLEAN, FinishPass(s, pings) PROVE IInv'
    BY <2>8, FinishPassStep
  <2>9. CASE Feed(s)
    BY <2>9, FeedStep
  <2>10. CASE CallbackReturns(s)
    BY <2>10, CallbackReturnsStep
  <2> QED BY <1>1, <2>1, <2>2, <2>3, <2>4, <2>5, <2>6, <2>7, <2>8, <2>9, <2>10 DEF Pass
<1>2. ASSUME NEW s \in Live, Application(s) PROVE IInv'
  <2>1. CASE ConnectRaises(s)
    BY <2>1, ConnectRaisesStep
  <2>2. CASE Connect(s)
    BY <2>2, ConnectStep
  <2>3. CASE Send(s)
    BY <2>3, SendTextStep
  <2>4. CASE SendPing(s)
    BY <2>4, SendPingStep
  <2>5. CASE OnConnectionRaises(s)
    BY <2>5, OnConnectionRaisesStep
  <2>6. ASSUME NEW code \in Codes, Close(s, code) PROVE IInv'
    BY <2>6, CloseStep
  <2> QED BY <1>2, <2>1, <2>2, <2>3, <2>4, <2>5, <2>6 DEF Application
<1>3. ASSUME NEW s \in Live, World(s) PROVE IInv'
  BY <1>3, ForeignDialsStep, ForeignSendsStep, LinkBreaksStep DEF World
<1>4. ASSUME NEW s \in Live, NEW d \in {"handshake", "close", "pong"}, Timeout(s, d)
      PROVE  IInv'
  BY <1>4, TimeoutStep
<1>5. CASE Bind
  BY <1>5, BindStep
<1>6. CASE CloseServer
  BY <1>6, CloseServerStep
<1>7. ASSUME NEW k \in Conns \cap Live, Accept(k) PROVE IInv'
  BY <1>7, AcceptStep
<1> QED BY <1>1, <1>2, <1>3, <1>4, <1>5, <1>6, <1>7 DEF WsNext

LEMMA StutterStep ==
  ASSUME IInv, UNCHANGED vars
  PROVE  IInv'
<1>1. UNCHANGED ws /\ UNCHANGED wire /\ UNCHANGED server /\ UNCHANGED peer /\ Live' = Live
  BY DEF vars, Live
<1>2. WellFormed' /\ Table' /\ Dialled'
  BY <1>1 DEF WellFormed, Table, Dialled, IInv
<1>3. \A s \in Live' : (Sound(s, ws[s], ws[s].shut) /\ Told(ws[s]))'
  <2>1. ASSUME NEW s \in Live PROVE (Sound(s, ws[s], ws[s].shut) /\ Told(ws[s]))'
    <3>1. Sound(s, ws'[s], (ws'[s]).shut) /\ Told(ws'[s])
      BY <1>1 DEF IInv
    <3> QED BY <3>1
  <2> QED BY <1>1, <2>1
<1> QED BY <1>2, <1>3 DEF IInv

(* Every reachable state satisfies the inductive invariant.                 *)
LEMMA Inductive == Spec => []IInv
<1>1. WsInit => IInv
  BY InitStep
<1>2. IInv /\ [WsNext]_vars => IInv'
  BY NextStep, StutterStep
<1> QED BY <1>1, <1>2, PTL DEF Spec

-----------------------------------------------------------------------------
(* What follows of every reachable state.                                   *)

(* Type correctness: every field holds what the code may put there, and the *)
(* transmit queue stays under its hard cap, whatever the peers send.        *)
THEOREM SessionsTypeCorrect == Spec => []TypeOK
<1>1. ASSUME IInv PROVE TypeOK
  <2>1. \A s \in Live : Len(ws[s].tx) <= HardCap
    BY <1>1 DEF IInv, Sound, Queued
  <2> QED BY <1>1, <2>1 DEF IInv, WellFormed, TypeOK
<1> QED BY <1>1, Inductive, PTL

(* The closing handshake: one CLOSE per session, queued or sent as soon as  *)
(* it is closing, however full the queue was, and none of the user's        *)
(* messages behind it (_send_close, _queue_internal_frame).                 *)
THEOREM ClosesOnce == Spec => []OneClose
<1>1. ASSUME IInv PROVE OneClose
  <2>1. SUFFICES ASSUME NEW s \in Live
                 PROVE  LET r == ws[s]  todo == Pending(r)  n == Closes(todo) + r.shut IN
                        /\ n <= 1
                        /\ r.state = "closing" => n = 1
                        /\ r.shut = 1 => \A i \in 1..Len(todo) : todo[i].op # "data"
                        /\ \A i, j \in 1..Len(todo) :
                             todo[i].op = "close" /\ todo[j].op = "data" => j < i
    BY DEF OneClose
  <2>2. PICK r, q, c : r = ws[s] /\ q = Pending(r) /\ c = r.shut
    OBVIOUS
  <2>3. r \in Session /\ Queued(r, c)
    BY <1>1, <2>2, SoundHere DEF Sound
  <2>4. q \in Seq(Frame)
    BY <2>2, <2>3, PendingType
  <2>5. /\ r.state = "closing" => c = 1 \/ Has(q, "close")
        /\ c \in {0, 1} /\ Ordered(q)
        /\ c = 1 => ~Has(q, "close") /\ ~Has(q, "data")
    BY <2>2, <2>3 DEF Queued
  <2>6. Closes(q) = IF Has(q, "close") THEN 1 ELSE 0
    BY <2>4, <2>5, ClosesOrdered
  <2>7. Closes(q) + c <= 1 /\ (r.state = "closing" => Closes(q) + c = 1)
    BY <2>5, <2>6
  <2>8. c = 1 => \A i \in 1..Len(q) : q[i].op # "data"
    BY <2>5 DEF Has
  <2>9. \A i, j \in 1..Len(q) : q[i].op = "close" /\ q[j].op = "data" => j < i
    <3>1. SUFFICES ASSUME NEW i \in 1..Len(q), NEW j \in 1..Len(q),
                          q[i].op = "close", q[j].op = "data"
                   PROVE  j < i
      OBVIOUS
    <3>2. j <= i
      BY <2>5, <3>1 DEF Ordered
    <3>3. j # i
      BY <3>1
    <3> QED BY <2>4, <3>2, <3>3, LenProperties
  <2> QED BY <2>2, <2>7, <2>8, <2>9
<1> QED BY <1>1, Inductive, PTL

(* A handshake under way and a closing session always have a deadline, a    *)
(* closed one none (_arm_deadline and _disarm_deadline on every path).      *)
THEOREM DeadlinesKept == Spec => []DeadlinesMatch
<1>1. ASSUME IInv PROVE DeadlinesMatch
  BY <1>1 DEF IInv, Sound, Timed, DeadlinesMatch
<1> QED BY <1>1, Inductive, PTL

(* The server's table holds every live connection it accepted, never more   *)
(* than max_connections, and a closed session holds no socket.              *)
THEOREM NoConnectionLeaks == Spec => []NothingLeaks
<1>1. ASSUME IInv PROVE NothingLeaks
  <2>1. Cardinality(server.conns) <= MaxConnections
    BY <1>1 DEF IInv, Table
  <2>2. \A s \in Live : ws[s].state = "closed" => ws[s].link \in {"none", "closed"}
    BY <1>1 DEF IInv, Sound, Linked
  <2>3. \A k \in Conns \cap Live :
          /\ ws[k].phase # None /\ ws[k].state # "closed" => k \in server.conns
          /\ ws[k].state \in {"open", "closing"} => k \in server.conns
          /\ ws[k].state = "closed" /\ Resting(k) => k \notin server.conns
    <3>1. TAKE k \in Conns \cap Live
    <3>2. Resting(k) => ws[k].pc = "idle"
      BY DEF Resting, Board
    <3> QED BY <1>1, <3>2 DEF IInv, Table
  <2> QED BY <2>1, <2>2, <2>3 DEF NothingLeaks
<1> QED BY <1>1, Inductive, PTL

(* on_close is called for every session that ends, except a connection that *)
(* was refused in its handshake, and for none that has not ended: not for   *)
(* one that is open, or whose CLOSE is only queued, sent or awaited.        *)
THEOREM EveryEndIsTold == Spec => []ClosedIsTold
<1>1. ASSUME IInv PROVE ClosedIsTold
  BY <1>1 DEF IInv, Told, ClosedIsTold
<1> QED BY <1>1, Inductive, PTL

-----------------------------------------------------------------------------
(* Two sessions of the library.                                             *)

(* The frames this library sends: a message is whole, nothing is malformed, *)
(* and unless the application itself closes with such a code no CLOSE       *)
(* accuses the peer.                                                        *)
Accusing == {"protocol", "baddata", "toobig"}
Civil == Codes \cap (Accusing \cup {"malformed"}) = {}

Ours(f) ==
  /\ f.fin /\ f.clean /\ f.utf8 /\ f.len = 1 /\ f.op \notin {"cont", "reserved"}
  /\ f.op = "data" => f.n # 0
  /\ Civil => f.code \notin Accusing \cup {"malformed"}

Body(f)   == Ours(f) /\ f.op \notin Heads
Bodies(q) == \A i \in 1..Len(q) : Body(q[i])

(* What a session with such a peer keeps true of itself: it buffers no part *)
(* of a message, and has said nothing before it opens.                      *)
Carrying(r) == r.pc \in {"opened", "feed"} \/ (r.pc = "callback" /\ r.back = "feed")

Own(r) ==
  /\ r.msg = NoMessage
  /\ Civil => r.code \notin Accusing
  /\ Bodies(Pending(r))
  /\ r.state = "connecting" \/ r.link = "none" => Pending(r) = <<>> /\ r.sends = 0
  /\ r.link = "none" => r.state \in {"connecting", "closed"} /\ r.pc = "idle"
  /\ r.carry # <<>> => Carrying(r)
  /\ r.pc = "opened" => r.back = "feed"

(* The way from s to p: r is s, t is p, w is what is on its way to p.  What *)
(* p still reads of it is its carry, and the wire unless it has closed.     *)
Stream(t, w)   == IF t.state = "closed" THEN t.carry ELSE t.carry \o w
Granting(p, t) == p \in Conns /\ t.state = "connecting" /\ t.phase = "sending"
Whole(r, t)    == r.link = "up" /\ t.link = "up"
Early(s, r)    == IF s \in Conns THEN r.state = "connecting"
                  ELSE r.link = "none" \/ (r.state = "connecting" /\ r.phase = "sending")

(* A handshake head comes first, and before p is open.                      *)
Formed(p, t, q) ==
  /\ \A i \in 1..Len(q) : Ours(q[i]) /\ (i # 1 => q[i].op \notin Heads)
  /\ Len(q) > 0 /\ q[1].op \in Heads => t.state # "open" /\ ~Granting(p, t)

(* Before s has sent its own head p has nothing of it, and is not open.     *)
Unheard(s, p, r, t, w) ==
  Early(s, r) => /\ w = <<>> /\ t.carry = <<>> /\ t.state # "open" /\ ~Granting(p, t)
                 /\ s \in Conns => t.state # "closing"

(* A connection in its handshake is sent nothing but the request.           *)
Asked(p, t, w) ==
  p \in Conns /\ t.state = "connecting" =>
    ~t.garbled /\ t.carry = <<>> /\ \A i \in 1..Len(w) : w[i].op = "request"

(* The messages p was given are the first of s, those on their way follow   *)
(* them, and those that s has queued follow these while both are connected. *)
Numbered(r, t, q) ==
  /\ t.got = Numbers(Len(t.got)) /\ Len(t.got) <= r.sends
  /\ ~t.garbled =>
       \E m \in Len(t.got)..r.sends :
         /\ Consecutive(q, Len(t.got), m)
         /\ Whole(r, t) => Consecutive(Pending(r), m, r.sends)

Way(s, p, r, t, w) ==
  /\ Formed(p, t, Stream(t, w)) /\ Unheard(s, p, r, t, w)
  /\ Asked(p, t, w) /\ Numbered(r, t, Stream(t, w))

Paired ==
  \A s \in Live : peer[s] # None =>
    Own(ws[s]) /\ Way(s, peer[s], ws[s], ws[peer[s]], wire[peer[s]])

-----------------------------------------------------------------------------
(* Numbered messages.                                                       *)

(* A set of natural numbers has a least one.                                *)
LEMMA LeastNat ==
  ASSUME NEW T \in SUBSET Nat, T # {}
  PROVE  \E x \in T : \A y \in T : x <= y
<1> DEFINE R == OpToRel(<, Nat)
<1>1. IsWellFoundedOn(R, Nat)
  BY NatLessThanWellFounded
<1>2. \A x, y \in Nat : x < y => <<x, y>> \in R
  BY DEF OpToRel
<1> HIDE DEF R
<1>3. PICK x \in T : \A y \in T : ~(<<y, x>> \in R)
  BY <1>1, WFMin
<1>4. ASSUME NEW y \in T PROVE x <= y
  <2>1. x \in Nat /\ y \in Nat
    OBVIOUS
  <2>2. ~(y < x)
    BY <1>2, <1>3, <2>1
  <2> QED BY <2>1, <2>2
<1> QED BY <1>4

(* Consecutive, message by message.                                         *)
LEMMA ConsecutiveIs ==
  ASSUME NEW q, NEW a, NEW b
  PROVE  Consecutive(q, a, b) <=>
           /\ \A i \in 1..Len(q) : q[i].op = "data" => q[i].n \in (a + 1)..b
           /\ \A m \in (a + 1)..b : \E i \in 1..Len(q) : q[i].op = "data" /\ q[i].n = m
           /\ \A i, j \in 1..Len(q) :
                q[i].op = "data" /\ q[j].op = "data" /\ i < j => q[i].n < q[j].n
<1> DEFINE D == {i \in 1..Len(q) : q[i].op = "data"}
<1>1. \A i : i \in D <=> i \in 1..Len(q) /\ q[i].op = "data"
  OBVIOUS
<1>2. Consecutive(q, a, b) <=> /\ {q[i].n : i \in D} = (a + 1)..b
                               /\ \A i, j \in D : i < j => q[i].n < q[j].n
  BY DEF Consecutive
<1> HIDE DEF D
<1>3. {q[i].n : i \in D} = (a + 1)..b <=>
        /\ \A i \in D : q[i].n \in (a + 1)..b
        /\ \A m \in (a + 1)..b : \E i \in D : q[i].n = m
  OBVIOUS
<1> QED BY <1>1, <1>2, <1>3

LEMMA ConsecutiveNone ==
  ASSUME NEW q, NEW a \in Nat, \A i \in 1..Len(q) : q[i].op # "data"
  PROVE  Consecutive(q, a, a)
<1>1. (a + 1)..a = {}
  OBVIOUS
<1> QED BY <1>1, ConsecutiveIs

LEMMA ConsecutiveEmpty ==
  ASSUME NEW a \in Nat
  PROVE  Consecutive(<<>>, a, a)
<1>1. \A i \in 1..Len(<<>>) : FALSE
  OBVIOUS
<1> QED BY <1>1, ConsecutiveNone

(* One frame.                                                               *)
LEMMA ConsecutiveOne ==
  ASSUME NEW f \in Frame, NEW a \in Nat, NEW b \in Nat, a <= b
  PROVE  Consecutive(<<f>>, a, b) <=>
           IF f.op = "data" THEN b = a + 1 /\ f.n = b ELSE b = a
<1> DEFINE q == <<f>>
<1>1. Len(q) = 1 /\ q[1] = f /\ f.n \in Nat
  BY DEF Frame
<1> HIDE DEF q
<1>2. Consecutive(q, a, b) <=>
        /\ f.op = "data" => f.n \in (a + 1)..b
        /\ \A m \in (a + 1)..b : f.op = "data" /\ f.n = m
  <2>1. \A i \in 1..Len(q) : i = 1 /\ q[i] = f
    BY <1>1
  <2>2. 1 \in 1..Len(q)
    BY <1>1
  <2> QED BY <2>1, <2>2, ConsecutiveIs
<1>3. CASE f.op # "data"
  <2>1. b # a => b \in (a + 1)..b
    OBVIOUS
  <2> QED BY <1>2, <1>3, <2>1 DEF q
<1>4. CASE f.op = "data"
  <2>1. ASSUME f.n \in (a + 1)..b, \A m \in (a + 1)..b : f.n = m
        PROVE  b = a + 1 /\ f.n = b
    <3>1. a + 1 \in (a + 1)..b /\ b \in (a + 1)..b
      BY <1>1, <2>1
    <3> QED BY <2>1, <3>1
  <2>2. b = a + 1 => (a + 1)..b = {b}
    OBVIOUS
  <2> QED BY <1>2, <1>4, <2>1, <2>2 DEF q
<1> QED BY <1>3, <1>4

(* The elements of two sequences put together.                              *)
LEMMA BothParts ==
  ASSUME NEW q \in Seq(Frame), NEW r \in Seq(Frame)
  PROVE  /\ q \o r \in Seq(Frame) /\ Len(q \o r) = Len(q) + Len(r)
         /\ Len(q) \in Nat /\ Len(r) \in Nat
         /\ \A i \in 1..Len(q) : i \in 1..Len(q \o r) /\ (q \o r)[i] = q[i]
         /\ \A i \in 1..Len(r) :
              Len(q) + i \in 1..Len(q \o r) /\ (q \o r)[Len(q) + i] = r[i]
         /\ \A i \in 1..Len(q \o r) :
              \/ i \in 1..Len(q) /\ (q \o r)[i] = q[i]
              \/ \E j \in 1..Len(r) : i = Len(q) + j /\ (q \o r)[i] = r[j]
<1> DEFINE u == q \o r
<1>1. Len(q) \in Nat /\ Len(r) \in Nat
  BY LenProperties
<1>2. /\ u \in Seq(Frame) /\ Len(u) = Len(q) + Len(r)
      /\ \A i \in 1..Len(q) + Len(r) :
           u[i] = IF i <= Len(q) THEN q[i] ELSE r[i - Len(q)]
  BY ConcatProperties
<1> HIDE DEF u
<1>3. PICK a, b : a = Len(q) /\ b = Len(r)
  OBVIOUS
<1>4. a \in Nat /\ b \in Nat /\ Len(u) = a + b
  BY <1>1, <1>2, <1>3
<1>5. \A i \in 1..(a + b) : u[i] = IF i <= a THEN q[i] ELSE r[i - a]
  BY <1>2, <1>3
<1>6. ASSUME NEW i \in 1..a PROVE i \in 1..(a + b) /\ u[i] = q[i]
  BY <1>4, <1>5
<1>7. ASSUME NEW i \in 1..b PROVE a + i \in 1..(a + b) /\ u[a + i] = r[i]
  <2>1. PICK k : k = a + i
    OBVIOUS
  <2>2. k \in 1..(a + b) /\ ~(k <= a) /\ k - a = i
    BY <1>4, <2>1
  <2>3. u[k] = r[k - a]
    BY <1>5, <2>2
  <2> QED BY <2>1, <2>2, <2>3
<1>8. ASSUME NEW i \in 1..(a + b)
      PROVE  \/ i \in 1..a /\ u[i] = q[i]
             \/ \E j \in 1..b : i = a + j /\ u[i] = r[j]
  <2>1. CASE i <= a
    BY <1>4, <1>5, <2>1
  <2>2. CASE ~(i <= a)
    <3>1. i - a \in 1..b /\ i = a + (i - a)
      BY <1>4, <2>2
    <3> QED BY <1>5, <2>2, <3>1
  <2> QED BY <2>1, <2>2
<1> QED BY <1>1, <1>2, <1>3, <1>4, <1>6, <1>7, <1>8 DEF u

(* What two parts carry together, and what they carry each.                 *)
LEMMA ConsecutiveConcat ==
  ASSUME NEW q \in Seq(Frame), NEW r \in Seq(Frame),
         NEW a \in Nat, NEW b \in Nat, NEW c \in Nat, a <= b, b <= c,
         Consecutive(q, a, b), Consecutive(r, b, c)
  PROVE  Consecutive(q \o r, a, c)
<1> DEFINE u == q \o r
<1>1. /\ Len(u) = Len(q) + Len(r) /\ Len(q) \in Nat /\ Len(r) \in Nat
      /\ \A i \in 1..Len(q) : i \in 1..Len(u) /\ u[i] = q[i]
      /\ \A i \in 1..Len(r) : Len(q) + i \in 1..Len(u) /\ u[Len(q) + i] = r[i]
      /\ \A i \in 1..Len(u) :
           \/ i \in 1..Len(q) /\ u[i] = q[i]
           \/ \E j \in 1..Len(r) : i = Len(q) + j /\ u[i] = r[j]
  BY BothParts
<1> HIDE DEF u
<1>2. /\ \A i \in 1..Len(q) : q[i].op = "data" => q[i].n \in (a + 1)..b
      /\ \A m \in (a + 1)..b : \E i \in 1..Len(q) : q[i].op = "data" /\ q[i].n = m
      /\ \A i, j \in 1..Len(q) :
           q[i].op = "data" /\ q[j].op = "data" /\ i < j => q[i].n < q[j].n
  BY ConsecutiveIs
<1>3. /\ \A i \in 1..Len(r) : r[i].op = "data" => r[i].n \in (b + 1)..c
      /\ \A m \in (b + 1)..c : \E i \in 1..Len(r) : r[i].op = "data" /\ r[i].n = m
      /\ \A i, j \in 1..Len(r) :
           r[i].op = "data" /\ r[j].op = "data" /\ i < j => r[i].n < r[j].n
  BY ConsecutiveIs
<1>4. (a + 1)..b \subseteq (a + 1)..c /\ (b + 1)..c \subseteq (a + 1)..c
  OBVIOUS
<1>5. ASSUME NEW i \in 1..Len(u), u[i].op = "data" PROVE u[i].n \in (a + 1)..c
  <2>1. CASE i \in 1..Len(q) /\ u[i] = q[i]
    <3>1. u[i].n \in (a + 1)..b
      BY <1>2, <1>5, <2>1
    <3> QED BY <1>4, <3>1
  <2>2. ASSUME NEW j \in 1..Len(r), u[i] = r[j] PROVE u[i].n \in (a + 1)..c
    <3>1. u[i].n \in (b + 1)..c
      BY <1>3, <1>5, <2>2
    <3> QED BY <1>4, <3>1
  <2> QED BY <1>1, <2>1, <2>2
<1>6. ASSUME NEW m \in (a + 1)..c PROVE \E i \in 1..Len(u) : u[i].op = "data" /\ u[i].n = m
  <2>1. m \in (a + 1)..b \/ m \in (b + 1)..c
    OBVIOUS
  <2>2. CASE m \in (a + 1)..b
    BY <1>1, <1>2, <2>2
  <2>3. CASE m \in (b + 1)..c
    <3>1. PICK i \in 1..Len(r) : r[i].op = "data" /\ r[i].n = m
      BY <1>3, <2>3
    <3>2. PICK k : k = Len(q) + i
      OBVIOUS
    <3>3. k \in 1..Len(u) /\ u[k] = r[i]
      BY <1>1, <3>2
    <3> QED BY <3>1, <3>3
  <2> QED BY <2>1, <2>2, <2>3
<1>7. ASSUME NEW i \in 1..Len(u), NEW j \in 1..Len(u),
             u[i].op = "data", u[j].op = "data", i < j
      PROVE  u[i].n < u[j].n
  <2>1. CASE j \in 1..Len(q) /\ u[j] = q[j]
    <3>1. i \in 1..Len(q) /\ u[i] = q[i]
      BY <1>1, <1>7, <2>1
    <3> QED BY <1>2, <1>7, <2>1, <3>1
  <2>2. ASSUME NEW k \in 1..Len(r), j = Len(q) + k, u[j] = r[k] PROVE u[i].n < u[j].n
    <3>1. CASE i \in 1..Len(q) /\ u[i] = q[i]
      <4>1. u[i].n \in (a + 1)..b /\ u[j].n \in (b + 1)..c
        BY <1>2, <1>3, <1>7, <2>2, <3>1
      <4> QED BY SMTT(30), <4>1
    <3>2. ASSUME NEW l \in 1..Len(r), i = Len(q) + l, u[i] = r[l] PROVE u[i].n < u[j].n
      <4>1. l < k
        BY <1>1, <1>7, <2>2, <3>2
      <4> QED BY SMTT(30), <1>3, <1>7, <2>2, <3>2, <4>1
    <3> QED BY <1>1, <3>1, <3>2
  <2> QED BY <1>1, <2>1, <2>2
<1> QED BY <1>5, <1>6, <1>7, ConsecutiveIs DEF u

LEMMA ConsecutiveSplit ==
  ASSUME NEW q \in Seq(Frame), NEW r \in Seq(Frame),
         NEW a \in Nat, NEW c \in Nat, a <= c, Consecutive(q \o r, a, c)
  PROVE  \E b \in a..c : Consecutive(q, a, b) /\ Consecutive(r, b, c)
<1> DEFINE u == q \o r
<1>1. /\ Len(u) = Len(q) + Len(r) /\ Len(q) \in Nat /\ Len(r) \in Nat
      /\ \A i \in 1..Len(q) : i \in 1..Len(u) /\ u[i] = q[i]
      /\ \A i \in 1..Len(r) : Len(q) + i \in 1..Len(u) /\ u[Len(q) + i] = r[i]
      /\ \A i \in 1..Len(u) :
           \/ i \in 1..Len(q) /\ u[i] = q[i]
           \/ \E j \in 1..Len(r) : i = Len(q) + j /\ u[i] = r[j]
  BY BothParts
<1>2. /\ \A i \in 1..Len(u) : u[i].op = "data" => u[i].n \in (a + 1)..c
      /\ \A m \in (a + 1)..c : \E i \in 1..Len(u) : u[i].op = "data" /\ u[i].n = m
      /\ \A i, j \in 1..Len(u) :
           u[i].op = "data" /\ u[j].op = "data" /\ i < j => u[i].n < u[j].n
  BY ConsecutiveIs
<1> HIDE DEF u
<1> DEFINE T == {m \in a..c : \A i \in 1..Len(q) : q[i].op = "data" => q[i].n <= m}
<1>3. T \in SUBSET Nat /\ c \in T
  <2>1. \A i \in 1..Len(q) : q[i].op = "data" => q[i].n <= c
    BY <1>1, <1>2
  <2> QED BY <2>1
<1>4. PICK b \in T : \A y \in T : b <= y
  BY <1>3, LeastNat
<1>5. b \in a..c /\ b \in Nat /\ \A i \in 1..Len(q) : q[i].op = "data" => q[i].n <= b
  BY <1>4
<1>6. b # a => \E i \in 1..Len(q) : q[i].op = "data" /\ q[i].n = b
  <2>1. SUFFICES ASSUME b # a, \A i \in 1..Len(q) : q[i].op = "data" => q[i].n # b
                 PROVE  FALSE
    OBVIOUS
  <2>2. ASSUME NEW i \in 1..Len(q), q[i].op = "data" PROVE q[i].n <= b - 1
    <3>1. q[i].n \in (a + 1)..c
      BY <1>1, <1>2, <2>2
    <3>2. q[i].n <= b /\ q[i].n # b
      BY <1>5, <2>1, <2>2
    <3> QED BY <1>5, <3>1, <3>2
  <2>3. b - 1 \in a..c
    BY <1>5, <2>1
  <2>4. b - 1 \in T
    BY <2>2, <2>3
  <2> QED BY <1>4, <1>5, <2>4
<1> HIDE DEF T
<1>7. ASSUME NEW j \in 1..Len(r), r[j].op = "data" PROVE r[j].n \in (b + 1)..c
  <2>1. Len(q) + j \in 1..Len(u) /\ u[Len(q) + j] = r[j]
    BY <1>1
  <2>2. r[j].n \in (a + 1)..c
    BY <1>2, <1>7, <2>1
  <2>3. ASSUME NEW i \in 1..Len(q), q[i].op = "data" PROVE q[i].n < r[j].n
    <3>1. i \in 1..Len(u) /\ u[i] = q[i] /\ i < Len(q) + j
      BY <1>1
    <3> QED BY SMTT(30), <1>2, <1>7, <2>1, <2>3, <3>1
  <2>4. r[j].n > b
    BY <1>5, <1>6, <2>2, <2>3
  <2> QED BY <1>5, <2>2, <2>4
<1>8. Consecutive(q, a, b)
  <2>1. \A i \in 1..Len(q) : q[i].op = "data" => q[i].n \in (a + 1)..b
    <3>1. ASSUME NEW i \in 1..Len(q), q[i].op = "data" PROVE q[i].n \in (a + 1)..b
      <4>1. q[i].n \in (a + 1)..c /\ q[i].n <= b
        BY <1>1, <1>2, <1>5, <3>1
      <4> QED BY <1>5, <4>1
    <3> QED BY <3>1
  <2>2. ASSUME NEW m \in (a + 1)..b
        PROVE  \E i \in 1..Len(q) : q[i].op = "data" /\ q[i].n = m
    <3>1. m \in (a + 1)..c
      BY <1>5
    <3>2. PICK i \in 1..Len(u) : u[i].op = "data" /\ u[i].n = m
      BY <1>2, <3>1
    <3>3. ~ \E j \in 1..Len(r) : u[i] = r[j]
      <4>1. ASSUME NEW j \in 1..Len(r), u[i] = r[j] PROVE FALSE
        <5>1. m \in (b + 1)..c
          BY <1>7, <3>2, <4>1
        <5> QED BY <1>5, <5>1
      <4> QED BY <4>1
    <3> QED BY <1>1, <3>2, <3>3
  <2>3. \A i, j \in 1..Len(q) :
          q[i].op = "data" /\ q[j].op = "data" /\ i < j => q[i].n < q[j].n
    BY <1>1, <1>2
  <2> QED BY <2>1, <2>2, <2>3, ConsecutiveIs
<1>9. Consecutive(r, b, c)
  <2>1. ASSUME NEW m \in (b + 1)..c
        PROVE  \E i \in 1..Len(r) : r[i].op = "data" /\ r[i].n = m
    <3>1. m \in (a + 1)..c
      BY <1>5
    <3>2. PICK i \in 1..Len(u) : u[i].op = "data" /\ u[i].n = m
      BY <1>2, <3>1
    <3>3. ~ (i \in 1..Len(q) /\ u[i] = q[i])
      BY <1>5, <3>2
    <3> QED BY <1>1, <3>2, <3>3
  <2>2. ASSUME NEW i \in 1..Len(r), NEW j \in 1..Len(r),
               r[i].op = "data", r[j].op = "data", i < j
        PROVE  r[i].n < r[j].n
    <3>1. /\ Len(q) + i \in 1..Len(u) /\ u[Len(q) + i] = r[i]
          /\ Len(q) + j \in 1..Len(u) /\ u[Len(q) + j] = r[j]
          /\ Len(q) + i < Len(q) + j
      BY <1>1, <2>2
    <3> QED BY SMTT(30), <1>2, <2>2, <3>1
  <2> QED BY <1>7, <2>1, <2>2, ConsecutiveIs
<1> QED BY <1>5, <1>8, <1>9

-----------------------------------------------------------------------------
(* What a session sends.                                                    *)

LEMMA FramesAssociate ==
  \A a, b, c \in Seq(Frame) : (a \o b) \o c = a \o (b \o c)
BY ConcatAssociative

LEMMA BodiesBoth ==
  ASSUME NEW q \in Seq(Frame), NEW r \in Seq(Frame)
  PROVE  Bodies(q \o r) <=> Bodies(q) /\ Bodies(r)
<1>1. ASSUME Bodies(q), Bodies(r) PROVE Bodies(q \o r)
  BY SMTT(30), <1>1, BothParts DEF Bodies
<1>2. ASSUME Bodies(q \o r) PROVE Bodies(q) /\ Bodies(r)
  <2>1. Bodies(q)
    BY <1>2, BothParts DEF Bodies
  <2>2. ASSUME NEW j \in 1..Len(r) PROVE Body(r[j])
    <3>1. PICK k : k = Len(q) + j
      OBVIOUS
    <3>2. k \in 1..Len(q \o r) /\ (q \o r)[k] = r[j]
      BY <3>1, BothParts
    <3>3. Body((q \o r)[k])
      BY <1>2, <3>2 DEF Bodies
    <3> QED BY <3>2, <3>3
  <2> QED BY <2>1, <2>2 DEF Bodies
<1> QED BY <1>1, <1>2

LEMMA BodiesFew ==
  /\ Bodies(<<>>)
  /\ \A f : Bodies(<<f>>) <=> Body(f)
<1>1. Bodies(<<>>)
  BY DEF Bodies
<1>2. ASSUME NEW f PROVE Bodies(<<f>>) <=> Body(f)
  <2>1. 1 \in 1..Len(<<f>>) /\ \A i \in 1..Len(<<f>>) : i = 1 /\ <<f>>[i] = f
    OBVIOUS
  <2> QED BY <2>1 DEF Bodies
<1> QED BY <1>1, <1>2

(* The queue and what it is given leave in order: out has left, the rest is *)
(* pending still.                                                           *)
Sends(r, t, out) ==
  \E extra \in Seq(Frame) :
    /\ Bodies(extra) /\ r.sends <= t.sends /\ Consecutive(extra, r.sends, t.sends)
    /\ out \o Pending(t) = Pending(r) \o extra

(* A session that sends nothing new, or stays silent.                       *)
LEMMA SendsSame ==
  ASSUME NEW r \in Session, NEW t \in Session, NEW out \in Seq(Frame),
         t.sends = r.sends, out \o Pending(t) = Pending(r)
  PROVE  Sends(r, t, out)
<1>1. r.sends \in Nat /\ Pending(r) \in Seq(Frame) /\ <<>> \in Seq(Frame)
  BY SMTT(30), PendingType DEF Session
<1>2. PICK e \in Seq(Frame) : e = <<>>
  BY <1>1
<1>3. Bodies(e) /\ Consecutive(e, r.sends, t.sends) /\ r.sends <= t.sends
  BY <1>1, <1>2, BodiesFew, ConsecutiveEmpty
<1>4. Pending(r) \o e = Pending(r)
  BY <1>1, <1>2, ConcatEmptySeq
<1> QED BY <1>3, <1>4 DEF Sends

LEMMA SendsQuiet ==
  ASSUME NEW r \in Session, NEW t \in Session,
         t.sends = r.sends, t.tx = r.tx, t.part = r.part
  PROVE  Sends(r, t, <<>>) /\ Pending(t) = Pending(r)
<1>1. Pending(t) = Pending(r)
  BY DEF Pending
<1>2. <<>> \o Pending(t) = Pending(r) /\ <<>> \in Seq(Frame)
  BY <1>1, PendingType, ConcatEmptySeq
<1>3. PICK e \in Seq(Frame) : e = <<>>
  BY <1>2
<1>4. Sends(r, t, e)
  BY <1>2, <1>3, SendsSame
<1> QED BY <1>1, <1>3, <1>4

(* Steps follow one another.                                                *)
LEMMA SendsComposes ==
  ASSUME NEW r \in Session, NEW t \in Session, NEW u \in Session,
         NEW a \in Seq(Frame), NEW b \in Seq(Frame),
         Sends(r, t, a), Sends(t, u, b)
  PROVE  Sends(r, u, a \o b)
<1>1. PICK x :
        /\ x \in Seq(Frame)
        /\ Bodies(x) /\ r.sends <= t.sends /\ Consecutive(x, r.sends, t.sends)
        /\ a \o Pending(t) = Pending(r) \o x
  BY DEF Sends
<1>2. PICK y :
        /\ y \in Seq(Frame)
        /\ Bodies(y) /\ t.sends <= u.sends /\ Consecutive(y, t.sends, u.sends)
        /\ b \o Pending(u) = Pending(t) \o y
  BY DEF Sends
<1>3. r.sends \in Nat /\ t.sends \in Nat /\ u.sends \in Nat
  BY DEF Session
<1>4. PICK p : p = Pending(r) /\ p \in Seq(Frame)
  BY PendingType
<1>5. PICK q : q = Pending(t) /\ q \in Seq(Frame)
  BY PendingType
<1>6. PICK s : s = Pending(u) /\ s \in Seq(Frame)
  BY PendingType
<1>7. x \o y \in Seq(Frame) /\ Bodies(x \o y) /\ r.sends <= u.sends
  BY <1>1, <1>2, <1>3, BodiesBoth, ConcatProperties
<1>8. Consecutive(x \o y, r.sends, u.sends)
  BY <1>1, <1>2, <1>3, ConsecutiveConcat
<1>9. (a \o b) \o s = p \o (x \o y)
  <2>1. x \in Seq(Frame) /\ y \in Seq(Frame)
    BY <1>1, <1>2
  <2>2. (a \o b) \o s = a \o (b \o s)
    BY <1>6, FramesAssociate
  <2>3. b \o s = q \o y
    BY <1>2, <1>5, <1>6
  <2>4. a \o (q \o y) = (a \o q) \o y
    BY SMTT(30), <1>5, <2>1, FramesAssociate
  <2>5. a \o q = p \o x
    BY <1>1, <1>4, <1>5
  <2>6. (p \o x) \o y = p \o (x \o y)
    BY <1>4, <2>1, FramesAssociate
  <2> QED BY <2>2, <2>3, <2>4, <2>5, <2>6
<1> QED BY <1>4, <1>6, <1>7, <1>8, <1>9 DEF Sends

(* The frames that leave are bodies, and so are those that stay.            *)
LEMMA SendsBodies ==
  ASSUME NEW r \in Session, NEW t \in Session, NEW out \in Seq(Frame),
         Sends(r, t, out), Bodies(Pending(r))
  PROVE  Bodies(out) /\ Bodies(Pending(t))
<1>1. PICK x \in Seq(Frame) : Bodies(x) /\ out \o Pending(t) = Pending(r) \o x
  BY DEF Sends
<1>2. PICK p \in Seq(Frame), q \in Seq(Frame) : p = Pending(r) /\ q = Pending(t)
  BY PendingType
<1>3. Bodies(p \o x)
  BY <1>1, <1>2, BodiesBoth
<1>4. out \o q = p \o x
  BY <1>1, <1>2
<1>5. Bodies(out \o q)
  BY <1>3, <1>4
<1> QED BY <1>2, <1>5, BodiesBoth

-----------------------------------------------------------------------------
(* The two ends of a way.                                                   *)

(* The way from s when s has sent.                                          *)
LEMMA SaysWay ==
  ASSUME NEW s, NEW p, NEW r \in Session, NEW u \in Session, NEW t \in Session,
         NEW w \in Seq(Frame), NEW out \in Seq(Frame),
         Way(s, p, r, t, w), Bodies(Pending(r)), Sends(r, u, out),
         Early(s, u) => Early(s, r), u.link = "up" => r.link = "up",
         r.state = "connecting" => out = <<>>,
         r.state = "closed" => r.link # "up", t.state = "closed" => t.link # "up",
         p \in Conns /\ t.state = "connecting" => r.state \notin {"open", "closing"}
  PROVE  Way(s, p, u, t, IF Whole(r, t) THEN w \o out ELSE w)
<1>0. /\ r.sends \in Nat /\ u.sends \in Nat /\ Len(t.got) \in Nat
      /\ t.carry \in Seq(Frame) /\ r.state \in {"connecting", "open", "closing", "closed"}
      /\ t.garbled \in BOOLEAN
  BY LenProperties DEF Session
<1>1. PICK x \in Seq(Frame) :
        /\ Bodies(x) /\ r.sends <= u.sends /\ Consecutive(x, r.sends, u.sends)
        /\ out \o Pending(u) = Pending(r) \o x
  BY DEF Sends
<1>2. CASE ~Whole(r, t)
  <2>1. ~Whole(u, t)
    BY <1>2 DEF Whole
  <2>2. Unheard(s, p, u, t, w)
    BY DEF Way, Unheard
  <2>3. Numbered(u, t, Stream(t, w))
    <3> DEFINE q == Stream(t, w)
    <3>1. /\ t.got = Numbers(Len(t.got)) /\ Len(t.got) <= r.sends
          /\ ~t.garbled => \E m \in Len(t.got)..r.sends : Consecutive(q, Len(t.got), m)
      BY DEF Way, Numbered
    <3>2. Len(t.got)..r.sends \subseteq Len(t.got)..u.sends /\ Len(t.got) <= u.sends
      BY <1>0, <1>1, <3>1
    <3> HIDE DEF q
    <3> QED BY <2>1, <3>1, <3>2 DEF Numbered, q
  <2> QED BY <1>2, <2>2, <2>3 DEF Way
<1>3. CASE Whole(r, t)
  <2>1. t.state # "closed" /\ r.state # "closed" /\ r.link = "up" /\ t.link = "up"
    BY <1>3 DEF Whole
  <2> DEFINE q == t.carry \o w
             v == w \o out
  <2>2. q \in Seq(Frame) /\ v \in Seq(Frame)
    BY <1>0, ConcatProperties
  <2>3. Stream(t, w) = q /\ Stream(t, v) = q \o out
    <3>1. t.carry \o (w \o out) = (t.carry \o w) \o out
      BY <1>0, FramesAssociate
    <3> QED BY <2>1, <3>1 DEF Stream
  <2>4. Bodies(out)
    BY SendsBodies
  <2>5. out # <<>> => ~Early(s, r)
    BY <2>1 DEF Early
  <2>6. out = <<>> => v = w
    BY ConcatEmptySeq
  <2> HIDE DEF v, q
  <2>7. Formed(p, t, q \o out)
    <3>1. /\ \A i \in 1..Len(q) : Ours(q[i]) /\ (i # 1 => q[i].op \notin Heads)
          /\ Len(q) > 0 /\ q[1].op \in Heads => t.state # "open" /\ ~Granting(p, t)
      BY <2>3 DEF Way, Formed
    <3>2. \A i \in 1..Len(out) : Ours(out[i]) /\ out[i].op \notin Heads
      BY <2>4 DEF Bodies, Body
    <3> DEFINE z == q \o out
    <3>0. /\ Len(z) \in Nat /\ Len(q) \in Nat
          /\ \A i \in 1..Len(z) : \/ i \in 1..Len(q) /\ z[i] = q[i]
                                 \/ \E j \in 1..Len(out) : i = Len(q) + j /\ z[i] = out[j]
      BY <2>2, BothParts
    <3> HIDE DEF z
    <3>3. \A i \in 1..Len(z) : Ours(z[i]) /\ (i # 1 => z[i].op \notin Heads)
      <4>1. TAKE i \in 1..Len(z)
      <4>2. CASE i \in 1..Len(q) /\ z[i] = q[i]
        BY <3>1, <4>2
      <4>3. ASSUME NEW j \in 1..Len(out), z[i] = out[j]
            PROVE  Ours(z[i]) /\ z[i].op \notin Heads
        BY <3>2, <4>3
      <4> QED BY <3>0, <4>2, <4>3
    <3>4. ASSUME Len(z) > 0, z[1].op \in Heads
          PROVE  t.state # "open" /\ ~Granting(p, t)
      <4>1. 1 \in 1..Len(z)
        BY <3>0, <3>4
      <4>2. 1 \in 1..Len(q) /\ z[1] = q[1]
        BY <3>0, <3>2, <3>4, <4>1
      <4>3. Len(q) > 0
        BY <3>0, <4>2
      <4> QED BY <3>1, <3>4, <4>2, <4>3
    <3> QED BY <3>3, <3>4 DEF Formed, z
  <2>8. Unheard(s, p, u, t, v)
    BY <2>5, <2>6 DEF Way, Unheard
  <2>9. Asked(p, t, v)
    <3>1. p \in Conns /\ t.state = "connecting" => out = <<>>
      BY <1>0, <2>1
    <3> QED BY <2>6, <3>1 DEF Way, Asked
  <2>10. Numbered(u, t, q \o out)
    <3>1. /\ t.got = Numbers(Len(t.got)) /\ Len(t.got) <= r.sends
          /\ ~t.garbled => \E m \in Len(t.got)..r.sends :
                             Consecutive(q, Len(t.got), m) /\ Consecutive(Pending(r), m, r.sends)
      BY <1>3, <2>3 DEF Way, Numbered
    <3>2. Len(t.got) <= u.sends
      BY <1>0, <1>1, <3>1
    <3>3. ASSUME ~t.garbled
          PROVE  \E m \in Len(t.got)..u.sends :
                   Consecutive(q \o out, Len(t.got), m) /\ Consecutive(Pending(u), m, u.sends)
      <4>1. PICK m \in Len(t.got)..r.sends :
              Consecutive(q, Len(t.got), m) /\ Consecutive(Pending(r), m, r.sends)
        BY <3>1, <3>3
      <4>2. m \in Nat /\ m <= r.sends /\ Len(t.got) <= m /\ m <= u.sends
        BY <1>0, <1>1, <4>1
      <4>3. Pending(r) \in Seq(Frame) /\ Pending(u) \in Seq(Frame)
        BY PendingType
      <4>4. Consecutive(Pending(r) \o x, m, u.sends)
        BY <1>0, <1>1, <4>1, <4>2, <4>3, ConsecutiveConcat
      <4>5. Consecutive(out \o Pending(u), m, u.sends)
        BY <1>1, <4>4
      <4>6. PICK b \in m..u.sends : Consecutive(out, m, b) /\ Consecutive(Pending(u), b, u.sends)
        BY <1>0, <4>2, <4>3, <4>5, ConsecutiveSplit
      <4>7. b \in Nat /\ m <= b
        BY <4>2, <4>6
      <4>8. Consecutive(q \o out, Len(t.got), b)
        BY <1>0, <2>2, <4>1, <4>2, <4>6, <4>7, ConsecutiveConcat
      <4>9. b \in Len(t.got)..u.sends
        BY <1>0, <4>2, <4>6
      <4> QED BY <4>6, <4>8, <4>9
    <3> QED BY <3>1, <3>2, <3>3 DEF Numbered
  <2> QED BY <1>3, <2>3, <2>7, <2>8, <2>9, <2>10 DEF Way, v
<1> QED BY <1>2, <1>3

-----------------------------------------------------------------------------
(* What p has read of a way, or let go of it.                               *)

(* q is what is left of w without its beginning a and its end z.            *)
LEMMA Middle ==
  ASSUME NEW a \in Seq(Frame), NEW q \in Seq(Frame), NEW z \in Seq(Frame)
  PROVE  LET w == a \o (q \o z) IN
         /\ Len(a) \in Nat /\ Len(q) \in Nat
         /\ \A i \in 1..Len(q) : Len(a) + i \in 1..Len(w) /\ w[Len(a) + i] = q[i]
<1> DEFINE v == q \o z
           w == a \o v
<1>1. /\ v \in Seq(Frame) /\ Len(v) = Len(q) + Len(z) /\ Len(q) \in Nat /\ Len(z) \in Nat
      /\ \A i \in 1..Len(q) : i \in 1..Len(v) /\ v[i] = q[i]
  BY BothParts
<1> HIDE DEF v
<1>2. /\ Len(a) \in Nat
      /\ \A i \in 1..Len(v) : Len(a) + i \in 1..Len(w) /\ w[Len(a) + i] = v[i]
  BY <1>1, BothParts
<1> QED BY <1>1, <1>2 DEF v

LEMMA FormedLeft ==
  ASSUME NEW p, NEW t, NEW u,
         NEW a \in Seq(Frame), NEW q \in Seq(Frame), NEW z \in Seq(Frame),
         NEW w, w = a \o (q \o z), Formed(p, t, w),
         a = <<>> /\ t.state # "open" /\ ~Granting(p, t) =>
           u.state # "open" /\ ~Granting(p, u)
  PROVE  Formed(p, u, q)
<1>1. /\ Len(a) \in Nat /\ Len(q) \in Nat
      /\ \A i \in 1..Len(q) : Len(a) + i \in 1..Len(w) /\ w[Len(a) + i] = q[i]
  BY Middle
<1>2. /\ \A i \in 1..Len(w) : Ours(w[i]) /\ (i # 1 => w[i].op \notin Heads)
      /\ Len(w) > 0 /\ w[1].op \in Heads => t.state # "open" /\ ~Granting(p, t)
  BY DEF Formed
<1>3. \A i \in 1..Len(q) : Ours(q[i]) /\ (i # 1 => q[i].op \notin Heads)
  <2>1. TAKE i \in 1..Len(q)
  <2>2. PICK k : k = Len(a) + i
    OBVIOUS
  <2>3. k \in 1..Len(w) /\ w[k] = q[i] /\ (i # 1 => k # 1)
    BY <1>1, <2>2
  <2> QED BY <1>2, <2>3
<1>4. ASSUME Len(q) > 0, q[1].op \in Heads PROVE u.state # "open" /\ ~Granting(p, u)
  <2>1. PICK k : k = Len(a) + 1
    OBVIOUS
  <2>2. k \in 1..Len(w) /\ w[k] = q[1]
    BY <1>1, <1>4, <2>1
  <2>3. k = 1
    BY <1>2, <1>4, <2>2
  <2>4. Len(a) = 0 /\ Len(w) > 0
    BY <1>1, <2>1, <2>2, <2>3
  <2>5. a = <<>>
    BY <2>4, EmptySeq
  <2> QED BY <1>2, <1>4, <2>2, <2>3, <2>4, <2>5
<1> QED BY <1>3, <1>4 DEF Formed

LEMMA NumberedLeft ==
  ASSUME NEW r \in Session, NEW t \in Session, NEW u \in Session,
         NEW a \in Seq(Frame), NEW q \in Seq(Frame), NEW z \in Seq(Frame),
         NEW w, w = a \o (q \o z), Numbered(r, t, w), u.got = t.got,
         ~u.garbled => ~t.garbled /\ a = <<>>,
         z = <<>> \/ u.link # "up", u.link = "up" => t.link = "up"
  PROVE  Numbered(r, u, q)
<1>1. Len(t.got) \in Nat /\ r.sends \in Nat
  BY LenProperties DEF Session
<1>2. /\ t.got = Numbers(Len(t.got)) /\ Len(t.got) <= r.sends
      /\ ~t.garbled => \E m \in Len(t.got)..r.sends :
           Consecutive(w, Len(t.got), m) /\ (Whole(r, t) => Consecutive(Pending(r), m, r.sends))
  BY DEF Numbered
<1>3. Whole(r, u) => Whole(r, t)
  BY DEF Whole
<1>4. ASSUME ~u.garbled
      PROVE  \E m \in Len(t.got)..r.sends :
               Consecutive(q, Len(t.got), m) /\ (Whole(r, u) => Consecutive(Pending(r), m, r.sends))
  <2>1. PICK m \in Len(t.got)..r.sends :
          Consecutive(w, Len(t.got), m) /\ (Whole(r, t) => Consecutive(Pending(r), m, r.sends))
    BY <1>2, <1>4
  <2>2. w = q \o z
    <3>1. q \o z \in Seq(Frame) /\ a = <<>>
      BY <1>4, ConcatProperties
    <3> QED BY <3>1, ConcatEmptySeq
  <2>3. CASE z = <<>>
    <3>1. w = q
      BY <2>2, <2>3, ConcatEmptySeq
    <3> QED BY <1>3, <2>1, <3>1
  <2>4. CASE u.link # "up"
    <3>1. m \in Nat /\ Len(t.got) <= m /\ m <= r.sends
      BY <1>1, <2>1
    <3>2. PICK b \in Len(t.got)..m : Consecutive(q, Len(t.got), b)
      BY <1>1, <2>1, <2>2, <3>1, ConsecutiveSplit
    <3>3. b \in Len(t.got)..r.sends
      BY <1>1, <3>1, <3>2
    <3> QED BY <2>4, <3>2, <3>3 DEF Whole
  <2> QED BY <2>3, <2>4
<1> QED BY <1>2, <1>4 DEF Numbered

LEMMA NumbersNext ==
  ASSUME NEW n \in Nat
  PROVE  Append(Numbers(n), n + 1) = Numbers(n + 1) /\ Len(Numbers(n)) = n
<1> DEFINE q == Numbers(n)
           l == Numbers(n + 1)
<1>1. q \in Seq(Nat) /\ Len(q) = n /\ (\A i \in 1..n : q[i] = i)
  BY DEF Numbers
<1>2. l \in Seq(Nat) /\ Len(l) = n + 1 /\ (\A i \in 1..(n + 1) : l[i] = i)
  BY DEF Numbers
<1> HIDE DEF q, l
<1>3. /\ Append(q, n + 1) \in Seq(Nat) /\ Len(Append(q, n + 1)) = n + 1
      /\ \A i \in 1..n : Append(q, n + 1)[i] = q[i]
      /\ Append(q, n + 1)[n + 1] = n + 1
  BY <1>1, AppendProperties
<1> DEFINE v == Append(q, n + 1)
<1> HIDE DEF v
<1>4. \A i \in 1..Len(v) : v[i] = l[i]
  BY <1>1, <1>2, <1>3 DEF v
<1>5. v = l
  BY <1>2, <1>3, <1>4, SeqEqual DEF v
<1> QED BY <1>1, <1>5 DEF q, l, v

(* The next frame is delivered when it is a message.                        *)
LEMMA NumberedTakes ==
  ASSUME NEW r \in Session, NEW t \in Session, NEW u \in Session,
         NEW f \in Frame, NEW y \in Seq(Frame),
         Numbered(r, t, <<f>> \o y), ~t.garbled,
         u.got = (IF f.op = "data" THEN Append(t.got, f.n) ELSE t.got),
         u.link = "up" => t.link = "up"
  PROVE  Numbered(r, u, y)
<1>1. PICK g : g = Len(t.got)
  OBVIOUS
<1>2. g \in Nat /\ r.sends \in Nat
  BY <1>1, LenProperties DEF Session
<1>3. Whole(r, u) => Whole(r, t)
  BY DEF Whole
<1>4. PICK m \in g..r.sends :
        /\ Consecutive(<<f>> \o y, g, m)
        /\ Whole(r, t) => Consecutive(Pending(r), m, r.sends)
  BY <1>1 DEF Numbered
<1>5. t.got = Numbers(g)
  BY <1>1 DEF Numbered
<1>6. m \in Nat /\ g <= m /\ m <= r.sends /\ <<f>> \in Seq(Frame)
  BY <1>2, <1>4
<1>7. PICK b \in g..m : Consecutive(<<f>>, g, b) /\ Consecutive(y, b, m)
  BY <1>2, <1>4, <1>6, ConsecutiveSplit
<1>8. b \in Nat /\ g <= b /\ b <= m
  BY <1>2, <1>6, <1>7
<1>9. IF f.op = "data" THEN b = g + 1 /\ f.n = b ELSE b = g
  BY <1>2, <1>7, <1>8, ConsecutiveOne
<1>10. u.got = Numbers(b)
  BY <1>2, <1>5, <1>9, NumbersNext
<1>11. Len(u.got) = b
  BY <1>8, <1>10, NumbersNext
<1>12. m \in b..r.sends /\ b <= r.sends
  BY <1>2, <1>6, <1>8
<1> QED BY <1>3, <1>4, <1>7, <1>10, <1>11, <1>12 DEF Numbered

-----------------------------------------------------------------------------
(* The session goes on: it does not open, unless it was granting, nor       *)
(* connect again.                                                           *)
Onward(p, t, u) ==
  /\ u.state = "connecting" => t.state = "connecting" /\ (p \in Conns => u.phase = t.phase)
  /\ u.state = "open" => t.state = "open" \/ Granting(p, t)
  /\ u.state = "closing" => \/ t.state \in {"open", "closing"}
                            \/ p \in Conns /\ t.state = "connecting"
  /\ u.link = "up" => t.link = "up"

(* What is left of a way that p reads nothing of.                           *)
Left(t, w, u, x) ==
  \E a, z \in Seq(Frame) :
    /\ Stream(t, w) = a \o (Stream(u, x) \o z)
    /\ ~u.garbled => a = <<>>
    /\ z = <<>> \/ u.link # "up"

LEMMA StreamLeft ==
  ASSUME NEW p, NEW t \in Session, NEW u \in Session, NEW w \in Seq(Frame), NEW x \in Seq(Frame),
         Onward(p, t, u), u.state = "closed" => u.link # "up",
         u.carry = t.carry \/ (u.carry = <<>> /\ (u.state = "closed" \/ u.garbled)),
         x = w \/ (x = <<>> /\ u.link # "up")
  PROVE  Left(t, w, u, x)
<1>0. /\ t.carry \in Seq(Frame) /\ u.carry \in Seq(Frame) /\ <<>> \in Seq(Frame)
      /\ u.state \in {"connecting", "open", "closing", "closed"}
  BY DEF Session
<1>1. \A q \in Seq(Frame) : q \o <<>> = q /\ <<>> \o q = q
  BY ConcatEmptySeq
<1> DEFINE c == t.carry
<1>2. c \o w \in Seq(Frame)
  BY <1>0, ConcatProperties
<1>3. CASE u.state = "closed"
  <2>1. Stream(u, x) = u.carry /\ u.link # "up"
    BY <1>3 DEF Stream
  <2>2. Stream(t, w) \in {c, c \o w}
    BY DEF Stream
  <2>3. CASE u.carry = c
    <3>1. PICK z \in Seq(Frame) : Stream(t, w) = c \o z
      BY <1>0, <1>1, <2>2
    <3>2. Stream(t, w) = <<>> \o (u.carry \o z)
      <4>1. c \o z \in Seq(Frame)
        BY <1>0, ConcatProperties
      <4> QED BY <1>1, <2>3, <3>1, <4>1
    <3> QED BY <1>0, <2>1, <3>2 DEF Left
  <2>4. CASE u.carry = <<>>
    <3>1. Stream(t, w) \in Seq(Frame)
      BY <1>0, <1>2, <2>2
    <3>2. Stream(t, w) = <<>> \o (<<>> \o Stream(t, w))
      BY <1>1, <3>1
    <3> QED BY <1>0, <2>1, <2>4, <3>1, <3>2 DEF Left
  <2> QED BY <2>3, <2>4
<1>4. CASE u.state # "closed"
  <2>1. t.state # "closed"
    BY <1>0, <1>4 DEF Onward, Granting
  <2>2. Stream(t, w) = c \o w /\ Stream(u, x) = u.carry \o x
    BY <1>4, <2>1 DEF Stream
  <2>3. CASE u.carry = c /\ x = w
    <3>1. c \o w = <<>> \o ((c \o w) \o <<>>)
      BY <1>1, <1>2
    <3> QED BY <1>0, <2>2, <2>3, <3>1 DEF Left
  <2>4. CASE u.carry = c /\ x = <<>> /\ u.link # "up"
    <3>1. c \o w = <<>> \o ((c \o <<>>) \o w)
      BY <1>0, <1>1, <1>2
    <3> QED BY <1>0, <2>2, <2>4, <3>1 DEF Left
  <2>5. CASE u.carry = <<>> /\ u.garbled /\ x = w
    <3>1. c \o w = c \o ((<<>> \o w) \o <<>>)
      BY <1>1
    <3> QED BY <1>0, <2>2, <2>5, <3>1 DEF Left
  <2>6. CASE u.carry = <<>> /\ x = <<>> /\ u.link # "up"
    <3>1. c \o w = <<>> \o ((<<>> \o <<>>) \o (c \o w))
      BY <1>0, <1>1, <1>2
    <3> QED BY <1>0, <1>2, <2>2, <2>6, <3>1 DEF Left
  <2> QED BY <1>4, <2>3, <2>4, <2>5, <2>6
<1> QED BY <1>3, <1>4 DEF Left

(* The way to p when p reads nothing of it.                                 *)
LEMMA DeafWay ==
  ASSUME NEW s, NEW p, s \in Conns => p \notin Conns,
         NEW r \in Session, NEW t \in Session, NEW u \in Session,
         NEW w \in Seq(Frame), NEW x \in Seq(Frame),
         Way(s, p, r, t, w), Onward(p, t, u), u.state = "closed" => u.link # "up",
         u.carry = t.carry \/ (u.carry = <<>> /\ (u.state = "closed" \/ u.garbled)),
         x = w \/ (x = <<>> /\ u.link # "up"),
         u.got = t.got, ~u.garbled => ~t.garbled, Asked(p, u, x)
  PROVE  Way(s, p, r, u, x)
<1>0. Left(t, w, u, x)
  BY StreamLeft
<1>1. PICK a \in Seq(Frame), z \in Seq(Frame) :
        /\ Stream(t, w) = a \o (Stream(u, x) \o z)
        /\ ~u.garbled => a = <<>>
        /\ z = <<>> \/ u.link # "up"
  BY <1>0 DEF Left
<1>2. t.carry \in Seq(Frame) /\ u.carry \in Seq(Frame)
      /\ u.state \in {"connecting", "open", "closing", "closed"}
  BY DEF Session
<1>3. PICK q : q = Stream(u, x) /\ q \in Seq(Frame)
  BY <1>2, ConcatProperties DEF Stream
<1>4. PICK v : v = Stream(t, w)
  OBVIOUS
<1>5. v = a \o (q \o z)
  BY <1>1, <1>3, <1>4
<1>6. t.state # "open" /\ ~Granting(p, t) => u.state # "open" /\ ~Granting(p, u)
  BY DEF Onward, Granting
<1>7. Formed(p, u, q)
  <2>1. Formed(p, t, v)
    BY <1>4 DEF Way
  <2> QED BY <1>3, <1>5, <1>6, <2>1, FormedLeft
<1>8. Numbered(r, u, q)
  <2>1. Numbered(r, t, v)
    BY <1>4 DEF Way
  <2>2. ~u.garbled => ~t.garbled /\ a = <<>>
    BY <1>1
  <2>3. u.link = "up" => t.link = "up"
    BY DEF Onward
  <2> QED BY ZenonT(60), <1>1, <1>3, <1>5, <2>1, <2>2, <2>3, NumberedLeft
<1>9. Unheard(s, p, r, u, x)
  <2>1. SUFFICES ASSUME Early(s, r)
                 PROVE  /\ x = <<>> /\ u.carry = <<>> /\ u.state # "open" /\ ~Granting(p, u)
                        /\ s \in Conns => u.state # "closing"
    BY DEF Unheard
  <2>2. /\ w = <<>> /\ t.carry = <<>> /\ t.state # "open" /\ ~Granting(p, t)
        /\ s \in Conns => t.state # "closing"
    BY <2>1 DEF Way, Unheard
  <2> QED BY <1>6, <2>2 DEF Onward
<1> QED BY <1>3, <1>7, <1>8, <1>9 DEF Way

(* The way to p when p takes the next frame of it.                          *)
LEMMA TakeWay ==
  ASSUME NEW s, NEW p, NEW r \in Session, NEW t \in Session, NEW u \in Session,
         NEW w \in Seq(Frame), NEW x \in Seq(Frame), NEW f \in Frame, NEW y \in Seq(Frame),
         Way(s, p, r, t, w), Stream(t, w) = <<f>> \o y, Stream(u, x) = y,
         u.garbled = t.garbled, u.link = "up" => t.link = "up",
         u.got = (IF f.op = "data" /\ ~t.garbled THEN Append(t.got, f.n) ELSE t.got),
         Asked(p, u, x)
  PROVE  Way(s, p, r, u, x) /\ Ours(f)
<1>0. <<f>> \in Seq(Frame) /\ <<f>> # <<>> /\ <<>> \in Seq(Frame)
      /\ y \o <<>> = y /\ <<>> \o y = y
  BY ConcatEmptySeq
<1>1. PICK v : v = <<f>> \o y
  OBVIOUS
<1>2. v = <<f>> \o (y \o <<>>)
  BY <1>0, <1>1
<1>3. Formed(p, t, v) /\ Numbered(r, t, v)
  BY <1>1 DEF Way
<1>4. Formed(p, u, y)
  <2> DEFINE a == <<f>>
             z == <<>>
  <2>1. a \in Seq(Frame) /\ z \in Seq(Frame) /\ a # <<>> /\ v = a \o (y \o z)
    BY <1>0, <1>2
  <2> HIDE DEF a, z
  <2> QED BY <1>3, <2>1, FormedLeft
<1>5. Numbered(r, u, y)
  <2>1. CASE t.garbled
    BY <1>3, <2>1 DEF Numbered
  <2>2. CASE ~t.garbled
    BY <1>1, <1>3, <2>2, NumberedTakes
  <2> QED BY <2>1, <2>2
<1>6. Len(v) > 0 /\ v[1] = f
  <2>1. /\ Len(v) = Len(<<f>>) + Len(y) /\ Len(y) \in Nat /\ Len(<<f>>) = 1
        /\ \A i \in 1..Len(<<f>>) : v[i] = <<f>>[i]
    BY <1>0, <1>1, BothParts
  <2>2. 1 \in 1..Len(<<f>>) /\ <<f>>[1] = f
    BY <2>1
  <2> QED BY <2>1, <2>2
<1>7. Ours(f)
  <2>1. Len(v) \in Nat
    BY <1>0, <1>1, BothParts
  <2> QED BY <1>3, <1>6, <2>1 DEF Formed
<1>8. ~Early(s, r)
  <2>1. SUFFICES ASSUME Early(s, r) PROVE FALSE
    OBVIOUS
  <2>2. w = <<>> /\ t.carry = <<>>
    BY <2>1 DEF Way, Unheard
  <2>3. Stream(t, w) = <<>>
    BY <2>2 DEF Stream
  <2>4. Len(v) = 0
    BY <1>1, <2>3
  <2> QED BY <1>6, <2>4
<1> QED BY <1>4, <1>5, <1>7, <1>8 DEF Way, Unheard

(* The way from s when s sends its own head.                                *)
LEMMA HeadWay ==
  ASSUME NEW s, NEW p, NEW r \in Session, NEW u \in Session, NEW t \in Session,
         NEW w \in Seq(Frame), NEW f \in Frame, Way(s, p, r, t, w), Early(s, r),
         Ours(f), f.op \in Heads, p \in Conns => f.op = "request",
         u.tx = r.tx, u.part = r.part, u.sends = r.sends, ~Early(s, u),
         u.link = "up" => r.link = "up", t.state = "closed" => t.link # "up"
  PROVE  Way(s, p, u, t, IF Whole(r, t) THEN w \o <<f>> ELSE w)
<1>1. /\ w = <<>> /\ t.carry = <<>> /\ t.state # "open" /\ ~Granting(p, t)
      /\ s \in Conns => t.state # "closing"
  BY DEF Way, Unheard
<1>2. Stream(t, w) = <<>>
  BY <1>1 DEF Stream
<1>3. Numbered(r, t, <<>>)
  BY <1>2 DEF Way
<1>4. Whole(u, t) => Whole(r, t)
  BY DEF Whole
<1>5. Pending(u) = Pending(r)
  BY DEF Pending
<1>6. Unheard(s, p, u, t, w) /\ \A v : Unheard(s, p, u, t, v)
  BY DEF Unheard
<1>7. Len(t.got) \in Nat /\ r.sends \in Nat
  BY LenProperties DEF Session
<1>8. CASE ~Whole(r, t)
  <2>1. Numbered(u, t, <<>>)
    BY <1>3, <1>4, <1>8 DEF Numbered
  <2> QED BY <1>2, <1>6, <1>8, <2>1 DEF Way
<1>9. CASE Whole(r, t)
  <2>1. Stream(t, <<f>>) = <<f>> /\ w \o <<f>> = <<f>>
    <3>1. <<f>> \in Seq(Frame) /\ t.state # "closed"
      BY <1>9 DEF Whole
    <3> QED BY <1>1, <3>1, ConcatEmptySeq DEF Stream
  <2> DEFINE q == <<f>>
  <2>2. q \in Seq(Frame) /\ Len(q) = 1 /\ q[1] = f /\ <<>> \o q = q /\ <<>> \in Seq(Frame)
    BY ConcatEmptySeq
  <2>3. \A i \in 1..Len(q) : i = 1 /\ q[i] = f
    BY <2>2
  <2> HIDE DEF q
  <2>4. Formed(p, t, q)
    BY <1>1, <2>2, <2>3 DEF Formed
  <2>5. Asked(p, t, q)
    BY <2>3 DEF Way, Asked
  <2>6. \A m \in Nat : Consecutive(q, m, m)
    <3>1. \A i \in 1..Len(q) : q[i].op # "data"
      BY <2>3 DEF Heads
    <3> QED BY <3>1, ConsecutiveNone
  <2>7. Numbered(u, t, q)
    <3>1. ASSUME ~t.garbled
          PROVE  \E m \in Len(t.got)..r.sends :
                   Consecutive(q, Len(t.got), m) /\ Consecutive(Pending(r), m, r.sends)
      <4>1. PICK m \in Len(t.got)..r.sends :
              Consecutive(<<>>, Len(t.got), m) /\ Consecutive(Pending(r), m, r.sends)
        BY <1>3, <1>9, <3>1 DEF Numbered
      <4>2. m \in Nat /\ Len(t.got) <= m
        BY <1>7, <4>1
      <4>3. Consecutive(q, m, m)
        BY <2>6, <4>2
      <4>5. PICK e \in Seq(Frame) : e = <<>>
        BY <2>2
      <4>6. Consecutive(e, Len(t.got), m) /\ m <= m
        BY <4>1, <4>2, <4>5
      <4>7. Consecutive(e \o q, Len(t.got), m)
        BY <1>7, <2>2, <4>2, <4>3, <4>6, ConsecutiveConcat
      <4>4. Consecutive(<<>> \o q, Len(t.got), m)
        BY <4>5, <4>7
      <4> QED BY <2>2, <4>1, <4>4
    <3>2. t.got = Numbers(Len(t.got)) /\ Len(t.got) <= r.sends
      BY <1>3 DEF Numbered
    <3> QED BY <1>5, <3>1, <3>2 DEF Numbered
  <2> QED BY <1>6, <1>9, <2>1, <2>4, <2>5, <2>7 DEF Way, q
<1> QED BY <1>8, <1>9

-----------------------------------------------------------------------------
(* What becomes of a pair in a step of one of the two.                      *)

(* The sender has changed nothing that the way depends on.                  *)
LEMMA SameWay ==
  ASSUME NEW s, NEW p, NEW r, NEW u, NEW t, NEW w, Way(s, p, r, t, w),
         u.sends = r.sends, Early(s, u) => Early(s, r),
         Whole(u, t) => Whole(r, t) /\ Pending(u) = Pending(r)
  PROVE  Way(s, p, u, t, w)
<1>1. Unheard(s, p, u, t, w)
  BY DEF Way, Unheard
<1>2. Numbered(u, t, Stream(t, w))
  <2>1. PICK q : q = Stream(t, w)
    OBVIOUS
  <2>2. Numbered(r, t, q)
    BY <2>1 DEF Way
  <2>3. Numbered(u, t, q)
    BY <2>2 DEF Numbered
  <2> QED BY <2>1, <2>3
<1> QED BY <1>1, <1>2 DEF Way

(* The receiver is over, and nobody reads the rest.                         *)
LEMMA OverWay ==
  ASSUME NEW s, NEW p, NEW r \in Session, NEW t \in Session, NEW u \in Session,
         NEW w, Way(s, p, r, t, w), u.state = "closed", u.link # "up",
         u.carry = <<>>, u.got = t.got
  PROVE  Way(s, p, r, u, <<>>)
<1>1. Stream(u, <<>>) = <<>>
  BY DEF Stream
<1>2. Len(t.got) \in Nat /\ r.sends \in Nat
  BY LenProperties DEF Session
<1>3. t.got = Numbers(Len(t.got)) /\ Len(t.got) <= r.sends
  BY DEF Way, Numbered
<1>4. Numbered(r, u, <<>>)
  <2>1. PICK m : m = Len(t.got)
    OBVIOUS
  <2>2. Consecutive(<<>>, m, m) /\ m \in m..r.sends /\ ~Whole(r, u)
    BY <1>2, <1>3, <2>1, ConsecutiveEmpty DEF Whole
  <2>3. u.got = Numbers(m) /\ Len(u.got) = m /\ m <= r.sends
    BY <1>3, <2>1
  <2> QED BY <2>2, <2>3 DEF Numbered
<1>5. Formed(p, u, <<>>)
  BY DEF Formed
<1>6. Unheard(s, p, r, u, <<>>) /\ Asked(p, u, <<>>)
  BY DEF Unheard, Granting, Asked
<1> QED BY <1>1, <1>4, <1>5, <1>6 DEF Way

(* A session whose transport alone has changed, for the worse.              *)
Worse(x, y) ==
  /\ x \in Session /\ y \in Session
  /\ y.state = x.state /\ y.phase = x.phase /\ y.pc = x.pc /\ y.back = x.back
  /\ y.carry = x.carry /\ y.tx = x.tx /\ y.part = x.part /\ y.msg = x.msg
  /\ y.garbled = x.garbled /\ y.code = x.code /\ y.sends = x.sends /\ y.got = x.got
  /\ y.link = x.link \/ (x.link # "none" /\ y.link \notin {"none", "up"})

LEMMA WorseLink ==
  ASSUME NEW x \in Session, NEW l \in {"eof", "reset", "dead", "closed"}, x.link # "none"
  PROVE  Worse(x, [x EXCEPT !.link = l]) /\ Worse(x, x)
BY ZenonT(60) DEF Session, Worse

LEMMA WorseOwn ==
  ASSUME NEW x, NEW y, Worse(x, y), Own(x)
  PROVE  Own(y)
<1>1. Pending(y) = Pending(x)
  BY DEF Worse, Pending
<1> QED BY <1>1 DEF Worse, Own, Carrying

LEMMA WorseWays ==
  ASSUME NEW s, NEW p, s \in Conns => p \notin Conns, NEW x, NEW y, Worse(x, y),
         NEW t \in Session, x.state = "closed" => x.link # "up"
  PROVE  /\ \A w : Way(s, p, x, t, w) => Way(s, p, y, t, w)
         /\ \A w \in Seq(Frame) : Way(p, s, t, x, w) => Way(p, s, t, y, w)
         /\ \A w \in Seq(Frame) : y.link # "up" /\ Way(p, s, t, x, w) => Way(p, s, t, y, <<>>)
<1>1. Pending(y) = Pending(x)
  BY DEF Worse, Pending
<1>2. (Early(s, y) => Early(s, x)) /\ (Whole(y, t) => Whole(x, t)) /\ y.sends = x.sends
  BY DEF Worse, Early, Whole
<1>3. ASSUME NEW w, Way(s, p, x, t, w) PROVE Way(s, p, y, t, w)
  BY <1>1, <1>2, <1>3, SameWay
<1>4. ASSUME NEW w \in Seq(Frame), NEW v \in Seq(Frame), Way(p, s, t, x, w),
             v = w \/ (v = <<>> /\ y.link # "up")
      PROVE  Way(p, s, t, y, v)
  <2>1. Onward(s, x, y) /\ (y.state = "closed" => y.link # "up")
    BY DEF Worse, Onward
  <2>2. Asked(s, x, w)
    BY <1>4 DEF Way
  <2>3. Asked(s, y, v)
    <3>1. v = <<>> => \A i \in 1..Len(v) : v[i].op = "request"
      OBVIOUS
    <3> QED BY <1>4, <2>2, <3>1 DEF Asked, Worse
  <2>4. x \in Session /\ y \in Session /\ y.carry = x.carry /\ y.got = x.got
        /\ y.garbled = x.garbled
    BY DEF Worse
  <2>5. p \in Conns => s \notin Conns
    OBVIOUS
  <2> QED BY <1>4, <2>1, <2>3, <2>4, <2>5, DeafWay
<1>5. <<>> \in Seq(Frame)
  OBVIOUS
<1> QED BY <1>3, <1>4, <1>5

(* An outcome of s, rest of its wire left to read, is fair to its peer.     *)
Fair(s, o, rest) ==
  LET p == peer[s] IN
  p # None =>
    /\ Own(o.r)
    /\ Way(s, p, o.r, ws[p], IF Whole(ws[s], ws[p]) THEN wire[p] \o o.out ELSE wire[p])
    /\ Way(p, s, ws[p], o.r, rest)

(* A session after its outcome.                                             *)
Counted(x, n) == Forgotten([x EXCEPT !.shut = n])
Unread(r, w)  == IF Ended(r) THEN <<>> ELSE w

LEMMA MessageFits ==
  ASSUME NEW d \in Session, NEW m \in Messages
  PROVE  [d EXCEPT !.msg = m] \in Session
BY DEF Session, Messages

LEMMA CountedKept ==
  ASSUME NEW x \in Session, NEW n
  PROVE  Counted(x, n).link = x.link /\ Counted(x, n).state = x.state
BY DEF Counted, Forgotten, Session

LEMMA SettledFair ==
  ASSUME NEW s, NEW p, NEW x \in Session, NEW t \in Session, NEW n \in Nat,
         s \in Conns => p \notin Conns,
         x.state = "closed" => x.link # "up", Own(x),
         NEW v, Way(s, p, x, t, v), NEW w \in Seq(Frame), Way(p, s, t, x, w),
         NEW r, r = Counted(x, n)
  PROVE  /\ r \in Session /\ Own(r) /\ Way(s, p, r, t, v)
         /\ Way(p, s, t, r, Unread(r, w))
         /\ r.link = x.link /\ r.state = x.state
<1> DEFINE c == [x EXCEPT !.shut = n]
<1>0. r = Forgotten(c)
  BY DEF Counted
<1>1. c \in Session /\ Worse(x, c) /\ c.link = x.link
  BY DEF Session, Worse
<1>2. c.state = x.state
  BY <1>1 DEF Worse
<1>3. Own(c) /\ Way(s, p, c, t, v) /\ Way(p, s, t, c, w)
  BY <1>1, WorseOwn, WorseWays
<1> HIDE DEF c
<1>4. CASE ~Ended(c)
  <2>1. r = c
    BY <1>0, <1>4 DEF Forgotten
  <2>2. r.state = x.state /\ r.link = x.link /\ ~Ended(r)
    BY <1>1, <1>2, <1>4, <2>1
  <2>3. r \in Session /\ Own(r) /\ Way(s, p, r, t, v) /\ Way(p, s, t, r, w)
    BY <1>1, <1>3, <2>1
  <2>4. Way(p, s, t, r, Unread(r, w))
    BY <2>2, <2>3 DEF Unread
  <2> QED BY <2>2, <2>3, <2>4
<1>5. CASE Ended(c)
  <2>1. r = [c EXCEPT !.tx = <<>>, !.part = None, !.msg = NoMessage, !.garbled = FALSE,
                      !.carry = <<>>]
    BY <1>0, <1>5 DEF Forgotten
  <2>2. /\ r.state = c.state /\ r.phase = c.phase /\ r.pc = c.pc /\ r.back = c.back
        /\ r.code = c.code /\ r.sends = c.sends /\ r.got = c.got /\ r.link = c.link
        /\ r.tx = <<>> /\ r.part = None /\ r.msg = NoMessage /\ r.garbled = FALSE
        /\ r.carry = <<>>
    BY <1>1, <2>1 DEF Session
  <2>3. r \in Session
    <3>1. <<>> \in Seq(Frame) /\ NoMessage \in Messages
      <4>1. MaxMessage \in Nat /\ MaxEmptyRun \in Nat
        BY SessionAssumption
      <4> QED BY <4>1 DEF NoMessage, Messages
    <3>2. PICK m \in Messages : m = NoMessage
      BY <3>1
    <3>3. PICK d : d = [c EXCEPT !.tx = <<>>, !.part = None, !.garbled = FALSE,
                                 !.carry = <<>>]
      OBVIOUS
    <3>4. d \in Session
      BY ZenonT(60), <1>1, <3>1, <3>3 DEF Session
    <3>5. r = [d EXCEPT !.msg = m]
      BY <1>1, <2>1, <3>2, <3>3 DEF Session
    <3> QED BY <3>2, <3>4, <3>5, MessageFits
  <2>4. r.state = "closed" /\ r.link # "up" /\ Ended(r)
    BY <1>1, <1>2, <1>5, <2>2 DEF Ended
  <2>5. Pending(r) = <<>>
    BY <2>2 DEF Pending
  <2>6. Own(r)
    BY <1>3, <2>2, <2>4, <2>5, BodiesFew DEF Own
  <2>7. Way(s, p, r, t, v)
    <3>1. (Early(s, r) => Early(s, c)) /\ ~Whole(r, t)
      BY <2>2, <2>4 DEF Early, Whole
    <3> QED BY <1>3, <2>2, <3>1, SameWay
  <2>8. Way(p, s, t, r, <<>>)
    BY <1>1, <1>3, <2>2, <2>3, <2>4, OverWay
  <2>9. Way(p, s, t, r, Unread(r, w))
    BY <2>4, <2>8 DEF Unread
  <2>10. r.link = x.link /\ r.state = x.state
    BY <1>1, <1>2, <2>2
  <2> QED BY <2>3, <2>6, <2>7, <2>9, <2>10
<1> QED BY <1>4, <1>5

LEMMA PairYield ==
  ASSUME IInv, IInv', Paired, NEW s \in Live, NEW o, o.r \in Session, o.out \in Seq(Frame),
         o.r.state = "closed" => o.r.link # "up",
         NEW rest \in Seq(Frame), YieldFrom(s, o, rest), Fair(s, o, rest)
  PROVE  Paired'
<1> DEFINE p == peer[s]
           n == o.r.shut + Closes(o.out)
           r == Forgotten([o.r EXCEPT !.shut = n])
<1>1. /\ ws' = [t \in Live |->
                  IF t = s THEN r
                  ELSE IF t = p /\ r.link = "closed" /\ ws[t].link = "up"
                  THEN [ws[t] EXCEPT !.link = "eof"] ELSE ws[t]]
      /\ wire' = [t \in Live |->
                    IF t = s THEN IF Ended(r) THEN <<>> ELSE rest
                    ELSE IF t = p /\ ws[s].link = "up" /\ ws[t].link = "up"
                    THEN wire[t] \o o.out ELSE wire[t]]
      /\ peer' = peer
  BY DEF YieldFrom
<1>2. Live' = Live
  BY <1>1 DEF Live
<1>3. n \in Nat
  <2>1. o.r.shut \in Nat
    BY DEF Session
  <2>2. Closes(o.out) \in Nat
    BY ClosesCounted
  <2> QED BY <2>1, <2>2
<1> HIDE DEF n
<1>4. \A t \in Live : ws[t] \in Session /\ (ws[t].state = "closed" => ws[t].link # "up")
                      /\ wire[t] \in Seq(Frame)
  BY SoundHere DEF Sound, Linked
<1>5. \A t \in Live : peer[t] # None =>
         /\ peer[t] \in Live /\ peer[peer[t]] = t /\ peer[t] # t
         /\ t \in Conns => peer[t] \notin Conns
  BY Pairs, SessionAssumption DEF IInv
<1>6. ASSUME NEW t \in Live, peer[t] # None, t \notin {s, p}
      PROVE  (Own(ws[t]) /\ Way(t, peer[t], ws[t], ws[peer[t]], wire[peer[t]]))'
  <2>1. PICK q : q = peer[t]
    OBVIOUS
  <2>2. q \in Live /\ q \notin {s, p} /\ peer[q] = t
    BY <1>5, <1>6, <2>1
  <2>3. ws'[t] = ws[t] /\ ws'[q] = ws[q] /\ wire'[q] = wire[q]
    BY <1>1, <1>6, <2>2
  <2>4. Own(ws[t]) /\ Way(t, q, ws[t], ws[q], wire[q])
    BY <1>6, <2>1 DEF Paired
  <2>5. Own(ws'[t]) /\ Way(t, q, ws'[t], ws'[q], wire'[q])
    BY <2>3, <2>4
  <2>6. peer'[t] = q
    BY <1>1, <2>1
  <2> QED BY <2>5, <2>6
<1>7. ASSUME p # None
      PROVE  /\ Own(ws'[s]) /\ Way(s, p, ws'[s], ws'[p], wire'[p])
             /\ Own(ws'[p]) /\ Way(p, s, ws'[p], ws'[s], wire'[s])
  <2>1. p \in Live /\ p # s /\ peer[p] = s /\ (s \in Conns => p \notin Conns)
    BY <1>5, <1>7
  <2>2. PICK t : t = ws[p]
    OBVIOUS
  <2>3. PICK v : v = IF Whole(ws[s], t) THEN wire[p] \o o.out ELSE wire[p]
    OBVIOUS
  <2>4. t \in Session /\ v \in Seq(Frame) /\ Own(t) /\ (t.state = "closed" => t.link # "up")
    <3>0. s # None
      BY Pairs, SessionAssumption DEF IInv
    <3>1. Own(ws[p])
      BY <2>1, <3>0 DEF Paired
    <3>2. wire[p] \o o.out \in Seq(Frame)
      BY <1>4, <2>1, ConcatProperties
    <3> QED BY <1>4, <2>1, <2>2, <2>3, <3>1, <3>2
  <2>5. Own(o.r) /\ Way(s, p, o.r, t, v) /\ Way(p, s, t, o.r, rest)
    BY <1>7, <2>2, <2>3 DEF Fair
  <2>6. /\ r \in Session /\ Own(r) /\ Way(s, p, r, t, v)
        /\ Way(p, s, t, r, Unread(r, rest))
        /\ r.link = o.r.link /\ r.state = o.r.state
    <3>1. PICK z, e, q : z = o.r /\ e = r /\ q = p
      OBVIOUS
    <3>2. /\ z \in Session /\ (z.state = "closed" => z.link # "up") /\ Own(z)
          /\ (s \in Conns => q \notin Conns) /\ Way(s, q, z, t, v) /\ Way(q, s, t, z, rest)
      BY <2>1, <2>5, <3>1
    <3>3. e = Counted(z, n)
      BY <3>1 DEF Counted
    <3>4. /\ e \in Session /\ Own(e) /\ Way(s, q, e, t, v)
          /\ Way(q, s, t, e, Unread(e, rest))
          /\ e.link = z.link /\ e.state = z.state
      <4>1. PICK k \in Nat : e = Counted(z, k)
        BY <1>3, <3>3
      <4>2. z \in Session /\ t \in Session /\ Own(z) /\ (s \in Conns => q \notin Conns)
        BY <2>4, <3>2
      <4>3. Way(s, q, z, t, v) /\ Way(q, s, t, z, rest) /\ (z.state = "closed" => z.link # "up")
        BY <3>2
      <4>4. Own(e)
        BY <4>1, <4>2, <4>3, SettledFair
      <4>5. e \in Session
        BY <4>1, <4>2, <4>3, SettledFair
      <4>8. e.link = z.link /\ e.state = z.state
        BY <4>1, <4>2, CountedKept
      <4>6. Way(s, q, e, t, v)
        BY <4>1, <4>2, <4>3, SettledFair
      <4>7. Way(q, s, t, e, Unread(e, rest))
        BY <4>1, <4>2, <4>3, SettledFair
      <4> QED BY <4>4, <4>5, <4>6, <4>7, <4>8
    <3> HIDE DEF r, p
    <3> QED BY <3>1, <3>4
  <2> HIDE DEF r
  <2>7. PICK x : x = Unread(r, rest)
    OBVIOUS
  <2>8. /\ ws'[s] = r /\ wire'[s] = x /\ wire'[p] = v /\ x \in Seq(Frame)
        /\ ws'[p] = IF r.link = "closed" /\ t.link = "up" THEN [t EXCEPT !.link = "eof"] ELSE t
    BY <1>1, <2>1, <2>2, <2>3, <2>7 DEF Whole, Unread
  <2>9. PICK y : y = ws'[p]
    OBVIOUS
  <2>10. Worse(t, y)
    <3>1. Worse(t, t)
      BY <2>4 DEF Worse
    <3> QED BY <2>4, <2>8, <2>9, <3>1, WorseLink
  <2>11. p \in Conns => s \notin Conns
    BY <2>1
  <2>12. Way(s, p, r, y, v) /\ Way(p, s, y, r, x)
    BY <2>4, <2>6, <2>7, <2>10, <2>11, WorseWays
  <2> QED BY <2>4, <2>6, <2>8, <2>9, <2>10, <2>12, WorseOwn
<1>8. ASSUME NEW t \in Live, peer[t] # None
      PROVE  (Own(ws[t]) /\ Way(t, peer[t], ws[t], ws[peer[t]], wire[peer[t]]))'
  <2>1. CASE t \notin {s, p}
    BY <1>6, <1>8, <2>1
  <2>2. CASE t = s
    <3>1. p # None /\ peer'[t] = p
      BY <1>1, <1>8, <2>2
    <3> QED BY <1>7, <2>2, <3>1
  <2>3. CASE t = p
    <3>1. p # None
      BY <2>3, <1>8, <1>5, Pairs, SessionAssumption DEF IInv
    <3>2. peer'[t] = s
      BY <1>1, <1>5, <2>3, <3>1
    <3> QED BY <1>7, <2>3, <3>1, <3>2
  <2> QED BY <2>1, <2>2, <2>3
<1>9. \A t \in Live : peer[t] # None =>
        (Own(ws[t]) /\ Way(t, peer[t], ws[t], ws[peer[t]], wire[peer[t]]))'
  BY <1>8
<1> QED BY <1>1, <1>2, <1>9 DEF Paired

-----------------------------------------------------------------------------
(* What a session does between two reads.                                   *)

(* From r to u, out having left: the session does not open or connect, and  *)
(* sends nothing before it is connected.                                    *)
Turns(s, r, u, out) ==
  /\ u \in Session /\ out \in Seq(Frame) /\ Sends(r, u, out)
  /\ u.msg = r.msg
  /\ Civil /\ r.code \notin Accusing => u.code \notin Accusing
  /\ u.state = "connecting" => r.state = "connecting" /\ u.phase = r.phase
  /\ u.state = "open" => r.state = "open"
  /\ u.state = "closing" => \/ r.state \in {"open", "closing"}
                            \/ s \in Conns /\ r.state = "connecting" /\ r.link # "none"
  /\ (u.link = "none" <=> r.link = "none") /\ (u.link = "up" => r.link = "up")
  /\ u.state = "closed" /\ u.link = "up" => r.state = "closed" /\ r.link = "up"
  /\ u.state = "connecting" \/ u.link = "none" =>
       u.tx = r.tx /\ u.part = r.part /\ u.sends = r.sends

(* What it has received, and its place in the pass, stay the same.          *)
Still(r, u) ==
  /\ u.got = r.got /\ u.garbled = r.garbled
  /\ u.pc = r.pc /\ u.back = r.back /\ u.carry = r.carry

LEMMA TurnsComposes ==
  ASSUME NEW s, NEW r \in Session, NEW t, NEW u, NEW a, NEW b,
         Turns(s, r, t, a), Turns(s, t, u, b)
  PROVE  Turns(s, r, u, a \o b)
<1>1. /\ t \in Session /\ u \in Session /\ a \in Seq(Frame) /\ b \in Seq(Frame)
      /\ Sends(r, t, a) /\ Sends(t, u, b)
  BY DEF Turns
<1>2. Sends(r, u, a \o b) /\ a \o b \in Seq(Frame)
  BY <1>1, SendsComposes, ConcatProperties
<1> QED BY <1>1, <1>2 DEF Turns

LEMMA TurnsThen ==
  ASSUME NEW s, NEW r \in Session, NEW t, NEW u, NEW a,
         \/ Turns(s, r, t, <<>>) /\ Turns(s, t, u, a)
         \/ Turns(s, r, t, a) /\ Turns(s, t, u, <<>>)
  PROVE  Turns(s, r, u, a)
<1>1. a \in Seq(Frame)
  BY DEF Turns
<1>2. <<>> \o a = a /\ a \o <<>> = a
  BY <1>1, ConcatEmptySeq
<1>3. PICK e : e = <<>>
  OBVIOUS
<1>4. CASE Turns(s, r, t, e) /\ Turns(s, t, u, a)
  <2>1. Turns(s, r, u, e \o a)
    BY <1>4, TurnsComposes
  <2> QED BY <1>2, <1>3, <2>1
<1>5. CASE Turns(s, r, t, a) /\ Turns(s, t, u, e)
  <2>1. Turns(s, r, u, a \o e)
    BY <1>5, TurnsComposes
  <2> QED BY <1>2, <1>3, <2>1
<1> QED BY <1>3, <1>4, <1>5

(* Only other fields change.                                                *)
LEMMA TurnsPlain ==
  ASSUME NEW s, NEW r \in Session, NEW u \in Session,
         u.tx = r.tx, u.part = r.part, u.sends = r.sends, u.msg = r.msg,
         u.code = r.code, u.state = r.state, u.phase = r.phase, u.link = r.link
  PROVE  Turns(s, r, u, <<>>)
<1>1. Sends(r, u, <<>>) /\ <<>> \in Seq(Frame)
  BY SendsQuiet
<1>2. r.state \in {"connecting", "open", "closing", "closed"}
  BY DEF Session
<1>3. u.state = "closing" => r.state \in {"open", "closing"}
  OBVIOUS
<1> QED BY <1>1, <1>3 DEF Turns

LEMMA StillComposes ==
  ASSUME NEW r, NEW t, NEW u, Still(r, t), Still(t, u)
  PROVE  Still(r, u)
BY DEF Still

LEMMA TurnsFinalized ==
  ASSUME NEW s \in Sessions, NEW r \in Session
  PROVE  Turns(s, r, Finalized(s, r), <<>>) /\ Still(r, Finalized(s, r))
<1> DEFINE t == Finalized(s, r)
<1>1. /\ t \in Session /\ t.state = "closed"
      /\ t.tx = r.tx /\ t.part = r.part /\ t.pc = r.pc /\ t.back = r.back
      /\ t.code = r.code
      /\ t.link = IF r.link = "none" THEN "none" ELSE "closed"
  BY FinalizedFields
<1>2. /\ t.sends = r.sends /\ t.msg = r.msg /\ t.got = r.got /\ t.garbled = r.garbled
      /\ t.carry = r.carry
  <2> DEFINE d == DropTransport(r)
             o == OnFinalized(s, d)
  <2>1. /\ d.sends = r.sends /\ d.msg = r.msg /\ d.got = r.got /\ d.garbled = r.garbled
        /\ d.carry = r.carry
        /\ DOMAIN d = DOMAIN r
    BY DEF DropTransport, Session
  <2>2. \A f \in {"sends", "msg", "got", "garbled", "carry"} : f \in DOMAIN r
    BY DEF Session
  <2> HIDE DEF d
  <2>3. /\ o.sends = r.sends /\ o.msg = r.msg /\ o.got = r.got /\ o.garbled = r.garbled
        /\ o.carry = r.carry
        /\ DOMAIN o = DOMAIN r
    BY <2>1, <2>2 DEF OnFinalized
  <2> HIDE DEF o
  <2>4. /\ OnClose(o).sends = r.sends /\ OnClose(o).msg = r.msg /\ OnClose(o).got = r.got
        /\ OnClose(o).garbled = r.garbled /\ OnClose(o).carry = r.carry
    BY <2>2, <2>3 DEF OnClose
  <2> QED BY <2>4 DEF Finalized, o, d
<1> HIDE DEF t
<1>3. Sends(r, t, <<>>) /\ <<>> \in Seq(Frame)
  BY <1>1, <1>2, SendsQuiet
<1>4. Turns(s, r, t, <<>>)
  BY <1>1, <1>2, <1>3 DEF Turns
<1> QED BY <1>1, <1>2, <1>4 DEF Still, t

LEMMA TurnsFail ==
  ASSUME NEW s \in Sessions, NEW r \in Session
  PROVE  Turns(s, r, FailWithError(s, r), <<>>) /\ Still(r, FailWithError(s, r))
         /\ FailWithError(s, r).state = "closed"
<1> DEFINE c == IF r.code = None THEN "internal" ELSE r.code
           q == [r EXCEPT !.code = c]
<1>1. c \in Codes \cup {None, "normal", "protocol", "baddata", "toobig", "malformed", "internal"}
      /\ (r.code \notin Accusing => c \notin Accusing)
  BY DEF Session, Accusing
<1>2. FailWithError(s, r) = Finalized(s, q)
  BY DEF FailWithError, Finalized
<1> HIDE DEF c
<1>3. q \in Session
  BY <1>1 DEF Session
<1>4. /\ q.tx = r.tx /\ q.part = r.part /\ q.sends = r.sends /\ q.msg = r.msg
      /\ q.code = c /\ q.state = r.state /\ q.phase = r.phase /\ q.link = r.link
      /\ q.got = r.got /\ q.garbled = r.garbled /\ q.pc = r.pc /\ q.back = r.back
      /\ q.carry = r.carry
  BY DEF Session
<1> HIDE DEF q
<1>5. Sends(r, q, <<>>) /\ <<>> \in Seq(Frame)
  BY <1>3, <1>4, SendsQuiet
<1>6. r.state \in {"connecting", "open", "closing", "closed"}
  BY DEF Session
<1>7. Turns(s, r, q, <<>>)
  BY <1>1, <1>3, <1>4, <1>5 DEF Turns
<1>8. Still(r, q)
  BY <1>4 DEF Still
<1>9. Turns(s, q, Finalized(s, q), <<>>) /\ Still(q, Finalized(s, q))
      /\ Finalized(s, q).state = "closed"
  BY <1>3, TurnsFinalized, FinalizedFields
<1>10. Turns(s, r, Finalized(s, q), <<>>)
  BY <1>7, <1>9, TurnsThen
<1> QED BY <1>2, <1>8, <1>9, <1>10, StillComposes

(* A frame is put behind the queue.                                         *)
LEMMA TurnsQueue ==
  ASSUME NEW s, NEW r \in Session, NEW u \in Session, NEW f \in Frame, Body(f),
         u.tx = Append(r.tx, f), u.part = r.part, u.msg = r.msg,
         u.sends = (IF f.op = "data" THEN r.sends + 1 ELSE r.sends),
         f.op = "data" => f.n = r.sends + 1,
         Civil /\ r.code \notin Accusing => u.code \notin Accusing,
         u.link = r.link, r.link # "none", u.state # "connecting",
         u.state = r.state \/ (u.state = "closing" /\ r.state = "open")
           \/ (u.state = "closing" /\ r.state = "connecting" /\ s \in Conns)
  PROVE  Turns(s, r, u, <<>>)
<1>1. Pending(u) = Append(Pending(r), f) /\ Pending(r) \in Seq(Frame) /\ <<>> \in Seq(Frame)
  BY PendingAppend, PendingType
<1>2. PICK x : x = <<f>>
  OBVIOUS
<1>3. x \in Seq(Frame) /\ Bodies(x)
  BY <1>2, BodiesFew
<1>4. Append(Pending(r), f) = Pending(r) \o x
  BY <1>1, <1>2, AppendIsConcat
<1>5. <<>> \o Pending(u) = Pending(u)
  BY PendingType, ConcatEmptySeq
<1>6. r.sends \in Nat /\ u.sends \in Nat /\ r.sends <= u.sends
  BY DEF Session
<1>7. Consecutive(x, r.sends, u.sends)
  BY <1>2, <1>6, ConsecutiveOne
<1>8. Sends(r, u, <<>>)
  BY <1>1, <1>3, <1>4, <1>5, <1>6, <1>7 DEF Sends
<1> QED BY <1>1, <1>8 DEF Turns

LEMMA BodiesMade ==
  /\ \A n \in Nat \ {0} : Body(Plain("data", n))
  /\ Body(Plain("ping", 0)) /\ Body(Plain("pong", 0))
  /\ \A code \in CloseCodes : (Civil => code \notin Accusing \cup {"malformed"}) =>
       Body(CloseFrame(ClosePayload(code)))
<1>1. None \notin Accusing \cup {"malformed"}
  BY SessionAssumption DEF Accusing
<1>2. \A n \in Nat : \A op \in {"data", "ping", "pong"} :
        /\ Plain(op, n).fin /\ Plain(op, n).clean /\ Plain(op, n).utf8 /\ Plain(op, n).len = 1
        /\ Plain(op, n).op = op /\ Plain(op, n).n = n /\ Plain(op, n).code = None
  BY DEF Plain
<1>3. \A c : LET f == CloseFrame(c) IN
        /\ f.fin /\ f.clean /\ f.utf8 /\ f.len = 1 /\ f.op = "close" /\ f.code = c
  BY DEF Plain, CloseFrame
<1>4. \A code \in CloseCodes : (Civil => code \notin Accusing \cup {"malformed"}) =>
        Body(CloseFrame(ClosePayload(code)))
  <2>1. TAKE code \in CloseCodes
  <2>2. PICK c : c = ClosePayload(code)
    OBVIOUS
  <2>3. (Civil => code \notin Accusing \cup {"malformed"}) =>
          (Civil => c \notin Accusing \cup {"malformed"})
    BY <1>1, <2>2 DEF ClosePayload
  <2>4. PICK f : f = CloseFrame(c)
    OBVIOUS
  <2>5. f.fin /\ f.clean /\ f.utf8 /\ f.len = 1 /\ f.op = "close" /\ f.code = c
    BY <1>3, <2>4
  <2> QED BY <2>2, <2>3, <2>4, <2>5 DEF Body, Ours, Heads
<1> QED BY <1>1, <1>2, <1>4 DEF Body, Ours, Heads

LEMMA TurnsInternal ==
  ASSUME NEW s, NEW r \in Session, NEW f \in Frame, Body(f), f.op # "data",
         r.state # "connecting", r.link # "none"
  PROVE  /\ Turns(s, r, Internal(r, f), <<>>) /\ Still(r, Internal(r, f))
         /\ Internal(r, f).state = r.state /\ Internal(r, f).link = r.link
<1> DEFINE q == Append(r.tx, f)
           u == [r EXCEPT !.tx = q]
<1>1. q \in Seq(Frame)
  BY AppendProperties DEF Session
<1>2. Turns(s, r, r, <<>>) /\ Still(r, r)
  BY TurnsPlain DEF Still
<1>3. CASE Internal(r, f) = r
  BY <1>2, <1>3
<1>4. CASE Internal(r, f) = u
  <2>1. u \in Session
    <3> HIDE DEF q
    <3> QED BY <1>1 DEF Session
  <2>2. /\ u.tx = q /\ u.part = r.part /\ u.sends = r.sends /\ u.msg = r.msg
        /\ u.code = r.code /\ u.state = r.state /\ u.link = r.link
        /\ u.got = r.got /\ u.garbled = r.garbled /\ u.pc = r.pc /\ u.back = r.back
        /\ u.carry = r.carry
    BY DEF Session
  <2> HIDE DEF u
  <2>3. Turns(s, r, u, <<>>)
    BY <2>1, <2>2, TurnsQueue
  <2> QED BY <1>4, <2>2, <2>3 DEF Still
<1> QED BY <1>3, <1>4 DEF Internal

LEMMA TurnsSendClose ==
  ASSUME NEW s, NEW r \in Session, NEW code \in CloseCodes,
         r.state \notin {"closing", "closed"} =>
           /\ Civil => code \notin Accusing \cup {"malformed"}
           /\ r.link # "none" /\ (r.state = "connecting" => s \in Conns)
  PROVE  Turns(s, r, SendClose(r, code), <<>>) /\ Still(r, SendClose(r, code))
         /\ SendClose(r, code).link = r.link
         /\ SendClose(r, code).state = IF r.state = "closed" THEN "closed" ELSE "closing"
<1>1. CASE r.state \in {"closing", "closed"}
  <2>1. Turns(s, r, r, <<>>) /\ Still(r, r)
    BY TurnsPlain DEF Still
  <2> QED BY <1>1, <2>1 DEF SendClose
<1>2. CASE r.state \notin {"closing", "closed"}
  <2> DEFINE f == CloseFrame(ClosePayload(code))
             q == Append(r.tx, f)
             c == IF r.code = None THEN code ELSE r.code
             a == r.armed \cup {"close"}
             t == SendClose(r, code)
  <2>1. f \in Frame /\ f.op = "close" /\ Body(f)
    BY <1>2, FramesMade, BodiesMade DEF CloseCodes
  <2> HIDE DEF f
  <2>2. q \in Seq(Frame)
    BY <2>1, AppendProperties DEF Session
  <2>3. c \in CloseCodes \cup {"internal"} /\ a \in SUBSET {"handshake", "close", "pong", "auto"}
        /\ (Civil /\ r.code \notin Accusing => c \notin Accusing)
    BY <1>2 DEF Session, CloseCodes
  <2>4. PICK y : y = Internal(r, f)
    OBVIOUS
  <2>5. y = r \/ y = [r EXCEPT !.tx = q]
    BY <2>4 DEF Internal
  <2>6. PICK v : y = [r EXCEPT !.tx = v] /\ v \in {r.tx, q} /\ v \in Seq(Frame)
    <3>1. r = [r EXCEPT !.tx = r.tx] /\ r.tx \in Seq(Frame)
      BY DEF Session
    <3> QED BY <2>2, <2>5, <3>1
  <2>7. t = [y EXCEPT !.code = IF @ = None THEN code ELSE @, !.state = "closing",
                      !.armed = @ \cup {"close"}]
    BY <1>2, <2>4 DEF SendClose, f
  <2> HIDE DEF q
  <2>8. /\ t.tx = v /\ t.part = r.part /\ t.sends = r.sends /\ t.msg = r.msg
        /\ t.code = c /\ t.state = "closing" /\ t.link = r.link /\ t.phase = r.phase
        /\ t.got = r.got /\ t.garbled = r.garbled /\ t.pc = r.pc /\ t.back = r.back
        /\ t.carry = r.carry
    BY <2>6, <2>7 DEF Session
  <2>9. t \in Session
    <3>1. t = [r EXCEPT !.tx = v, !.code = c, !.state = "closing", !.armed = a]
      BY <2>6, <2>7 DEF Session
    <3> HIDE DEF c, a, t
    <3> QED BY ZenonT(60), <2>3, <2>6, <3>1 DEF Session, CloseCodes
  <2> HIDE DEF t, c, a
  <2>10. r.state \in {"connecting", "open"}
    BY <1>2 DEF Session
  <2>11. Turns(s, r, t, <<>>)
    <3>1. CASE v = r.tx
      <4>1. Sends(r, t, <<>>) /\ <<>> \in Seq(Frame)
        BY <2>8, <2>9, <3>1, SendsQuiet
      <4> QED BY <1>2, <2>3, <2>8, <2>9, <2>10, <3>1, <4>1 DEF Turns
    <3>2. CASE v = q
      <4>1. t.tx = Append(r.tx, f) /\ t.sends = (IF f.op = "data" THEN r.sends + 1 ELSE r.sends)
        BY <2>1, <2>8, <3>2 DEF q
      <4> QED BY <1>2, <2>1, <2>3, <2>8, <2>9, <2>10, <4>1, TurnsQueue
    <3> QED BY <2>6, <3>1, <3>2
  <2> QED BY <1>2, <2>8, <2>11 DEF Still, t
<1> QED BY <1>1, <1>2

-----------------------------------------------------------------------------
(* What leaves the queue, and what a session is left with.                  *)

LEMMA CutParts ==
  ASSUME NEW q \in Seq(Frame), NEW i \in 0..Len(q)
  PROVE  /\ SubSeq(q, 1, i) \in Seq(Frame) /\ SubSeq(q, i + 1, Len(q)) \in Seq(Frame)
         /\ SubSeq(q, 1, i) \o SubSeq(q, i + 1, Len(q)) = q
<1>1. Len(q) \in Nat
  BY LenProperties
<1>2. SubSeq(q, 1, i) \o SubSeq(q, i + 1, Len(q)) = SubSeq(q, 1, Len(q))
  <2>1. PICK n, m, k : n = Len(q) /\ m = 1 /\ k = i
    OBVIOUS
  <2>2. m \in 1..(Len(q) + 1) /\ k \in (m - 1)..Len(q) /\ n \in k..Len(q)
    BY <1>1, <2>1
  <2>3. SubSeq(q, m, k) \o SubSeq(q, k + 1, n) = SubSeq(q, m, n)
    BY <2>2, ConcatAdjacentSubSeq
  <2> QED BY <2>1, <2>3
<1>3. SubSeq(q, 1, Len(q)) = q
  BY SubSeqFull
<1> QED BY <1>2, <1>3, CutQueue

(* Some frames have left, the others are pending still.                     *)
LEMMA TurnsCut ==
  ASSUME NEW s, NEW r \in Session, NEW u \in Session, NEW i \in 0..Len(Pending(r)),
         Pending(u) = SubSeq(Pending(r), i + 1, Len(Pending(r))),
         u.sends = r.sends, u.msg = r.msg, u.code = r.code, u.state = r.state,
         u.phase = r.phase, u.link = r.link, r.state # "connecting", r.link # "none"
  PROVE  Turns(s, r, u, SubSeq(Pending(r), 1, i))
<1>1. PICK q : q = Pending(r) /\ q \in Seq(Frame) /\ i \in 0..Len(q)
  BY PendingType
<1>2. PICK a : a = SubSeq(q, 1, i)
  OBVIOUS
<1>3. PICK b : b = SubSeq(q, i + 1, Len(q))
  OBVIOUS
<1>4. a \in Seq(Frame) /\ b \in Seq(Frame) /\ a \o b = q
  BY <1>1, <1>2, <1>3, CutParts
<1>6. Pending(u) = b
  BY <1>1, <1>3
<1>7. Sends(r, u, a)
  BY <1>1, <1>4, <1>6, SendsSame
<1>8. r.state \in {"open", "closing", "closed"}
  BY DEF Session
<1>9. Turns(s, r, u, a)
  BY <1>4, <1>7, <1>8 DEF Turns
<1> QED BY <1>1, <1>2, <1>9

LEMMA TurnsWithout ==
  ASSUME NEW s, NEW r \in Session, NEW i \in 1..Len(Pending(r)),
         r.state # "connecting", r.link # "none"
  PROVE  /\ Turns(s, r, Without(r, i), SubSeq(Pending(r), 1, i))
         /\ Still(r, Without(r, i)) /\ Without(r, i).state = r.state
<1> DEFINE t == Without(r, i)
<1>1. PICK q : q = Pending(r) /\ q \in Seq(Frame) /\ Len(q) \in Nat
  BY PendingType
<1>2. i \in 0..Len(q)
  BY <1>1
<1>3. PICK rest : rest = SubSeq(q, i + 1, Len(q)) /\ rest \in Seq(Frame)
  BY <1>1, <1>2, CutQueue
<1>4. t = [r EXCEPT !.part = None, !.tx = rest]
  BY <1>1, <1>3 DEF Without
<1>5. t \in Session
  BY ZenonT(60), <1>3, <1>4 DEF Session
<1>6. /\ t.part = None /\ t.tx = rest /\ t.sends = r.sends /\ t.msg = r.msg
      /\ t.code = r.code /\ t.state = r.state /\ t.phase = r.phase /\ t.link = r.link
      /\ t.got = r.got /\ t.garbled = r.garbled /\ t.pc = r.pc /\ t.back = r.back
      /\ t.carry = r.carry
  BY <1>4 DEF Session
<1> HIDE DEF t
<1>7. Pending(t) = rest
  <2>1. Pending(t) = <<>> \o rest
    BY <1>6 DEF Pending
  <2> QED BY <1>3, <2>1, ConcatEmptySeq
<1>8. Turns(s, r, t, SubSeq(Pending(r), 1, i))
  BY <1>1, <1>2, <1>3, <1>5, <1>6, <1>7, TurnsCut
<1> QED BY <1>6, <1>8 DEF Still, t

LEMMA TurnsHalfSent ==
  ASSUME NEW s, NEW r \in Session, NEW i \in 0..(Len(Pending(r)) - 1),
         r.state # "connecting", r.link # "none"
  PROVE  /\ Turns(s, r, HalfSent(r, i), SubSeq(Pending(r), 1, i))
         /\ Still(r, HalfSent(r, i)) /\ HalfSent(r, i).state = r.state
         /\ HalfSent(r, i).link = r.link
<1> DEFINE t == HalfSent(r, i)
<1>1. PICK q : q = Pending(r) /\ q \in Seq(Frame) /\ Len(q) \in Nat
  BY PendingType
<1>2. i \in 0..Len(q) /\ i + 1 \in 0..Len(q) /\ i + 1 \in 1..Len(q)
  BY <1>1
<1>3. PICK rest : rest = SubSeq(q, i + 1 + 1, Len(q)) /\ rest \in Seq(Frame)
  BY <1>1, <1>2, CutQueue
<1>4. PICK f : f = q[i + 1] /\ f \in Frame
  BY <1>1, <1>2, ElementOfSeq
<1>5. t = [[r EXCEPT !.part = None, !.tx = rest] EXCEPT !.part = f]
  BY <1>1, <1>3, <1>4 DEF HalfSent, Without
<1>6. t = [r EXCEPT !.part = f, !.tx = rest]
  BY <1>5 DEF Session
<1> HIDE DEF t
<1>7. t \in Session
  BY ZenonT(60), <1>3, <1>4, <1>6 DEF Session
<1>8. /\ t.part = f /\ t.tx = rest /\ t.sends = r.sends /\ t.msg = r.msg
      /\ t.code = r.code /\ t.state = r.state /\ t.phase = r.phase /\ t.link = r.link
      /\ t.got = r.got /\ t.garbled = r.garbled /\ t.pc = r.pc /\ t.back = r.back
      /\ t.carry = r.carry
  BY <1>6 DEF Session
<1>9. Pending(t) = SubSeq(q, i + 1, Len(q))
  <2>1. Pending(t) = <<f>> \o rest
    BY <1>4, <1>8, SessionAssumption DEF Pending
  <2>2. Len(q) \in (i + 1)..Len(q)
    BY <1>1, <1>2
  <2>3. SubSeq(q, i + 1, Len(q)) = <<q[i + 1]>> \o SubSeq(q, (i + 1) + 1, Len(q))
    BY <1>1, <1>2, <2>2, SubSeqRecursiveFirst
  <2> QED BY <1>3, <1>4, <2>1, <2>3
<1>10. Turns(s, r, t, SubSeq(Pending(r), 1, i))
  BY <1>1, <1>2, <1>7, <1>8, <1>9, TurnsCut
<1> QED BY <1>8, <1>10 DEF Still, t

(* _drain_outbound, and the last one of _finalize_closed.                   *)
LEMMA TurnsDrained ==
  ASSUME NEW s \in Sessions, NEW r \in Session, Room(s) \in Int,
         r.state = "connecting" \/ r.link = "none" => Pending(r) = <<>>,
         NEW o \in Drained(s, r)
  PROVE  Turns(s, r, o.r, o.out) /\ Still(r, o.r)
<1> DEFINE todo == Pending(r)
           most == IF r.link \in {"up", "eof", "dead"} THEN Least(Len(todo), Room(s)) ELSE 0
           Sent(i) == SubSeq(todo, 1, i)
<1>1. todo \in Seq(Frame) /\ Len(todo) \in Nat
  BY PendingType
<1>2. CASE todo = <<>>
  <2>1. o = Out(r, <<>>)
    BY <1>2 DEF Drained, Only
  <2>2. o.r = r /\ o.out = <<>>
    BY <2>1 DEF Out
  <2>3. Turns(s, r, r, <<>>) /\ Still(r, r)
    BY TurnsPlain DEF Still
  <2> QED BY <2>2, <2>3
<1>3. CASE todo # <<>>
  <2>1. Len(todo) \in Nat \ {0} /\ r.state # "connecting" /\ r.link # "none"
    BY <1>1, <1>3, EmptySeq
  <2>2. most \in Int /\ most <= Len(todo)
    BY <1>1 DEF Least
  <2>3. 1..most \subseteq 1..Len(todo)
    BY <1>1, <2>2
  <2>4. 0..Least(most, Len(todo) - 1) \subseteq 0..(Len(todo) - 1)
    BY <2>1, <2>2 DEF Least
  <2>5. \/ \E i \in 1..most : o = Out(Without(r, i), Sent(i))
        \/ \E i \in 0..Least(most, Len(todo) - 1) : o = Out(HalfSent(r, i), Sent(i))
        \/ \E i \in 0..Least(most, Len(todo) - 1) :
             o = Out(FailWithError(s, HalfSent(r, i)), Sent(i))
    <3>1. Drained(s, r) =
            {Out(Without(r, i), Sent(i)) : i \in 1..most}
            \cup (IF r.link \in {"up", "eof", "dead"}
                  THEN {Out(HalfSent(r, i), Sent(i)) : i \in 0..Least(most, Len(todo) - 1)}
                  ELSE {})
            \cup (IF r.link \in {"eof", "reset", "closed"}
                  THEN {Out(FailWithError(s, HalfSent(r, i)), Sent(i)) :
                          i \in 0..Least(most, Len(todo) - 1)}
                  ELSE {})
      BY <1>3 DEF Drained
    <3> HIDE DEF most, todo, Sent
    <3> QED BY <3>1
  <2>6. \/ \E i \in 1..Len(todo) : o = Out(Without(r, i), Sent(i))
        \/ \E i \in 0..(Len(todo) - 1) : o = Out(HalfSent(r, i), Sent(i))
        \/ \E i \in 0..(Len(todo) - 1) :
             o = Out(FailWithError(s, HalfSent(r, i)), Sent(i))
    <3> HIDE DEF most, todo, Sent
    <3> QED BY <2>3, <2>4, <2>5
  <2>7. ASSUME NEW i \in 1..Len(todo), o = Out(Without(r, i), Sent(i))
        PROVE  Turns(s, r, o.r, o.out) /\ Still(r, o.r)
    <3>1. o.r = Without(r, i) /\ o.out = Sent(i)
      BY <2>7 DEF Out
    <3> QED BY <2>1, <2>7, <3>1, TurnsWithout
  <2>8. ASSUME NEW i \in 0..(Len(todo) - 1), o = Out(HalfSent(r, i), Sent(i))
        PROVE  Turns(s, r, o.r, o.out) /\ Still(r, o.r)
    <3>1. o.r = HalfSent(r, i) /\ o.out = Sent(i)
      BY <2>8 DEF Out
    <3> QED BY <2>1, <2>8, <3>1, TurnsHalfSent
  <2>9. ASSUME NEW i \in 0..(Len(todo) - 1),
               o = Out(FailWithError(s, HalfSent(r, i)), Sent(i))
        PROVE  Turns(s, r, o.r, o.out) /\ Still(r, o.r)
    <3>1. PICK h, a : h = HalfSent(r, i) /\ a = Sent(i)
      OBVIOUS
    <3>2. o.r = FailWithError(s, h) /\ o.out = a
      BY <2>9, <3>1 DEF Out
    <3>3. Turns(s, r, h, a) /\ Still(r, h)
      BY <2>1, <3>1, TurnsHalfSent
    <3>4. h \in Session
      BY <3>3 DEF Turns
    <3>5. Turns(s, h, FailWithError(s, h), <<>>) /\ Still(h, FailWithError(s, h))
      BY <3>4, TurnsFail
    <3>6. Turns(s, r, FailWithError(s, h), a)
      BY <3>3, <3>5, TurnsThen
    <3> QED BY <3>2, <3>3, <3>5, <3>6, StillComposes
  <2> HIDE DEF todo, Sent
  <2> QED BY <2>6, <2>7, <2>8, <2>9
<1> QED BY <1>2, <1>3

LEMMA TurnsFinalizeClosed ==
  ASSUME NEW s \in Sessions, NEW r \in Session, Room(s) \in Int,
         r.state = "connecting" \/ r.link = "none" => Pending(r) = <<>>,
         NEW o \in FinalizeClosed(s, r)
  PROVE  Turns(s, r, o.r, o.out) /\ Still(r, o.r) /\ o.r.state = "closed"
<1>1. PICK d \in Drained(s, r) : o = Out(Finalized(s, d.r), d.out)
  BY DEF FinalizeClosed, Finalized
<1>2. Turns(s, r, d.r, d.out) /\ Still(r, d.r)
  BY TurnsDrained
<1>3. PICK t, a : t = d.r /\ a = d.out
  OBVIOUS
<1>4. o.r = Finalized(s, t) /\ o.out = a /\ t \in Session
  BY <1>1, <1>2, <1>3 DEF Out, Turns
<1>5. Turns(s, t, Finalized(s, t), <<>>) /\ Still(t, Finalized(s, t))
      /\ Finalized(s, t).state = "closed"
  BY <1>4, TurnsFinalized, FinalizedFields
<1>6. Turns(s, r, Finalized(s, t), a)
  BY <1>2, <1>3, <1>5, TurnsThen
<1> QED BY <1>2, <1>3, <1>4, <1>5, <1>6, StillComposes

-----------------------------------------------------------------------------
(* The steps of one session of a pair.                                      *)

Duo(s, p) ==
  /\ s \in Sessions /\ p \in Live /\ p # s /\ (s \in Conns <=> p \notin Conns)
  /\ (s \in Clients <=> p \in Conns) /\ Room(s) \in Int
  /\ ws[s] \in Session /\ ws[p] \in Session /\ wire[s] \in Seq(Frame) /\ wire[p] \in Seq(Frame)
  /\ Own(ws[s]) /\ Own(ws[p])
  /\ Way(s, p, ws[s], ws[p], wire[p]) /\ Way(p, s, ws[p], ws[s], wire[s])
  /\ Sound(s, ws[s], ws[s].shut)
  /\ ws[s].state = "closed" => ws[s].link # "up"
  /\ ws[p].state = "closed" => ws[p].link # "up"
  /\ p \in Conns /\ ws[p].state = "connecting" => ws[s].state \notin {"open", "closing"}

LEMMA Coupled ==
  ASSUME IInv, Paired, NEW s \in Live, NEW p, p = peer[s], p # None
  PROVE  Duo(s, p)
<1>1. /\ s \in Sessions /\ p \in Sessions /\ p \in Live /\ p # s /\ peer[p] = s
      /\ (s \in Clients <=> p \in Conns) /\ s # None
  BY Pairs, SessionAssumption DEF IInv
<1>2. s \in Conns <=> p \notin Conns
  BY <1>1, SessionAssumption DEF Sessions
<1>3. \A t \in Live : ws[t] \in Session /\ wire[t] \in Seq(Frame) /\ Room(t) \in Int
                      /\ Sound(t, ws[t], ws[t].shut)
  BY SoundHere
<1>4. \A t \in Live : ws[t].state = "closed" => ws[t].link # "up"
  BY <1>3 DEF Sound, Linked
<1>5. Own(ws[s]) /\ Own(ws[p])
  BY <1>1 DEF Paired
<1>6. Way(s, p, ws[s], ws[p], wire[p])
  BY DEF Paired
<1>7. Way(p, s, ws[p], ws[s], wire[s])
  BY <1>1 DEF Paired
<1>8. p \in Conns /\ ws[p].state = "connecting" => ws[s].state \notin {"open", "closing"}
  BY <1>7 DEF Way, Unheard, Early
<1> QED BY <1>1, <1>2, <1>3, <1>4, <1>5, <1>6, <1>7, <1>8 DEF Duo

(* A session with a foreign peer touches no pair.                           *)
LEMMA AloneFair ==
  ASSUME IInv, Paired, NEW s \in Live, NEW o, NEW rest, peer[s] = None, YieldFrom(s, o, rest)
  PROVE  Paired'
<1>1. peer' = peer /\ Live' = Live
  BY DEF YieldFrom, Live
<1>2. \A t \in Live : t # s => ws'[t] = ws[t] /\ wire'[t] = wire[t]
  <2>1. None \notin Live
    BY Pairs, SessionAssumption DEF IInv
  <2>2. PICK r, v :
      /\ ws' = [t \in Live |->
                  IF t = s THEN r
                  ELSE IF t = peer[s] /\ r.link = "closed" /\ ws[t].link = "up"
                  THEN [ws[t] EXCEPT !.link = "eof"] ELSE ws[t]]
      /\ wire' = [t \in Live |->
                    IF t = s THEN v
                    ELSE IF t = peer[s] /\ ws[s].link = "up" /\ ws[t].link = "up"
                    THEN wire[t] \o o.out ELSE wire[t]]
    BY DEF YieldFrom
  <2> QED BY <2>1, <2>2
<1>3. ASSUME NEW t \in Live, peer[t] # None
      PROVE  (Own(ws[t]) /\ Way(t, peer[t], ws[t], ws[peer[t]], wire[peer[t]]))'
  <2>1. PICK q : q = peer[t]
    OBVIOUS
  <2>2. q \in Live /\ q # s /\ t # s
    <3>1. peer[q] = t /\ q \in Live
      BY <1>3, <2>1, Pairs DEF IInv
    <3>2. t # None
      BY Pairs, SessionAssumption DEF IInv
    <3> QED BY <1>3, <3>1, <3>2
  <2>3. ws'[t] = ws[t] /\ ws'[q] = ws[q] /\ wire'[q] = wire[q]
    BY <1>2, <2>2
  <2>4. Own(ws[t]) /\ Way(t, q, ws[t], ws[q], wire[q])
    BY <1>3, <2>1 DEF Paired
  <2>5. Own(ws'[t]) /\ Way(t, q, ws'[t], ws'[q], wire'[q])
    BY <2>3, <2>4
  <2>6. peer'[t] = q
    BY <1>1, <2>1
  <2> QED BY <2>5, <2>6
<1> QED BY <1>1, <1>3 DEF Paired

LEMMA TurnsSays ==
  ASSUME NEW s, NEW p, Duo(s, p), NEW u, NEW out, Turns(s, ws[s], u, out),
         ws[s].state = "connecting" => out = <<>>
  PROVE  Way(s, p, u, ws[p], IF Whole(ws[s], ws[p]) THEN wire[p] \o out ELSE wire[p])
<1>1. PICK r, t, w : r = ws[s] /\ t = ws[p] /\ w = wire[p]
  OBVIOUS
<1>2. /\ r \in Session /\ t \in Session /\ w \in Seq(Frame) /\ Way(s, p, r, t, w)
      /\ Bodies(Pending(r)) /\ (r.state = "closed" => r.link # "up")
      /\ (t.state = "closed" => t.link # "up")
      /\ (p \in Conns /\ t.state = "connecting" => r.state \notin {"open", "closing"})
  BY <1>1 DEF Duo, Own
<1>3. /\ Turns(s, r, u, out) /\ (r.state = "connecting" => out = <<>>)
  BY <1>1
<1>4. /\ u \in Session /\ out \in Seq(Frame) /\ Sends(r, u, out)
      /\ (u.link = "up" => r.link = "up")
  BY <1>3 DEF Turns
<1>5. Early(s, u) => Early(s, r)
  BY <1>3 DEF Turns, Early
<1>6. Way(s, p, u, t, IF Whole(r, t) THEN w \o out ELSE w)
  BY <1>2, <1>3, <1>4, <1>5, SaysWay
<1> QED BY <1>1, <1>6

(* The place that a step leaves a session in.                               *)
Poised(u) ==
  /\ u.carry # <<>> => Carrying(u)
  /\ u.pc = "opened" => u.back = "feed"
  /\ u.link = "none" => u.pc = "idle"

LEMMA TurnsOwn ==
  ASSUME NEW s, NEW r \in Session, Own(r), NEW u, NEW out, Turns(s, r, u, out), Poised(u)
  PROVE  Own(u)
<1>1. u \in Session /\ out \in Seq(Frame) /\ Sends(r, u, out) /\ Bodies(Pending(r))
  BY DEF Turns, Own
<1>2. Bodies(Pending(u))
  BY <1>1, SendsBodies
<1>3. u.state \in {"connecting", "open", "closing", "closed"}
  BY <1>1 DEF Session
<1>4. u.state = "connecting" \/ u.link = "none" => Pending(u) = <<>> /\ u.sends = 0
  <2>1. SUFFICES ASSUME u.state = "connecting" \/ u.link = "none"
                 PROVE  Pending(u) = <<>> /\ u.sends = 0
    OBVIOUS
  <2>2. r.state = "connecting" \/ r.link = "none"
    BY <2>1 DEF Turns
  <2>3. u.tx = r.tx /\ u.part = r.part /\ u.sends = r.sends
    BY <2>1 DEF Turns
  <2> QED BY <2>2, <2>3 DEF Own, Pending
<1>5. u.link = "none" => u.state \in {"connecting", "closed"}
  BY <1>3 DEF Turns, Own
<1>6. u.msg = NoMessage /\ (Civil => u.code \notin Accusing)
  BY DEF Turns, Own
<1> QED BY <1>2, <1>4, <1>5, <1>6 DEF Own, Poised

(* The way in when the session reads nothing of it.                         *)
LEMMA IdleWay ==
  ASSUME NEW s, NEW p, Duo(s, p), NEW u, NEW out, Turns(s, ws[s], u, out),
         u.got = ws[s].got, u.garbled = ws[s].garbled,
         u.carry = ws[s].carry \/ (u.carry = <<>> /\ (u.state = "closed" \/ u.garbled))
  PROVE  Way(p, s, ws[p], u, wire[s])
<1>1. PICK r, t, w : r = ws[p] /\ t = ws[s] /\ w = wire[s]
  OBVIOUS
<1>2. /\ r \in Session /\ t \in Session /\ w \in Seq(Frame) /\ Way(p, s, r, t, w)
      /\ (p \in Conns => s \notin Conns) /\ (t.state = "closed" => t.link # "up")
  BY <1>1 DEF Duo
<1>3. u \in Session /\ Turns(s, t, u, out)
  BY <1>1 DEF Turns
<1>4. Onward(s, t, u) /\ (u.state = "closed" => u.link # "up")
  BY <1>2, <1>3 DEF Turns, Onward
<1>5. Asked(s, u, w)
  <2>1. Asked(s, t, w)
    BY <1>2 DEF Way
  <2>2. u.state = "connecting" => t.state = "connecting"
    BY <1>4 DEF Onward
  <2> QED BY <1>1, <2>1, <2>2 DEF Asked
<1>6. /\ u.carry = t.carry \/ (u.carry = <<>> /\ (u.state = "closed" \/ u.garbled))
      /\ u.got = t.got /\ (~u.garbled => ~t.garbled)
  BY <1>1
<1>7. Way(p, s, r, u, w)
  BY <1>2, <1>3, <1>4, <1>5, <1>6, DeafWay
<1> QED BY <1>1, <1>7

LEMMA TurnsStep ==
  ASSUME IInv, IInv', Paired, NEW s \in Live, NEW o, NEW rest \in Seq(Frame),
         YieldFrom(s, o, rest), NEW p, p = peer[s],
         p # None => /\ Turns(s, ws[s], o.r, o.out) /\ Poised(o.r)
                     /\ ws[s].state = "connecting" => o.out = <<>>
                     /\ Way(p, s, ws[p], o.r, rest)
  PROVE  Paired'
<1>1. CASE p = None
  BY <1>1, AloneFair
<1>2. CASE p # None
  <2>1. Duo(s, p)
    BY <1>2, Coupled
  <2>2. PICK u, out : u = o.r /\ out = o.out
    OBVIOUS
  <2>3. /\ Turns(s, ws[s], u, out) /\ Poised(u)
        /\ ws[s].state = "connecting" => out = <<>>
        /\ Way(p, s, ws[p], u, rest)
    BY <1>2, <2>2
  <2>4. Way(s, p, u, ws[p], IF Whole(ws[s], ws[p]) THEN wire[p] \o out ELSE wire[p])
    BY <2>1, <2>3, TurnsSays
  <2>5. Own(u)
    <3>1. ws[s] \in Session /\ Own(ws[s])
      BY <2>1 DEF Duo
    <3> QED BY <2>3, <3>1, TurnsOwn
  <2>6. Fair(s, o, rest)
    BY <2>2, <2>3, <2>4, <2>5 DEF Fair
  <2>7. o.r \in Session /\ o.out \in Seq(Frame) /\ (o.r.state = "closed" => o.r.link # "up")
    BY <2>1, <2>2, <2>3 DEF Turns, Duo
  <2> QED BY <2>6, <2>7, PairYield
<1> QED BY <1>1, <1>2

LEMMA QuietStep ==
  ASSUME IInv, IInv', Paired, NEW s \in Live, NEW o, Yield(s, o), NEW p, p = peer[s],
         p # None =>
           /\ Turns(s, ws[s], o.r, o.out) /\ Poised(o.r)
           /\ ws[s].state = "connecting" => o.out = <<>>
           /\ o.r.got = ws[s].got /\ o.r.garbled = ws[s].garbled
           /\ \/ o.r.carry = ws[s].carry
              \/ o.r.carry = <<>> /\ (o.r.state = "closed" \/ o.r.garbled)
  PROVE  Paired'
<1>1. wire[s] \in Seq(Frame) /\ YieldFrom(s, o, wire[s])
  BY SoundHere DEF Yield
<1>2. ASSUME p # None
      PROVE  Way(p, s, ws[p], o.r, wire[s])
  BY <1>2, Coupled, IdleWay
<1> QED BY <1>1, <1>2, TurnsStep

(* A session stays poised when its place does.                              *)
LEMMA StillPoised ==
  ASSUME NEW r, Own(r), NEW u, u.pc = r.pc, u.back = r.back,
         u.carry = r.carry \/ u.carry = <<>>, u.link = "none" => r.link = "none"
  PROVE  Poised(u)
BY DEF Own, Poised, Carrying

-----------------------------------------------------------------------------
(* The steps in which a session reads nothing.                              *)

LEMMA DropsCarry ==
  ASSUME NEW s, NEW r \in Session, NEW u, u = [r EXCEPT !.carry = <<>>]
  PROVE  /\ Turns(s, r, u, <<>>) /\ u.got = r.got /\ u.garbled = r.garbled
         /\ u.state = r.state /\ u.link = r.link /\ u.phase = r.phase
         /\ u.pc = r.pc /\ u.back = r.back /\ u.carry = <<>>
<1>1. PICK c : c = <<>>
  OBVIOUS
<1>2. c \in Seq(Frame)
  BY <1>1
<1>3. u = [r EXCEPT !.carry = c]
  BY <1>1
<1>4. u \in Session
  BY ZenonT(60), <1>2, <1>3 DEF Session
<1>5. /\ u.tx = r.tx /\ u.part = r.part /\ u.sends = r.sends /\ u.msg = r.msg
      /\ u.code = r.code /\ u.state = r.state /\ u.phase = r.phase /\ u.link = r.link
      /\ u.got = r.got /\ u.garbled = r.garbled
      /\ u.pc = r.pc /\ u.back = r.back /\ u.carry = c
  BY <1>3 DEF Session
<1>6. Turns(s, r, u, <<>>)
  BY <1>4, <1>5, TurnsPlain
<1> QED BY <1>1, <1>5, <1>6

LEMMA FinalizeSilent ==
  ASSUME NEW s, NEW r, Pending(r) = <<>>, NEW o \in FinalizeClosed(s, r)
  PROVE  o.out = <<>>
<1>1. PICK d \in Drained(s, r) : o.out = d.out
  BY DEF FinalizeClosed, Out
<1>2. d = Out(r, <<>>)
  BY DEF Drained, Only
<1> QED BY <1>1, <1>2 DEF Out

(* A session that ends, its transport dropped.                              *)
LEMMA FailPaired ==
  ASSUME IInv, IInv', Paired, NEW s \in Live,
         Yield(s, Out(FailWithError(s, ws[s]), <<>>))
         \/ Yield(s, Out([FailWithError(s, ws[s]) EXCEPT !.carry = <<>>], <<>>))
  PROVE  Paired'
<1>1. PICK p, f : p = peer[s] /\ f = FailWithError(s, ws[s])
  OBVIOUS
<1>2. PICK u : u \in {f, [f EXCEPT !.carry = <<>>]} /\ Yield(s, Out(u, <<>>))
  BY <1>1
<1>3. Out(u, <<>>).r = u /\ Out(u, <<>>).out = <<>>
  BY DEF Out
<1>4. ASSUME p # None
      PROVE  /\ Turns(s, ws[s], u, <<>>) /\ Poised(u)
             /\ u.got = ws[s].got /\ u.garbled = ws[s].garbled
             /\ u.carry = ws[s].carry \/ (u.carry = <<>> /\ u.state = "closed")
  <2>1. Duo(s, p)
    BY <1>1, <1>4, Coupled
  <2>2. ws[s] \in Session /\ s \in Sessions /\ Own(ws[s])
    BY <2>1 DEF Duo
  <2>3. Turns(s, ws[s], f, <<>>) /\ Still(ws[s], f) /\ f.state = "closed"
    BY <1>1, <2>2, TurnsFail
  <2>4. f \in Session
    BY <2>3 DEF Turns
  <2>5. /\ Turns(s, f, u, <<>>) /\ u.got = f.got /\ u.garbled = f.garbled
        /\ u.state = f.state /\ u.pc = f.pc /\ u.back = f.back
        /\ u.carry \in {f.carry, <<>>}
    <3>1. CASE u = f
      BY <2>4, <3>1, TurnsPlain
    <3>2. CASE u = [f EXCEPT !.carry = <<>>]
      BY <2>4, <3>2, DropsCarry
    <3> QED BY <1>2, <3>1, <3>2
  <2>6. Turns(s, ws[s], u, <<>>)
    BY <2>2, <2>3, <2>5, TurnsThen
  <2>7. Poised(u)
    <3>1. u.pc = ws[s].pc /\ u.back = ws[s].back /\ u.carry \in {ws[s].carry, <<>>}
      BY <2>3, <2>5 DEF Still
    <3>2. u.link = "none" => ws[s].link = "none"
      BY <2>6 DEF Turns
    <3> QED BY <2>2, <3>1, <3>2, StillPoised
  <2> QED BY <2>3, <2>5, <2>6, <2>7 DEF Still
<1> QED BY <1>1, <1>2, <1>3, <1>4, QuietStep

LEMMA TimeoutPaired ==
  ASSUME IInv, IInv', Paired, NEW s \in Live, NEW d, Timeout(s, d)
  PROVE  Paired'
<1>1. CASE d # "close"
  <2>1. Yield(s, Out([FailWithError(s, ws[s]) EXCEPT !.carry = <<>>], <<>>))
    BY <1>1 DEF Timeout, Yields, Only
  <2> QED BY <2>1, FailPaired
<1>2. CASE d = "close"
  <2>1. PICK o \in FinalizeClosed(s, ws[s]) : Yield(s, o)
    BY <1>2 DEF Timeout, Yields
  <2>2. PICK p : p = peer[s]
    OBVIOUS
  <2>3. ASSUME p # None
        PROVE  /\ Turns(s, ws[s], o.r, o.out) /\ Poised(o.r)
               /\ ws[s].state = "connecting" => o.out = <<>>
               /\ o.r.got = ws[s].got /\ o.r.garbled = ws[s].garbled
               /\ o.r.carry = ws[s].carry
    <3>1. Duo(s, p)
      BY <2>2, <2>3, Coupled
    <3>2. ws[s] \in Session /\ s \in Sessions /\ Own(ws[s]) /\ Room(s) \in Int
      BY <3>1 DEF Duo
    <3>3. ws[s].state = "connecting" \/ ws[s].link = "none" => Pending(ws[s]) = <<>>
      BY <3>2 DEF Own
    <3>4. Turns(s, ws[s], o.r, o.out) /\ Still(ws[s], o.r)
      BY <2>1, <3>2, <3>3, TurnsFinalizeClosed
    <3>5. Poised(o.r)
      BY <3>2, <3>4, StillPoised DEF Still, Turns
    <3>6. ws[s].state = "connecting" => o.out = <<>>
      BY <2>1, <3>3, FinalizeSilent
    <3> QED BY <3>4, <3>5, <3>6 DEF Still
  <2> QED BY <2>1, <2>2, <2>3, QuietStep
<1> QED BY <1>1, <1>2

LEMMA HandshakeFailsPaired ==
  ASSUME IInv, IInv', Paired, NEW s \in Live, TransportFails(s) \/ HandshakeLost(s)
  PROVE  Paired'
<1>1. Yield(s, Out(FailWithError(s, ws[s]), <<>>))
  BY DEF TransportFails, HandshakeLost, Yields, Only
<1> QED BY <1>1, FailPaired

(* A step of the application: nothing of what was received changes, nor the *)
(* place in the pass.                                                       *)
LEMMA StillStep ==
  ASSUME IInv, IInv', Paired, NEW s \in Live, NEW u, Yield(s, Out(u, <<>>)),
         peer[s] # None => Turns(s, ws[s], u, <<>>) /\ Still(ws[s], u)
  PROVE  Paired'
<1>1. PICK p : p = peer[s]
  OBVIOUS
<1>2. Out(u, <<>>).r = u /\ Out(u, <<>>).out = <<>>
  BY DEF Out
<1>3. ASSUME p # None
      PROVE  /\ Turns(s, ws[s], u, <<>>) /\ Poised(u)
             /\ u.got = ws[s].got /\ u.garbled = ws[s].garbled /\ u.carry = ws[s].carry
  <2>1. Duo(s, p)
    BY <1>1, <1>3, Coupled
  <2>2. Own(ws[s])
    BY <2>1 DEF Duo
  <2>3. Turns(s, ws[s], u, <<>>) /\ Still(ws[s], u)
    BY <1>1, <1>3
  <2> QED BY <2>2, <2>3, StillPoised DEF Still, Turns
<1> QED BY <1>1, <1>2, <1>3, QuietStep

LEMMA ConnectRaisesPaired ==
  ASSUME IInv, IInv', Paired, NEW s \in Live, ConnectRaises(s)
  PROVE  Paired'
<1>1. PICK u : u = [ws[s] EXCEPT !.called = TRUE]
  OBVIOUS
<1>2. Yield(s, Out(u, <<>>))
  BY <1>1 DEF ConnectRaises, Yields, Only
<1>3. ws[s] \in Session
  BY SoundHere
<1>4. /\ u.tx = ws[s].tx /\ u.part = ws[s].part /\ u.sends = ws[s].sends
      /\ u.msg = ws[s].msg /\ u.code = ws[s].code /\ u.state = ws[s].state
      /\ u.phase = ws[s].phase /\ u.link = ws[s].link /\ Still(ws[s], u)
  BY <1>1, <1>3 DEF Session, Still
<1>5. u \in Session
  BY <1>1, <1>3 DEF Session
<1>6. Turns(s, ws[s], u, <<>>)
  BY <1>3, <1>4, <1>5, TurnsPlain
<1> QED BY <1>2, <1>4, <1>6, StillStep

LEMMA Queues ==
  ASSUME NEW s, NEW r \in Session, Own(r), r.state = "open", NEW f \in Frame, Body(f),
         NEW k, k = (IF f.op = "data" THEN r.sends + 1 ELSE r.sends),
         f.op = "data" => f.n = k
  PROVE  LET u == [r EXCEPT !.tx = Append(@, f), !.sends = k] IN
         Turns(s, r, u, <<>>) /\ Still(r, u)
<1>1. PICK q : q = Append(r.tx, f) /\ q \in Seq(Frame)
  BY AppendProperties DEF Session
<1>2. k \in Nat
  BY DEF Session
<1>3. PICK u : u = [r EXCEPT !.tx = q, !.sends = k]
  OBVIOUS
<1>4. u \in Session
  <2>1. q \in Seq(Frame)
    BY <1>1
  <2>2. \A n \in Nat : [r EXCEPT !.tx = q, !.sends = n] \in Session
    BY <2>1 DEF Session
  <2> QED BY <1>2, <1>3, <2>2
<1>5. /\ u.tx = q /\ u.part = r.part /\ u.msg = r.msg /\ u.sends = k /\ u.code = r.code
      /\ u.link = r.link /\ u.state = r.state /\ Still(r, u)
  BY <1>3 DEF Session, Still
<1>6. r.link # "none"
  BY DEF Own
<1>7. Turns(s, r, u, <<>>)
  BY <1>1, <1>4, <1>5, <1>6, TurnsQueue
<1> QED BY <1>1, <1>3, <1>5, <1>7

LEMMA SendPaired ==
  ASSUME IInv, IInv', Paired, NEW s \in Live, Send(s)
  PROVE  Paired'
<1>1. PICK r, k, f : r = ws[s] /\ k = ws[s].sends + 1 /\ f = Plain("data", k)
  OBVIOUS
<1>2. PICK u : u = [r EXCEPT !.tx = Append(@, f), !.sends = k]
  OBVIOUS
<1>3. Yield(s, Out(u, <<>>)) /\ r.state = "open"
  <2>1. u = [ws[s] EXCEPT !.tx = Append(@, Plain("data", ws[s].sends + 1)), !.sends = @ + 1]
    BY <1>1, <1>2
  <2> QED BY <1>1, <2>1 DEF Send, Yields, Only
<1>4. ASSUME peer[s] # None
      PROVE  Turns(s, ws[s], u, <<>>) /\ Still(ws[s], u)
  <2>1. r \in Session /\ Own(r)
    BY <1>1, <1>4, Coupled DEF Duo
  <2>2. k \in Nat \ {0} /\ k = r.sends + 1
    BY <1>1, <2>1 DEF Session
  <2>3. f \in Frame /\ f.op = "data" /\ Body(f) /\ f.n = k
    <3>1. Plain("data", k).n = k
      BY DEF Plain
    <3> QED BY <1>1, <2>2, <3>1, FramesMade, BodiesMade
  <2>4. Turns(s, r, u, <<>>) /\ Still(r, u)
    BY <1>2, <1>3, <2>1, <2>2, <2>3, Queues
  <2> QED BY <1>1, <2>4
<1> QED BY <1>3, <1>4, StillStep

LEMMA ArmsPong ==
  ASSUME NEW s, NEW r \in Session
  PROVE  /\ Turns(s, r, ArmPong(r), <<>>) /\ Still(r, ArmPong(r))
         /\ ArmPong(r).state = r.state
<1>1. PICK a : a = r.armed \cup {"pong"}
  OBVIOUS
<1>2. PICK u : u = [r EXCEPT !.armed = a]
  OBVIOUS
<1>3. a \in SUBSET {"handshake", "close", "pong", "auto"}
  BY <1>1 DEF Session
<1>4. u \in Session
  BY <1>2, <1>3 DEF Session
<1>5. /\ u.tx = r.tx /\ u.part = r.part /\ u.sends = r.sends /\ u.msg = r.msg
      /\ u.code = r.code /\ u.state = r.state /\ u.phase = r.phase /\ u.link = r.link
      /\ Still(r, u)
  BY <1>2 DEF Session, Still
<1>6. Turns(s, r, u, <<>>)
  BY <1>4, <1>5, TurnsPlain
<1> QED BY <1>1, <1>2, <1>5, <1>6 DEF ArmPong

LEMMA SendPingPaired ==
  ASSUME IInv, IInv', Paired, NEW s \in Live, SendPing(s)
  PROVE  Paired'
<1>1. PICK r, f : r = ws[s] /\ f = Plain("ping", 0)
  OBVIOUS
<1>2. PICK u : u = [r EXCEPT !.tx = Append(@, f), !.sends = r.sends]
  OBVIOUS
<1>3. r \in Session
  BY <1>1, SoundHere
<1>4. u = [r EXCEPT !.tx = Append(@, f)]
  BY <1>2, <1>3 DEF Session
<1>5. Yield(s, Out(ArmPong(u), <<>>)) /\ r.state = "open"
  BY <1>1, <1>4 DEF SendPing, Yields, Only
<1>6. ASSUME peer[s] # None
      PROVE  Turns(s, ws[s], ArmPong(u), <<>>) /\ Still(ws[s], ArmPong(u))
  <2>1. Own(r)
    BY <1>1, <1>6, Coupled DEF Duo
  <2>2. f \in Frame /\ f.op = "ping" /\ Body(f)
    BY <1>1, FramesMade, BodiesMade
  <2>3. Turns(s, r, u, <<>>) /\ Still(r, u)
    BY <1>2, <1>3, <1>5, <2>1, <2>2, Queues
  <2>4. u \in Session
    BY <2>3 DEF Turns
  <2>5. Turns(s, u, ArmPong(u), <<>>) /\ Still(u, ArmPong(u))
    BY <2>4, ArmsPong
  <2>6. Turns(s, r, ArmPong(u), <<>>)
    BY <1>3, <2>3, <2>5, TurnsThen
  <2> QED BY <1>1, <2>3, <2>5, <2>6, StillComposes
<1> QED BY <1>5, <1>6, StillStep

LEMMA CodeTurns ==
  ASSUME NEW s, NEW r \in Session, NEW c \in CloseCodes \cup {"internal"},
         Civil /\ r.code \notin Accusing => c \notin Accusing,
         NEW u, u = [r EXCEPT !.code = c]
  PROVE  /\ Turns(s, r, u, <<>>) /\ Still(r, u)
         /\ u.state = r.state /\ u.link = r.link /\ u.code = c
<1>1. u \in Session
  BY DEF Session, CloseCodes
<1>2. /\ u.tx = r.tx /\ u.part = r.part /\ u.sends = r.sends /\ u.msg = r.msg
      /\ u.state = r.state /\ u.phase = r.phase /\ u.link = r.link /\ u.code = c
  BY DEF Session
<1>3. Still(r, u)
  BY DEF Session, Still
<1>4. Sends(r, u, <<>>)
  BY <1>1, <1>2, SendsQuiet
<1>5. Turns(s, r, u, <<>>)
  BY <1>1, <1>2, <1>4 DEF Turns
<1> QED BY <1>2, <1>3, <1>5

LEMMA ClosePaired ==
  ASSUME IInv, IInv', Paired, NEW s \in Live, NEW code \in Codes, Close(s, code)
  PROVE  Paired'
<1>1. PICK r, p : r = ws[s] /\ p = peer[s]
  OBVIOUS
<1>2. /\ r \in Session /\ s \in Sessions /\ r.state \in {"connecting", "open"}
      /\ code \in CloseCodes /\ (Civil => code \notin Accusing \cup {"malformed"})
  BY <1>1, SoundHere DEF Close, CloseCodes, Civil
<1>3. CASE s \in Clients /\ r.state = "connecting"
  <2>1. PICK c : c = (IF r.code = None THEN code ELSE r.code)
    OBVIOUS
  <2>2. PICK v : v = [r EXCEPT !.code = c]
    OBVIOUS
  <2>3. c \in CloseCodes \cup {"internal"} /\ (Civil /\ r.code \notin Accusing => c \notin Accusing)
    BY <1>2, <2>1 DEF Session, CloseCodes
  <2>4. Yield(s, Out(Finalized(s, v), <<>>))
    <3>1. v = [ws[s] EXCEPT !.code = IF @ = None THEN code ELSE @]
      BY <1>1, <2>1, <2>2
    <3> QED BY <1>1, <1>3, <3>1 DEF Close, Yields, Only, Finalized
  <2>5. Turns(s, r, v, <<>>) /\ Still(r, v)
    BY <1>2, <2>2, <2>3, CodeTurns
  <2>6. Turns(s, v, Finalized(s, v), <<>>) /\ Still(v, Finalized(s, v))
    BY <1>2, <2>5, TurnsFinalized DEF Turns
  <2>7. Turns(s, r, Finalized(s, v), <<>>) /\ Still(r, Finalized(s, v))
    BY <1>2, <2>5, <2>6, TurnsThen, StillComposes
  <2> QED BY <1>1, <2>4, <2>7, StillStep
<1>4. CASE ~(s \in Clients /\ r.state = "connecting")
  <2>1. PICK v : v = SendClose(r, code)
    OBVIOUS
  <2>2. PICK u : /\ Yield(s, Out(u, <<>>))
                 /\ u = (IF r.state = "connecting" THEN [v EXCEPT !.garbled = FALSE] ELSE v)
    BY <1>1, <1>4, <2>1 DEF Close, Yields, Only
  <2>3. ASSUME p # None
        PROVE  Turns(s, r, u, <<>>) /\ Still(r, u)
    <3>1. Duo(s, p)
      BY <1>1, <2>3, Coupled
    <3>2. Own(r) /\ Way(p, s, ws[p], r, wire[s]) /\ (s \in Clients <=> s \notin Conns)
      BY <1>1, <3>1 DEF Duo
    <3>3. r.link # "none" /\ (r.state = "connecting" => s \in Conns)
      <4>1. CASE s \in Clients
        BY <1>2, <1>4, <3>2, <4>1 DEF Own
      <4>2. CASE s \in Conns
        <5>1. s \in server.conns
          BY <4>2 DEF Close
        <5> QED BY <1>1, <4>2, <5>1 DEF IInv, Table
      <4> QED BY <3>2, <4>1, <4>2
    <3>4. Turns(s, r, v, <<>>) /\ Still(r, v)
      BY <1>2, <2>1, <3>3, TurnsSendClose
    <3>5. r.state = "connecting" => u = v
      <4>1. r.state = "connecting" => ~r.garbled
        BY <3>2, <3>3 DEF Way, Asked
      <4>2. v \in Session /\ (v.garbled <=> r.garbled)
        BY <3>4 DEF Turns, Still
      <4>3. ~v.garbled => [v EXCEPT !.garbled = FALSE] = v
        BY <4>2 DEF Session
      <4> QED BY <2>2, <4>1, <4>2, <4>3
    <3> QED BY <2>2, <3>4, <3>5
  <2> QED BY <1>1, <2>2, <2>3, StillStep
<1> QED BY <1>3, <1>4

(* Only the place in the pass, and what came behind the handshake, change.  *)
Moves(r, u) ==
  /\ u \in Session
  /\ u.tx = r.tx /\ u.part = r.part /\ u.sends = r.sends /\ u.msg = r.msg
  /\ u.code = r.code /\ u.state = r.state /\ u.phase = r.phase /\ u.link = r.link
  /\ u.got = r.got /\ u.garbled = r.garbled

LEMMA MovesTurns ==
  ASSUME NEW s, NEW r \in Session, NEW u, Moves(r, u)
  PROVE  Turns(s, r, u, <<>>)
BY TurnsPlain DEF Moves

(* A pass that reads nothing more has nothing left of a handshake chunk.    *)
LEMMA ReadingEmpty ==
  ASSUME IInv, Paired, NEW s \in Live, Reading(s), peer[s] # None
  PROVE  ws[s].carry = <<>> /\ ws[s].state # "connecting" /\ ws[s].link # "none"
<1>1. Own(ws[s])
  BY Coupled DEF Duo
<1>2. ws[s].pc \in {"read", "idle"}
  <2>1. CASE ws[s].pc = "read"
    BY <2>1
  <2>2. CASE Handled(s)
    BY <2>2, SoundHere DEF Handled, Resting, Board, Sessions
  <2> QED BY <2>1, <2>2 DEF Reading
<1>3. ws[s].carry = <<>>
  BY <1>1, <1>2 DEF Own, Carrying
<1>4. Passing(s) /\ ws[s].state # "connecting"
  BY ReadingPasses
<1>5. ws[s].link # "none"
  <2>1. ws[s].pc = "read" \/ ws[s].state \in {"open", "closing"}
    BY DEF Reading
  <2> QED BY <1>1, <2>1 DEF Own
<1> QED BY <1>3, <1>4, <1>5

LEMMA AutoPingedTurns ==
  ASSUME NEW s, NEW r \in Session, r.state = "open" => r.link # "none"
  PROVE  Turns(s, r, AutoPinged(r), <<>>) /\ Still(r, AutoPinged(r))
<1>1. CASE r.state # "open" \/ "auto" \notin r.armed
  <2>1. PICK u : u = AutoPinged(r)
    OBVIOUS
  <2>2. u = r
    BY <1>1, <2>1 DEF AutoPinged
  <2>3. u \in Session /\ Still(r, u)
    BY <2>2 DEF Still
  <2>4. Turns(s, r, u, <<>>)
    BY <2>2, <2>3, TurnsPlain
  <2> QED BY <2>1, <2>3, <2>4
<1>2. CASE r.state = "open" /\ "auto" \in r.armed
  <2>1. PICK f, v : f = Plain("ping", 0) /\ v = Internal(r, f)
    OBVIOUS
  <2>2. f \in Frame /\ Body(f) /\ f.op # "data"
    BY <2>1, FramesMade, BodiesMade
  <2>3. Turns(s, r, v, <<>>) /\ Still(r, v)
    BY <1>2, <2>1, <2>2, TurnsInternal
  <2>4. v \in Session
    BY <2>3 DEF Turns
  <2>5. Turns(s, v, ArmPong(v), <<>>) /\ Still(v, ArmPong(v))
    BY <2>4, ArmsPong
  <2>6. Turns(s, r, ArmPong(v), <<>>) /\ Still(r, ArmPong(v))
    BY <2>3, <2>5, TurnsThen, StillComposes
  <2>7. AutoPinged(r) = ArmPong(v)
    BY <1>2, <2>1 DEF AutoPinged
  <2> QED BY <2>6, <2>7
<1> QED BY <1>1, <1>2

LEMMA FinishPassPaired ==
  ASSUME IInv, IInv', Paired, NEW s \in Live, NEW pings \in BOOLEAN, FinishPass(s, pings)
  PROVE  Paired'
<1>1. PICK r, p, v : r = ws[s] /\ p = peer[s] /\ v = [ws[s] EXCEPT !.pc = "idle"]
  OBVIOUS
<1>2. PICK q : q = IF v.state # "closed" /\ StreamEnds(s) THEN FailWithError(s, v) ELSE v
  OBVIOUS
<1>3. PICK d \in Drained(s, q) :
        Yield(s, IF pings THEN Out(AutoPinged(d.r), d.out) ELSE d)
  BY <1>1, <1>2 DEF FinishPass, Yields
<1>4. PICK o : o = IF pings THEN Out(AutoPinged(d.r), d.out) ELSE d
  OBVIOUS
<1>5. /\ o.r = (IF pings THEN AutoPinged(d.r) ELSE d.r)
      /\ o.out = d.out
  BY <1>4 DEF Out
<1>6. ASSUME p # None
      PROVE  /\ Turns(s, r, o.r, o.out) /\ Poised(o.r) /\ r.state # "connecting"
             /\ o.r.got = r.got /\ o.r.garbled = r.garbled /\ o.r.carry = r.carry
  <2>1. Duo(s, p)
    BY <1>1, <1>6, Coupled
  <2>2. r \in Session /\ s \in Sessions /\ Own(r) /\ Room(s) \in Int
    BY <1>1, <2>1 DEF Duo
  <2>3. r.carry = <<>> /\ r.state # "connecting" /\ r.link # "none"
    BY <1>1, <1>6, ReadingEmpty DEF FinishPass
  <2>4. /\ Turns(s, r, v, <<>>) /\ v.got = r.got /\ v.garbled = r.garbled
        /\ v.pc = "idle" /\ v.carry = r.carry /\ v.back = r.back
    <3>1. v = [r EXCEPT !.pc = "idle"]
      BY <1>1
    <3>2. Moves(r, v) /\ v.pc = "idle" /\ v.carry = r.carry /\ v.back = r.back
      BY <2>2, <3>1 DEF Moves, Session
    <3> QED BY <2>2, <3>2, MovesTurns DEF Moves
  <2>5. Turns(s, v, q, <<>>) /\ Still(v, q)
    <3>1. v \in Session
      BY <2>4 DEF Turns
    <3>2. CASE q = v
      <4>1. q \in Session
        BY <3>1, <3>2
      <4> QED BY <3>1, <3>2, <4>1, TurnsPlain DEF Still
    <3>3. CASE q = FailWithError(s, v)
      BY <2>2, <3>1, <3>3, TurnsFail
    <3> QED BY <1>2, <3>2, <3>3
  <2>6. Turns(s, r, q, <<>>)
    BY <2>2, <2>4, <2>5, TurnsThen
  <2>7. q \in Session /\ q.state # "connecting" /\ q.link # "none"
    BY <2>3, <2>6 DEF Turns
  <2>8. Turns(s, q, d.r, d.out) /\ Still(q, d.r)
    BY <1>3, <2>2, <2>7, TurnsDrained
  <2>9. Turns(s, r, d.r, d.out)
    BY <2>2, <2>6, <2>8, TurnsThen
  <2>10. Turns(s, d.r, o.r, <<>>) /\ Still(d.r, o.r)
    <3>1. d.r \in Session /\ d.r.link # "none"
      BY <2>3, <2>9 DEF Turns
    <3>2. CASE pings
      BY <1>5, <3>1, <3>2, AutoPingedTurns
    <3>3. CASE ~pings
      <4>1. o.r = d.r /\ o.r \in Session
        BY <1>5, <3>1, <3>3
      <4> QED BY <3>1, <4>1, TurnsPlain DEF Still
    <3> QED BY <3>2, <3>3
  <2>11. Turns(s, r, o.r, o.out)
    BY <1>5, <2>2, <2>9, <2>10, TurnsThen
  <2>12. Still(v, o.r)
    BY <2>5, <2>8, <2>10, StillComposes
  <2>13. Poised(o.r)
    <3>1. o.r.pc = "idle" /\ o.r.carry = <<>>
      BY <2>3, <2>4, <2>12 DEF Still
    <3> QED BY <3>1 DEF Poised
  <2> QED BY <2>3, <2>4, <2>11, <2>12, <2>13 DEF Still
<1>7. p # None => /\ Turns(s, ws[s], o.r, o.out) /\ Poised(o.r)
                  /\ (ws[s].state = "connecting" => o.out = <<>>)
                  /\ o.r.got = ws[s].got /\ o.r.garbled = ws[s].garbled
                  /\ o.r.carry = ws[s].carry
  BY <1>1, <1>6
<1>8. Yield(s, o)
  BY <1>3, <1>4
<1> QED BY <1>1, <1>7, <1>8, QuietStep

LEMMA CallbackReturnsPaired ==
  ASSUME IInv, IInv', Paired, NEW s \in Live, CallbackReturns(s)
  PROVE  Paired'
<1>1. PICK r, p, b : r = ws[s] /\ p = peer[s] /\ b = ws[s].back
  OBVIOUS
<1>2. PICK v : v = [r EXCEPT !.pc = b, !.back = None]
  OBVIOUS
<1>3. PICK u : u \in {v, Settle(v)} /\ Yield(s, Out(u, <<>>))
  BY <1>1, <1>2 DEF CallbackReturns, Yields, Only
<1>4. Out(u, <<>>).r = u /\ Out(u, <<>>).out = <<>>
  BY DEF Out
<1>5. ASSUME p # None
      PROVE  /\ Turns(s, r, u, <<>>) /\ Poised(u)
             /\ u.got = r.got /\ u.garbled = r.garbled
             /\ u.carry = r.carry \/ (u.carry = <<>> /\ (u.state = "closed" \/ u.garbled))
  <2>1. r \in Session /\ Own(r) /\ Placed(r)
    BY <1>1, <1>5, Coupled DEF Duo, Sound
  <2>2. r.pc \in {"callback", "opened"} /\ b \in {"feed", "read"}
    BY <1>1, <2>1 DEF CallbackReturns, Placed
  <2>3. /\ Turns(s, r, v, <<>>) /\ v.got = r.got /\ v.garbled = r.garbled /\ v.link = r.link
        /\ v.state = r.state /\ v.pc = b /\ v.carry = r.carry /\ v.back = None
    <3>1. Moves(r, v) /\ v.pc = b /\ v.carry = r.carry /\ v.back = None
      BY ZenonT(60), <1>2, <2>1, <2>2 DEF Moves, Session
    <3> QED BY <2>1, <3>1, MovesTurns DEF Moves
  <2>4. v \in Session
    BY <2>3 DEF Turns
  <2>5. /\ Turns(s, v, u, <<>>) /\ u.got = v.got /\ u.garbled = v.garbled
        /\ u.pc = v.pc /\ u.back = v.back /\ u.link = v.link
        /\ u.carry = v.carry \/ (u.carry = <<>> /\ (u.state = "closed" \/ u.garbled))
    <3>1. CASE u = v
      BY <2>4, <3>1, TurnsPlain
    <3>2. CASE u # v
      <4>1. u = [v EXCEPT !.carry = <<>>] /\ (v.state = "closed" \/ v.garbled)
        BY <1>3, <3>2 DEF Settle
      <4> QED BY <2>4, <4>1, DropsCarry
    <3> QED BY <3>1, <3>2
  <2>6. Turns(s, r, u, <<>>)
    BY <2>1, <2>3, <2>5, TurnsThen
  <2>7. Poised(u)
    <3>1. r.link # "none"
      BY <2>1, <2>2 DEF Own
    <3>2. r.carry # <<>> => b = "feed"
      BY <1>1, <2>1, <2>2 DEF Own, Carrying
    <3> QED BY <2>2, <2>3, <2>5, <3>1, <3>2 DEF Poised, Carrying
  <2> QED BY <2>3, <2>5, <2>6, <2>7
<1>6. p # None => /\ Turns(s, ws[s], u, <<>>) /\ Poised(u)
                  /\ u.got = ws[s].got /\ u.garbled = ws[s].garbled
                  /\ (u.carry = ws[s].carry \/ (u.carry = <<>> /\ (u.state = "closed" \/ u.garbled)))
  BY <1>1, <1>5
<1> QED BY <1>1, <1>3, <1>4, <1>6, QuietStep

LEMMA OnConnectionRaisesPaired ==
  ASSUME IInv, IInv', Paired, NEW s \in Live, OnConnectionRaises(s)
  PROVE  Paired'
<1>1. PICK r, p, f : r = ws[s] /\ p = peer[s] /\ f = FailWithError(s, ws[s])
  OBVIOUS
<1>2. PICK u : u = [f EXCEPT !.pc = "idle", !.back = None, !.carry = <<>>]
  OBVIOUS
<1>3. Yield(s, Out(u, <<>>))
  BY <1>1, <1>2 DEF OnConnectionRaises, Yields, Only
<1>4. Out(u, <<>>).r = u /\ Out(u, <<>>).out = <<>>
  BY DEF Out
<1>5. ASSUME p # None
      PROVE  /\ Turns(s, r, u, <<>>) /\ Poised(u) /\ u.got = r.got /\ u.garbled = r.garbled
             /\ u.carry = <<>> /\ u.state = "closed"
  <2>1. r \in Session /\ s \in Sessions
    BY <1>1, <1>5, Coupled DEF Duo
  <2>2. Turns(s, r, f, <<>>) /\ Still(r, f) /\ f.state = "closed"
    BY <1>1, <2>1, TurnsFail
  <2>3. PICK c : c = <<>>
    OBVIOUS
  <2>4. c \in Seq(Frame) /\ u = [f EXCEPT !.pc = "idle", !.back = None, !.carry = c]
    BY <1>2, <2>3
  <2>5. /\ Turns(s, f, u, <<>>) /\ u.got = f.got /\ u.garbled = f.garbled
        /\ u.state = f.state /\ u.pc = "idle" /\ u.carry = c
    <3>1. f \in Session
      BY <2>2 DEF Turns
    <3>2. Moves(f, u) /\ u.pc = "idle" /\ u.carry = c
      BY <2>4, <3>1 DEF Moves, Session
    <3> QED BY <3>1, <3>2, MovesTurns DEF Moves
  <2>6. Turns(s, r, u, <<>>)
    BY <2>1, <2>2, <2>5, TurnsThen
  <2>7. Poised(u)
    BY <2>3, <2>5 DEF Poised
  <2> QED BY <2>2, <2>3, <2>5, <2>6, <2>7 DEF Still
<1>6. p # None => /\ Turns(s, ws[s], u, <<>>) /\ Poised(u)
                  /\ u.got = ws[s].got /\ u.garbled = ws[s].garbled
                  /\ u.carry = <<>> /\ u.state = "closed"
  BY <1>1, <1>5
<1> QED BY <1>1, <1>3, <1>4, <1>6, QuietStep

-----------------------------------------------------------------------------
(* The frames of a peer that is this library.                               *)

(* From r to u, a frame f of the peer has been dispatched.                  *)
Takes(r, u, f) ==
  /\ u.got = (IF f.op = "data" /\ ~r.garbled THEN Append(r.got, f.n) ELSE r.got)
  /\ u.carry = r.carry
  /\ u.garbled <=> r.garbled \/ f.op \in Heads
  /\ \/ u.pc = r.pc /\ u.back = r.back
     \/ u.pc = "callback" /\ u.back = r.pc

LEMMA StillTakes ==
  ASSUME NEW r, NEW u, NEW f, Still(r, u), f.op \notin {"data"} \cup Heads \/ r.garbled
  PROVE  Takes(r, u, f)
BY DEF Still, Takes

(* A callback interrupts the pass.                                          *)
LEMMA CallbackTurns ==
  ASSUME NEW s, NEW r \in Session, r.pc \in {"read", "feed"},
         NEW u, u = Callback(r, "callback")
  PROVE  /\ Turns(s, r, u, <<>>) /\ u.got = r.got /\ u.carry = r.carry
         /\ u.garbled = r.garbled /\ u.pc = "callback" /\ u.back = r.pc
<1>1. Moves(r, u) /\ u.carry = r.carry /\ u.pc = "callback" /\ u.back = r.pc
  BY DEF Callback, Moves, Session
<1>2. Turns(s, r, u, <<>>)
  BY <1>1, MovesTurns
<1> QED BY <1>1, <1>2 DEF Moves

LEMMA TakesPing ==
  ASSUME NEW s, NEW r \in Session, r.state # "connecting", r.link # "none",
         r.pc \in {"read", "feed"}, NEW f, f.op = "ping"
  PROVE  Turns(s, r, HandlePing(r, f), <<>>) /\ Takes(r, HandlePing(r, f), f)
<1>1. PICK g, v, u : g = Plain("pong", 0) /\ v = Internal(r, g) /\ u = Callback(v, "callback")
  OBVIOUS
<1>2. g \in Frame /\ Body(g) /\ g.op # "data"
  BY <1>1, FramesMade, BodiesMade
<1>3. Turns(s, r, v, <<>>) /\ Still(r, v)
  BY <1>1, <1>2, TurnsInternal
<1>4. v \in Session /\ v.pc \in {"read", "feed"}
  BY <1>3 DEF Turns, Still
<1>5. /\ Turns(s, v, u, <<>>) /\ u.got = v.got /\ u.carry = v.carry
      /\ u.garbled = v.garbled /\ u.pc = "callback" /\ u.back = v.pc
  BY <1>1, <1>4, CallbackTurns
<1>6. Turns(s, r, u, <<>>)
  BY <1>3, <1>5, TurnsThen
<1>7. Takes(r, u, f)
  BY <1>3, <1>5 DEF Still, Takes, Heads
<1> QED BY <1>1, <1>6, <1>7 DEF HandlePing

LEMMA TakesPong ==
  ASSUME NEW s, NEW r \in Session, r.pc \in {"read", "feed"}, NEW f, f.op = "pong"
  PROVE  Turns(s, r, HandlePong(r), <<>>) /\ Takes(r, HandlePong(r), f)
<1>1. PICK a : a = r.armed \ {"pong"}
  OBVIOUS
<1>2. PICK v, u : v = [r EXCEPT !.armed = a] /\ u = Callback(v, "callback")
  OBVIOUS
<1>3. a \in SUBSET {"handshake", "close", "pong", "auto"}
  BY <1>1 DEF Session
<1>4. Moves(r, v) /\ v.carry = r.carry /\ v.pc = r.pc /\ v.back = r.back
  BY <1>2, <1>3 DEF Moves, Session
<1>5. Turns(s, r, v, <<>>) /\ v \in Session
  BY <1>4, MovesTurns DEF Moves
<1>6. /\ Turns(s, v, u, <<>>) /\ u.got = v.got /\ u.carry = v.carry
      /\ u.garbled = v.garbled /\ u.pc = "callback" /\ u.back = v.pc
  BY <1>2, <1>4, <1>5, CallbackTurns
<1>7. Turns(s, r, u, <<>>)
  BY <1>5, <1>6, TurnsThen
<1>8. Takes(r, u, f)
  BY <1>4, <1>6 DEF Moves, Takes, Heads
<1> QED BY <1>1, <1>2, <1>7, <1>8 DEF HandlePong

(* A message of the library is whole: it is delivered straight from its     *)
(* only frame when a message of its length fits.                            *)
LEMMA TakesData ==
  ASSUME MaxMessage >= 1, NEW s, NEW r \in Session, r.pc \in {"read", "feed"},
         r.msg = NoMessage, ~r.garbled, NEW f \in Frame, Ours(f), f.op = "data"
  PROVE  Turns(s, r, HandleData(r, f), <<>>) /\ Takes(r, HandleData(r, f), f)
<1>1. PICK v, u : v = [r EXCEPT !.got = Append(@, f.n)] /\ u = Callback(v, "callback")
  OBVIOUS
<1>2. HandleData(r, f) = u
  <2>1. PICK m : m = Started(r.msg, f)
    OBVIOUS
  <2>2. ~Misplaced(r.msg, f)
    <3>1. (f.op = "cont") = FALSE
      BY DEF Ours
    <3>2. r.msg.open = FALSE
      BY DEF NoMessage
    <3> QED BY <3>1, <3>2 DEF Misplaced
  <2>3. m.empty = 0 /\ m.fill = 0
    BY <2>1 DEF Started, NoMessage, Ours
  <2>4. ~(m.empty > MaxEmptyRun)
    BY <2>3, SessionAssumption
  <2>5. Direct(m, f)
    BY <2>3, SessionAssumption DEF Direct, TooLong, Ours
  <2>6. [r EXCEPT !.msg = NoMessage] = r
    BY DEF Session
  <2>7. Deliver(r, f.utf8, f.n) = u
    BY <1>1 DEF Deliver, Ours
  <2> QED BY <2>1, <2>2, <2>4, <2>5, <2>6, <2>7 DEF HandleData
<1>3. PICK g : g = Append(r.got, f.n)
  OBVIOUS
<1>4. g \in Seq(Nat)
  BY <1>3 DEF Session, Frame
<1>5. v = [r EXCEPT !.got = g]
  BY <1>1, <1>3
<1>6. v \in Session
  BY <1>4, <1>5 DEF Session
<1>7. /\ v.tx = r.tx /\ v.part = r.part /\ v.sends = r.sends /\ v.msg = r.msg
      /\ v.code = r.code /\ v.state = r.state /\ v.phase = r.phase /\ v.link = r.link
      /\ v.got = g /\ v.garbled = r.garbled /\ v.pc = r.pc /\ v.back = r.back
      /\ v.carry = r.carry
  BY <1>5 DEF Session
<1>8. Turns(s, r, v, <<>>)
  BY <1>6, <1>7, TurnsPlain
<1>9. /\ Turns(s, v, u, <<>>) /\ u.got = v.got /\ u.carry = v.carry
      /\ u.garbled = v.garbled /\ u.pc = "callback" /\ u.back = v.pc
  BY <1>1, <1>6, <1>7, CallbackTurns
<1>10. Turns(s, r, u, <<>>)
  BY <1>8, <1>9, TurnsThen
<1>11. Takes(r, u, f)
  BY <1>3, <1>7, <1>9 DEF Takes, Heads
<1> QED BY <1>2, <1>10, <1>11

(* A head that comes to a session that is over already.                     *)
LEMMA TakesHead ==
  ASSUME NEW s, NEW r \in Session, r.state \in {"closing", "closed"}, NEW f, f.op \in Heads,
         NEW u, u = [SendClose(r, "protocol") EXCEPT !.garbled = TRUE]
  PROVE  Turns(s, r, u, <<>>) /\ Takes(r, u, f)
<1>1. u = [r EXCEPT !.garbled = TRUE]
  BY DEF SendClose
<1>2. u \in Session
  BY <1>1 DEF Session
<1>3. /\ u.tx = r.tx /\ u.part = r.part /\ u.sends = r.sends /\ u.msg = r.msg
      /\ u.code = r.code /\ u.state = r.state /\ u.phase = r.phase /\ u.link = r.link
      /\ u.got = r.got /\ u.garbled = TRUE /\ u.pc = r.pc /\ u.back = r.back
      /\ u.carry = r.carry
  BY <1>1 DEF Session
<1>4. Turns(s, r, u, <<>>)
  BY <1>2, <1>3, TurnsPlain
<1>5. Takes(r, u, f)
  BY <1>3 DEF Takes, Heads
<1> QED BY <1>4, <1>5

LEMMA TakesClose ==
  ASSUME NEW s \in Sessions, NEW r \in Session, Room(s) \in Int,
         r.state # "connecting", r.link # "none",
         NEW f \in Frame, Ours(f), f.op = "close", NEW o \in HandleClose(s, r, f)
  PROVE  Turns(s, r, o.r, o.out) /\ Still(r, o.r)
<1>1. f.code \in CloseCodes /\ (Civil => f.code \notin Accusing \cup {"malformed"})
  BY DEF Frame, CloseCodes, Ours
<1>2. CASE Malformed(f)
  <2>1. ~Civil
    BY <1>1, <1>2 DEF Malformed
  <2>2. PICK v : v = SendClose(r, "protocol")
    OBVIOUS
  <2>3. Turns(s, r, v, <<>>) /\ Still(r, v)
    BY <2>1, <2>2, TurnsSendClose DEF CloseCodes
  <2>4. o.r = v /\ o.out = <<>>
    BY <1>2, <2>2 DEF HandleClose, Only, Out
  <2> QED BY <2>3, <2>4
<1>3. CASE ~Malformed(f) /\ r.state = "closing"
  <2>1. PICK c : c = IF r.code = None THEN f.code ELSE r.code
    OBVIOUS
  <2>2. PICK v : v = [r EXCEPT !.code = c]
    OBVIOUS
  <2>3. o \in FinalizeClosed(s, v)
    BY <1>3, <2>1, <2>2 DEF HandleClose
  <2>4. c \in CloseCodes \cup {"internal"} /\ (Civil /\ r.code \notin Accusing => c \notin Accusing)
    BY <1>1, <2>1 DEF Session, CloseCodes
  <2>5. Turns(s, r, v, <<>>) /\ Still(r, v) /\ v.state = r.state /\ v.link = r.link
    <3>1. Turns(s, r, v, <<>>) /\ Still(r, v)
      BY <2>2, <2>4, CodeTurns
    <3>2. v.state = r.state /\ v.link = r.link
      BY <2>2 DEF Session
    <3> QED BY <3>1, <3>2
  <2>6. v \in Session
    BY <2>5 DEF Turns
  <2>7. Turns(s, v, o.r, o.out) /\ Still(v, o.r)
    BY <2>3, <2>5, <2>6, TurnsFinalizeClosed
  <2> QED BY <2>5, <2>7, TurnsThen, StillComposes
<1>4. CASE ~Malformed(f) /\ r.state # "closing"
  <2>1. PICK d : d = IF f.code = None THEN "normal" ELSE f.code
    OBVIOUS
  <2>2. PICK v : v = [r EXCEPT !.code = f.code]
    OBVIOUS
  <2>3. PICK x : x = SendClose(v, d)
    OBVIOUS
  <2>4. o \in FinalizeClosed(s, x)
    BY <1>4, <2>1, <2>2, <2>3 DEF HandleClose
  <2>5. Turns(s, r, v, <<>>) /\ Still(r, v) /\ v.state = r.state /\ v.link = r.link
    <3>1. PICK c : c = f.code
      OBVIOUS
    <3> QED BY <1>1, <2>2, <3>1, CodeTurns
  <2>6. v \in Session
    BY <2>5 DEF Turns
  <2>7. d \in CloseCodes /\ (Civil => d \notin Accusing \cup {"malformed"})
    BY <1>1, <2>1 DEF CloseCodes, Accusing
  <2>8. Turns(s, v, x, <<>>) /\ Still(v, x)
    BY <2>3, <2>5, <2>6, <2>7, TurnsSendClose
  <2>9. x \in Session /\ x.state # "connecting" /\ x.link # "none"
    BY <2>5, <2>8 DEF Turns
  <2>10. Turns(s, x, o.r, o.out) /\ Still(x, o.r)
    BY <2>4, <2>9, TurnsFinalizeClosed
  <2>11. Turns(s, r, x, <<>>) /\ Still(r, x)
    BY <2>5, <2>8, TurnsThen, StillComposes
  <2> QED BY <2>10, <2>11, TurnsThen, StillComposes
<1> QED BY <1>2, <1>3, <1>4

(* _dispatch_frame for such a frame: it is never refused, unless a head     *)
(* comes to a session that is over.                                         *)
LEMMA DispatchOurs ==
  ASSUME MaxMessage >= 1, NEW s \in Sessions, NEW r \in Session, Room(s) \in Int,
         r.state # "connecting", r.link # "none", r.msg = NoMessage,
         r.pc \in {"read", "feed"}, NEW f \in Frame, Ours(f),
         f.op \in Heads => r.state # "open", NEW o \in Dispatch(s, r, f)
  PROVE  Turns(s, r, o.r, o.out) /\ Takes(r, o.r, f)
<1>1. CASE r.garbled
  <2>1. o.r = r /\ o.out = <<>>
    BY <1>1 DEF Dispatch, Only, Out
  <2>2. Turns(s, r, r, <<>>)
    BY TurnsPlain
  <2> QED BY <1>1, <2>1, <2>2 DEF Takes
<1>2. CASE ~r.garbled /\ f.op \in Heads
  <2>1. PICK u : u = [SendClose(r, "protocol") EXCEPT !.garbled = TRUE]
    OBVIOUS
  <2>2. o.r = u /\ o.out = <<>>
    <3>1. Refused(f)
      BY <1>2 DEF Refused
    <3> QED BY <1>2, <2>1, <3>1 DEF Dispatch, Only, Out
  <2>3. r.state \in {"closing", "closed"}
    BY <1>2 DEF Session
  <2>4. Turns(s, r, u, <<>>) /\ Takes(r, u, f)
    BY <1>2, <2>1, <2>3, TakesHead
  <2> QED BY <2>2, <2>4
<1>3. CASE ~r.garbled /\ f.op \notin Heads
  <2>1. ~Refused(f) /\ f.clean
    BY <1>3 DEF Refused, Ours, Control
  <2>2. f.op \in {"data", "close", "ping", "pong"}
    BY <1>3 DEF Frame, Heads, Ours
  <2>3. CASE f.op = "data"
    <3>1. o.r = HandleData(r, f) /\ o.out = <<>>
      BY <1>3, <2>1, <2>3 DEF Dispatch, Only, Out
    <3> QED BY <1>3, <2>3, <3>1, TakesData
  <2>4. CASE f.op = "close"
    <3>1. o \in HandleClose(s, r, f)
      BY <1>3, <2>1, <2>4 DEF Dispatch
    <3>2. Turns(s, r, o.r, o.out) /\ Still(r, o.r)
      BY <2>4, <3>1, TakesClose
    <3> QED BY <1>3, <2>4, <3>2, StillTakes
  <2>5. CASE f.op = "ping"
    <3>1. o.r = HandlePing(r, f) /\ o.out = <<>>
      BY <1>3, <2>1, <2>5 DEF Dispatch, Only, Out
    <3> QED BY <2>5, <3>1, TakesPing
  <2>6. CASE f.op = "pong"
    <3>1. o.r = HandlePong(r) /\ o.out = <<>>
      BY <1>3, <2>1, <2>6 DEF Dispatch, Only, Out
    <3> QED BY <2>6, <3>1, TakesPong
  <2> QED BY <2>2, <2>3, <2>4, <2>5, <2>6
<1> QED BY <1>1, <1>2, <1>3

(* The next frame of the way to p is ours, and a head comes in its time.    *)
LEMMA FirstOurs ==
  ASSUME NEW s, NEW p, NEW r, NEW t, NEW w, Way(s, p, r, t, w),
         NEW f \in Frame, NEW y \in Seq(Frame), Stream(t, w) = <<f>> \o y
  PROVE  Ours(f) /\ (f.op \in Heads => t.state # "open" /\ ~Granting(p, t))
<1>1. PICK q : q = Stream(t, w)
  OBVIOUS
<1>2. Len(q) > 0 /\ q[1] = f /\ 1 \in 1..Len(q)
  <2>1. <<f>> \in Seq(Frame) /\ Len(<<f>>) = 1 /\ <<f>>[1] = f
    OBVIOUS
  <2>2. Len(q) = 1 + Len(y) /\ q[1] = <<f>>[1] /\ Len(y) \in Nat
    BY <1>1, <2>1, ConcatProperties
  <2> QED BY <2>1, <2>2
<1>3. Formed(p, t, q)
  BY <1>1 DEF Way
<1> QED BY <1>2, <1>3 DEF Formed

(* A session that has taken the next frame of the way to it, which is f.    *)
LEMMA FrameTaken ==
  ASSUME NEW s, NEW p, Duo(s, p), NEW u, NEW out, Turns(s, ws[s], u, out),
         ws[s].state # "connecting", NEW f \in Frame, NEW y \in Seq(Frame),
         Stream(ws[s], wire[s]) = <<f>> \o y, NEW c \in Seq(Frame), NEW x \in Seq(Frame),
         y = (IF ws[s].state = "closed" THEN c ELSE c \o x),
         u.got = (IF f.op = "data" /\ ~ws[s].garbled THEN Append(ws[s].got, f.n) ELSE ws[s].got),
         ~u.garbled => ~ws[s].garbled,
         u.carry = c \/ (u.carry = <<>> /\ (u.state = "closed" \/ u.garbled))
  PROVE  Way(p, s, ws[p], u, x)
<1>1. PICK r, t, w, g : r = ws[p] /\ t = ws[s] /\ w = wire[s] /\ g = u.got
  OBVIOUS
<1>2. PICK v : v = [t EXCEPT !.got = g, !.carry = c]
  OBVIOUS
<1>3. /\ r \in Session /\ t \in Session /\ w \in Seq(Frame) /\ Way(p, s, r, t, w)
      /\ (p \in Conns => s \notin Conns) /\ (t.state = "closed" => t.link # "up")
  BY <1>1 DEF Duo
<1>4. u \in Session /\ Turns(s, t, u, out)
  BY <1>1 DEF Turns
<1>5. v \in Session
  <2>1. g \in Seq(Nat)
    BY <1>1, <1>4 DEF Session
  <2> QED BY <1>2, <1>3, <2>1 DEF Session
<1>6. /\ v.state = t.state /\ v.phase = t.phase /\ v.link = t.link /\ v.garbled = t.garbled
      /\ v.got = g /\ v.carry = c
  BY <1>2, <1>3 DEF Session
<1>7. Stream(t, w) = <<f>> \o y /\ Stream(v, x) = y
  BY <1>1, <1>6 DEF Stream
<1>8. v.got = (IF f.op = "data" /\ ~t.garbled THEN Append(t.got, f.n) ELSE t.got)
  BY <1>1, <1>6
<1>9. Asked(s, v, x)
  BY <1>1, <1>6 DEF Asked
<1>10. Way(p, s, r, v, x)
  BY <1>3, <1>5, <1>6, <1>7, <1>8, <1>9, TakeWay
<1>11. Onward(s, v, u) /\ (u.state = "closed" => u.link # "up")
  BY <1>3, <1>4, <1>6 DEF Turns, Onward
<1>12. Asked(s, u, x)
  BY <1>1, <1>4 DEF Turns, Asked
<1>13. /\ u.carry = v.carry \/ (u.carry = <<>> /\ (u.state = "closed" \/ u.garbled))
       /\ u.got = v.got /\ (~u.garbled => ~v.garbled)
  BY <1>1, <1>6
<1>14. Way(p, s, r, u, x)
  BY <1>3, <1>5, <1>4, <1>10, <1>11, <1>12, <1>13, DeafWay
<1> QED BY <1>1, <1>14

LEMMA HeadTail ==
  ASSUME NEW q \in Seq(Frame), q # <<>>
  PROVE  Head(q) \in Frame /\ Tail(q) \in Seq(Frame) /\ q = <<Head(q)>> \o Tail(q)
BY HeadTailProperties, ConcatProperties

LEMMA ReadPaired ==
  ASSUME MaxMessage >= 1, IInv, IInv', Paired, NEW s \in Live, Read(s)
  PROVE  Paired'
<1>1. PICK r, p, f, y : r = ws[s] /\ p = peer[s] /\ f = Head(wire[s]) /\ y = Tail(wire[s])
  OBVIOUS
<1>2. PICK v : v = [r EXCEPT !.pc = "read"]
  OBVIOUS
<1>3. PICK o \in Dispatch(s, v, f) : YieldFrom(s, o, y)
  BY <1>1, <1>2 DEF Read, NextFrame
<1>4. wire[s] \in Seq(Frame) /\ wire[s] # <<>>
  BY SoundHere DEF Read
<1>5. f \in Frame /\ y \in Seq(Frame) /\ wire[s] = <<f>> \o y
  BY <1>1, <1>4, HeadTail
<1>6. ASSUME p # None
      PROVE  /\ Turns(s, ws[s], o.r, o.out) /\ Poised(o.r) /\ ws[s].state # "connecting"
             /\ Way(p, s, ws[p], o.r, y)
  <2>1. Duo(s, p)
    BY <1>1, <1>6, Coupled
  <2>2. r \in Session /\ s \in Sessions /\ Own(r) /\ Room(s) \in Int /\ Way(p, s, ws[p], r, wire[s])
    BY <1>1, <2>1 DEF Duo
  <2>3. r.carry = <<>> /\ r.state # "connecting" /\ r.link # "none" /\ r.state # "closed"
    BY <1>1, <1>6, ReadingEmpty DEF Read
  <2>4. Moves(r, v) /\ v.pc = "read" /\ v.carry = r.carry
    BY <1>2, <2>2 DEF Moves, Session
  <2>5. v \in Session /\ Turns(s, r, v, <<>>)
    BY <2>2, <2>4, MovesTurns DEF Moves
  <2>6. Stream(r, wire[s]) = <<f>> \o y
    BY <1>4, <1>5, <2>3, ConcatEmptySeq DEF Stream
  <2>7. Ours(f) /\ (f.op \in Heads => r.state # "open")
    BY <1>5, <2>2, <2>6, FirstOurs
  <2>8. Turns(s, v, o.r, o.out) /\ Takes(v, o.r, f)
    <3>1. v.state # "connecting" /\ v.link # "none" /\ v.msg = NoMessage
          /\ (f.op \in Heads => v.state # "open") /\ v.pc \in {"read", "feed"}
      BY <2>2, <2>3, <2>4, <2>7 DEF Moves, Own
    <3> QED BY <1>3, <1>5, <2>2, <2>5, <2>7, <3>1, DispatchOurs
  <2>9. Turns(s, r, o.r, o.out)
    BY <2>2, <2>5, <2>8, TurnsThen
  <2>10. o.r.carry = <<>>
    BY <2>3, <2>4, <2>8 DEF Takes
  <2>11. Poised(o.r)
    <3>1. o.r.pc \in {"read", "callback"}
      BY <2>4, <2>8 DEF Takes
    <3>2. o.r.link # "none"
      BY <2>3, <2>9 DEF Turns
    <3> QED BY <2>10, <3>1, <3>2 DEF Poised
  <2>12. Way(p, s, ws[p], o.r, y)
    <3>1. PICK c : c = <<>>
      OBVIOUS
    <3>2. c \in Seq(Frame) /\ y = c \o y
      BY <1>5, <3>1, ConcatEmptySeq
    <3>3. /\ o.r.got = (IF f.op = "data" /\ ~r.garbled THEN Append(r.got, f.n) ELSE r.got)
          /\ (~o.r.garbled => ~r.garbled) /\ o.r.carry = c
      BY <2>4, <2>8, <2>10, <3>1 DEF Takes, Moves
    <3>4. y = (IF r.state = "closed" THEN c ELSE c \o y)
      BY <2>3, <3>2
    <3>5. PICK u, out : u = o.r /\ out = o.out
      OBVIOUS
    <3>6. Turns(s, ws[s], u, out) /\ ws[s].state # "connecting" /\ Stream(ws[s], wire[s]) = <<f>> \o y
          /\ y = (IF ws[s].state = "closed" THEN c ELSE c \o y)
          /\ u.got = (IF f.op = "data" /\ ~ws[s].garbled THEN Append(ws[s].got, f.n) ELSE ws[s].got)
          /\ (~u.garbled => ~ws[s].garbled) /\ u.carry = c
      BY <1>1, <2>3, <2>6, <2>9, <3>3, <3>4, <3>5
    <3>7. Way(p, s, ws[p], u, y)
      BY <1>5, <2>1, <3>2, <3>6, FrameTaken
    <3> QED BY <3>5, <3>7
  <2> QED BY <1>1, <2>3, <2>9, <2>11, <2>12
<1> QED BY <1>1, <1>3, <1>5, <1>6, TurnsStep

LEMMA SettleTurns ==
  ASSUME NEW s, NEW r \in Session, NEW u, u = Settle(r)
  PROVE  /\ Turns(s, r, u, <<>>) /\ u.got = r.got /\ u.garbled = r.garbled
         /\ u.state = r.state /\ u.link = r.link /\ u.pc = r.pc /\ u.back = r.back
         /\ u.carry = r.carry \/ (u.carry = <<>> /\ (u.state = "closed" \/ u.garbled))
<1>1. CASE u = r
  BY <1>1, TurnsPlain
<1>2. CASE u # r
  <2>1. u = [r EXCEPT !.carry = <<>>] /\ (r.state = "closed" \/ r.garbled)
    BY <1>2 DEF Settle
  <2> QED BY <2>1, DropsCarry
<1> QED BY <1>1, <1>2

LEMMA FeedEndsPaired ==
  ASSUME IInv, IInv', Paired, NEW s \in Live, Feed(s), ws[s].carry = <<>>
  PROVE  Paired'
<1>1. PICK r, p : r = ws[s] /\ p = peer[s]
  OBVIOUS
<1>2. PICK u : u = [r EXCEPT !.pc = "idle"]
  OBVIOUS
<1>3. Yield(s, Out(u, <<>>))
  BY <1>1, <1>2 DEF Feed, Yields, Only
<1>4. Out(u, <<>>).r = u /\ Out(u, <<>>).out = <<>>
  BY DEF Out
<1>5. r \in Session
  BY <1>1, SoundHere
<1>6. Moves(r, u) /\ u.pc = "idle" /\ u.carry = r.carry
  BY <1>2, <1>5 DEF Moves, Session
<1>7. Turns(s, r, u, <<>>) /\ Poised(u)
  BY <1>1, <1>5, <1>6, MovesTurns DEF Poised
<1>8. p # None => /\ Turns(s, ws[s], u, <<>>) /\ Poised(u)
                  /\ u.got = ws[s].got /\ u.garbled = ws[s].garbled
                  /\ u.carry = ws[s].carry
  BY <1>1, <1>6, <1>7 DEF Moves
<1>9. PICK o : o = Out(u, <<>>)
  OBVIOUS
<1>10. /\ Yield(s, o)
       /\ p # None => /\ Turns(s, ws[s], o.r, o.out) /\ Poised(o.r)
                      /\ (ws[s].state = "connecting" => o.out = <<>>)
                      /\ o.r.got = ws[s].got /\ o.r.garbled = ws[s].garbled
                      /\ o.r.carry = ws[s].carry
  BY <1>3, <1>4, <1>8, <1>9
<1> QED BY <1>1, <1>10, QuietStep

LEMMA FeedFramePaired ==
  ASSUME MaxMessage >= 1, IInv, IInv', Paired, NEW s \in Live, Feed(s), ws[s].carry # <<>>
  PROVE  Paired'
<1>1. PICK r, p, f, c : r = ws[s] /\ p = peer[s] /\ f = Head(ws[s].carry) /\ c = Tail(ws[s].carry)
  OBVIOUS
<1>2. PICK v : v = [r EXCEPT !.carry = c]
  OBVIOUS
<1>3. PICK d \in Dispatch(s, v, f) : Yield(s, Out(Settle(d.r), d.out))
  <2>1. v = [ws[s] EXCEPT !.carry = Tail(@)]
    BY <1>1, <1>2
  <2> QED BY <1>1, <2>1 DEF Feed, Yields
<1>4. PICK u, out : u = Settle(d.r) /\ out = d.out
  OBVIOUS
<1>5. PICK o : o = Out(u, out)
  OBVIOUS
<1>6. o.r = u /\ o.out = out /\ YieldFrom(s, o, wire[s])
  BY <1>3, <1>4, <1>5 DEF Out, Yield
<1>7. r \in Session /\ wire[s] \in Seq(Frame)
  BY <1>1, SoundHere
<1>8. r.carry \in Seq(Frame) /\ r.carry # <<>>
  BY <1>1, <1>7 DEF Session
<1>9. f \in Frame /\ c \in Seq(Frame) /\ r.carry = <<f>> \o c
  BY <1>1, <1>8, HeadTail
<1>10. ASSUME p # None
       PROVE  /\ Turns(s, ws[s], u, out) /\ Poised(u) /\ ws[s].state # "connecting"
              /\ Way(p, s, ws[p], u, wire[s])
  <2>1. Duo(s, p)
    BY <1>1, <1>10, Coupled
  <2>2. s \in Sessions /\ Own(r) /\ Room(s) \in Int /\ Way(p, s, ws[p], r, wire[s]) /\ Placed(r)
    BY <1>1, <2>1 DEF Duo, Sound
  <2>3. r.pc = "feed" /\ r.state # "connecting" /\ r.link # "none"
    BY <1>1, <2>2 DEF Feed, Placed, Own
  <2>4. Moves(r, v) /\ v.pc = "feed" /\ v.carry = c
    BY <1>2, <1>7, <1>9, <2>3 DEF Moves, Session
  <2>5. v \in Session /\ Turns(s, r, v, <<>>)
    BY <1>7, <2>4, MovesTurns DEF Moves
  <2>6. PICK y : y = (IF r.state = "closed" THEN c ELSE c \o wire[s])
    OBVIOUS
  <2>7. y \in Seq(Frame) /\ Stream(r, wire[s]) = <<f>> \o y
    <3>1. y \in Seq(Frame)
      BY <1>7, <1>9, <2>6, ConcatProperties
    <3>2. <<f>> \in Seq(Frame)
      BY <1>9
    <3>3. (<<f>> \o c) \o wire[s] = <<f>> \o (c \o wire[s])
      BY <1>7, <1>9, <3>2, FramesAssociate
    <3> QED BY <1>9, <2>6, <3>1, <3>3 DEF Stream
  <2>8. Ours(f) /\ (f.op \in Heads => r.state # "open")
    BY <1>9, <2>2, <2>7, FirstOurs
  <2>9. Turns(s, v, d.r, d.out) /\ Takes(v, d.r, f)
    <3>1. v.state # "connecting" /\ v.link # "none" /\ v.msg = NoMessage
          /\ (f.op \in Heads => v.state # "open") /\ v.pc \in {"read", "feed"}
      BY <2>2, <2>3, <2>4, <2>8 DEF Moves, Own
    <3> QED BY <1>3, <1>9, <2>2, <2>5, <2>8, <3>1, DispatchOurs
  <2>10. /\ Turns(s, d.r, u, <<>>) /\ u.got = d.r.got /\ u.garbled = d.r.garbled
         /\ u.pc = d.r.pc /\ u.back = d.r.back
         /\ u.carry = d.r.carry \/ (u.carry = <<>> /\ (u.state = "closed" \/ u.garbled))
    <3>1. d.r \in Session
      BY <2>9 DEF Turns
    <3> QED BY <1>4, <3>1, SettleTurns
  <2>11. Turns(s, r, u, out)
    <3>1. Turns(s, r, d.r, d.out)
      BY <1>7, <2>5, <2>9, TurnsThen
    <3> QED BY <1>4, <1>7, <2>10, <3>1, TurnsThen
  <2>12. Poised(u)
    <3>1. u.pc = "feed" \/ (u.pc = "callback" /\ u.back = "feed")
      BY <2>4, <2>9, <2>10 DEF Takes
    <3>2. u.link # "none"
      BY <2>3, <2>11 DEF Turns
    <3> QED BY <3>1, <3>2 DEF Poised, Carrying
  <2>13. Way(p, s, ws[p], u, wire[s])
    <3>1. /\ u.got = (IF f.op = "data" /\ ~r.garbled THEN Append(r.got, f.n) ELSE r.got)
          /\ (~u.garbled => ~r.garbled)
          /\ (u.carry = c \/ (u.carry = <<>> /\ (u.state = "closed" \/ u.garbled)))
      BY <2>4, <2>9, <2>10 DEF Takes, Moves
    <3>2. Turns(s, ws[s], u, out) /\ ws[s].state # "connecting" /\ Stream(ws[s], wire[s]) = <<f>> \o y
          /\ y = (IF ws[s].state = "closed" THEN c ELSE c \o wire[s])
          /\ u.got = (IF f.op = "data" /\ ~ws[s].garbled THEN Append(ws[s].got, f.n) ELSE ws[s].got)
          /\ (~u.garbled => ~ws[s].garbled)
      BY <1>1, <2>3, <2>6, <2>7, <2>11, <3>1
    <3> QED BY <1>7, <1>9, <2>1, <2>7, <3>1, <3>2, FrameTaken
  <2> QED BY <1>1, <2>3, <2>11, <2>12, <2>13
<1>11. p # None => /\ Turns(s, ws[s], o.r, o.out) /\ Poised(o.r)
                   /\ (ws[s].state = "connecting" => o.out = <<>>)
                   /\ Way(p, s, ws[p], o.r, wire[s])
  BY <1>6, <1>10
<1> QED BY <1>1, <1>6, <1>7, <1>11, TurnsStep

-----------------------------------------------------------------------------
(* The handshake.                                                           *)

LEMMA PairStep ==
  ASSUME IInv, IInv', Paired, NEW s \in Live, NEW o, NEW rest \in Seq(Frame),
         YieldFrom(s, o, rest), NEW p, p = peer[s],
         p # None => /\ o.r \in Session /\ o.out \in Seq(Frame) /\ Own(o.r)
                     /\ o.r.state = "closed" => o.r.link # "up"
                     /\ Way(s, p, o.r, ws[p],
                            IF Whole(ws[s], ws[p]) THEN wire[p] \o o.out ELSE wire[p])
                     /\ Way(p, s, ws[p], o.r, rest)
  PROVE  Paired'
<1>1. CASE p = None
  BY <1>1, AloneFair
<1>2. CASE p # None
  <2>1. Fair(s, o, rest)
    BY <1>2 DEF Fair
  <2> QED BY <1>2, <2>1, PairYield
<1> QED BY <1>1, <1>2

(* The receiver is over, whatever is left on the way to it.                 *)
LEMMA OverAnyWay ==
  ASSUME NEW s, NEW p, NEW r \in Session, NEW t \in Session, NEW u \in Session,
         NEW w, Way(s, p, r, t, w), u.state = "closed", u.link # "up",
         u.carry = <<>>, u.got = t.got, NEW x, Early(s, r) => x = <<>>
  PROVE  Way(s, p, r, u, x)
<1>1. Way(s, p, r, u, <<>>)
  BY OverWay
<1>2. Stream(u, <<>>) = Stream(u, x)
  BY DEF Stream
<1> QED BY <1>1, <1>2 DEF Way, Unheard, Asked

(* A session in its handshake has nothing pending, and keeps no bytes.      *)
LEMMA ShakingOwn ==
  ASSUME NEW s, NEW p, Duo(s, p), ws[s].state = "connecting"
  PROVE  /\ Pending(ws[s]) = <<>> /\ ws[s].sends = 0
         /\ ws[s].carry = <<>> /\ ws[s].pc = "idle"
         /\ s \in Conns /\ ws[s].phase # None => ws[s].link # "none"
BY DEF Duo, Own, Sound, Placed, Linked, Carrying

(* What opens, or goes on with, a handshake.                                *)
LEMMA ShakingKeeps ==
  ASSUME NEW r \in Session, Own(r), r.state = "connecting", NEW u \in Session,
         u.tx = r.tx, u.part = r.part, u.sends = r.sends, u.msg = r.msg, u.code = r.code,
         u.link = r.link,
         \/ u.state = "connecting" /\ u.pc = r.pc /\ u.back = r.back /\ u.carry = r.carry
         \/ /\ u.state = "open" /\ u.link # "none"
            /\ u.pc = "opened" /\ u.back = "feed"
  PROVE  Own(u) /\ Pending(u) = Pending(r)
<1>1. Pending(u) = Pending(r)
  BY DEF Pending
<1> QED BY <1>1 DEF Own, Carrying

LEMMA HeadsMade ==
  \A op \in Heads : /\ Plain(op, 0) \in Frame /\ Plain(op, 0).op = op /\ Ours(Plain(op, 0))
                    /\ <<Plain(op, 0)>> \in Seq(Frame)
<1>1. TAKE op \in Heads
<1>2. op \in {"request", "accept", "refusal"}
  BY DEF Heads
<1>3. PICK f : f = Plain(op, 0)
  OBVIOUS
<1>4. f \in Frame /\ f.op = op
  BY <1>2, <1>3, FramesMade
<1>5. f.fin /\ f.clean /\ f.utf8 /\ f.len = 1 /\ f.code = None
  BY <1>3 DEF Plain
<1>6. None \notin Accusing \cup {"malformed"}
  BY SessionAssumption DEF Accusing
<1>7. Ours(f)
  BY <1>2, <1>4, <1>5, <1>6 DEF Ours
<1> QED BY <1>3, <1>4, <1>7

(* A session that sends its head.                                           *)
LEMMA HeadPaired ==
  ASSUME IInv, IInv', Paired, NEW s \in Live, SendHandshake(s),
         NEW u, NEW f, Yield(s, Out(u, <<f>>)),
         \/ s \in Clients /\ u = [ws[s] EXCEPT !.phase = "receiving"] /\ f = Plain("request", 0)
         \/ s \notin Clients /\ u = EnterOpen(ws[s]) /\ f = Plain("accept", 0)
  PROVE  Paired'
<1>1. PICK r, p : r = ws[s] /\ p = peer[s]
  OBVIOUS
<1>2. r.state = "connecting" /\ r.phase = "sending"
  BY <1>1 DEF SendHandshake
<1>3. f \in Frame /\ Ours(f) /\ <<f>> \in Seq(Frame) /\ f.op \in Heads
      /\ (s \in Clients => f.op = "request")
  BY HeadsMade DEF Heads
<1>4. r \in Session /\ wire[s] \in Seq(Frame)
  BY <1>1, SoundHere
<1>5. /\ u \in Session
      /\ u.tx = r.tx /\ u.part = r.part /\ u.sends = r.sends /\ u.msg = r.msg /\ u.code = r.code
      /\ u.link = r.link /\ u.got = r.got /\ u.garbled = r.garbled /\ u.carry = r.carry
      /\ s \in Clients => /\ u.state = "connecting" /\ u.pc = r.pc /\ u.back = r.back
                          /\ u.phase = "receiving"
      /\ s \notin Clients => u.state = "open" /\ u.pc = "opened" /\ u.back = "feed"
  <2>1. CASE s \in Clients
    <3>1. u = [r EXCEPT !.phase = "receiving"]
      BY <1>1, <2>1
    <3> QED BY <1>2, <1>4, <2>1, <3>1 DEF Session
  <2>2. CASE s \notin Clients
    <3>1. PICK a : a = r.armed \ {"handshake"}
      OBVIOUS
    <3>2. u = [r EXCEPT !.phase = None, !.armed = a, !.state = "open",
                        !.pc = "opened", !.back = "feed"]
      BY <1>1, <2>2, <3>1 DEF EnterOpen
    <3>3. a \in SUBSET {"handshake", "close", "pong", "auto"}
      BY <1>4, <3>1 DEF Session
    <3> QED BY ZenonT(60), <1>4, <2>2, <3>2, <3>3 DEF Session
  <2> QED BY <2>1, <2>2
<1>6. PICK o : o = Out(u, <<f>>)
  OBVIOUS
<1>7. o.r = u /\ o.out = <<f>> /\ YieldFrom(s, o, wire[s])
  BY <1>6 DEF Out, Yield
<1>8. ASSUME p # None
      PROVE  /\ Own(u)
             /\ Way(s, p, u, ws[p], IF Whole(ws[s], ws[p]) THEN wire[p] \o <<f>> ELSE wire[p])
             /\ Way(p, s, ws[p], u, wire[s])
  <2>1. Duo(s, p)
    BY <1>1, <1>8, Coupled
  <2>2. PICK t, w : t = ws[p] /\ w = wire[p]
    OBVIOUS
  <2>3. /\ t \in Session /\ w \in Seq(Frame) /\ Own(r) /\ Way(s, p, r, t, w)
        /\ Way(p, s, t, r, wire[s]) /\ (t.state = "closed" => t.link # "up")
        /\ (r.state = "closed" => r.link # "up")
        /\ (s \in Conns <=> p \notin Conns) /\ (s \in Clients <=> p \in Conns)
    BY <1>1, <2>1, <2>2 DEF Duo
  <2>4. s \in Conns => r.link # "none"
    BY <1>1, <1>2, <2>1, ShakingOwn, SessionAssumption
  <2>5. Own(u) /\ Pending(u) = Pending(r)
    BY <1>2, <1>4, <1>5, <2>3, <2>4, ShakingKeeps
  <2>6. Way(s, p, u, t, IF Whole(r, t) THEN w \o <<f>> ELSE w)
    <3>1. CASE Early(s, u)
      <4>1. s \in Clients /\ r.link = "none"
        BY <1>5, <2>3, <3>1 DEF Early
      <4>2. Early(s, r) /\ ~Whole(u, t) /\ ~Whole(r, t)
        BY <1>5, <2>3, <4>1 DEF Early, Whole
      <4> QED BY <1>5, <2>3, <4>2, SameWay
    <3>2. CASE ~Early(s, u)
      <4>1. Early(s, r)
        BY <1>2 DEF Early
      <4> QED BY <1>3, <1>4, <1>5, <2>3, <3>2, <4>1, HeadWay
    <3> QED BY <3>1, <3>2
  <2>7. Way(p, s, t, u, wire[s])
    <3>1. Onward(s, r, u)
      BY <1>2, <1>5, <2>3 DEF Onward, Granting
    <3>2. Asked(s, u, wire[s])
      BY <1>5, <2>3 DEF Asked
    <3>3. (u.state = "closed" => u.link # "up") /\ (p \in Conns => s \notin Conns)
      BY <1>5, <2>3
    <3>4. (~u.garbled => ~r.garbled) /\ u.got = r.got /\ u.carry = r.carry
      BY <1>5
    <3> QED BY <1>4, <1>5, <2>3, <3>1, <3>2, <3>3, <3>4, DeafWay
  <2> QED BY <1>1, <2>2, <2>5, <2>6, <2>7
<1>9. p # None => /\ o.r \in Session /\ o.out \in Seq(Frame) /\ Own(o.r)
                  /\ (o.r.state = "closed" => o.r.link # "up")
                  /\ Way(s, p, o.r, ws[p],
                         IF Whole(ws[s], ws[p]) THEN wire[p] \o o.out ELSE wire[p])
                  /\ Way(p, s, ws[p], o.r, wire[s])
  BY <1>3, <1>5, <1>7, <1>8
<1> QED BY <1>1, <1>4, <1>7, <1>9, PairStep

LEMMA SendHandshakePaired ==
  ASSUME IInv, IInv', Paired, NEW s \in Live, SendHandshake(s)
  PROVE  Paired'
<1>1. PICK u, f :
        \/ /\ Yield(s, Out(u, <<f>>))
           /\ \/ /\ s \in Clients /\ u = [ws[s] EXCEPT !.phase = "receiving"]
                 /\ f = Plain("request", 0)
              \/ s \notin Clients /\ u = EnterOpen(ws[s]) /\ f = Plain("accept", 0)
        \/ Yield(s, Out(FailWithError(s, ws[s]), <<>>))
  BY DEF SendHandshake, Yields, Only
<1> QED BY <1>1, HeadPaired, FailPaired

(* A client that has not begun is sent nothing.                             *)
LEMMA HeardLinked ==
  ASSUME IInv, Paired, NEW s \in Live, s \in Clients, peer[s] # None, wire[s] # <<>>
  PROVE  ws[s].link # "none"
<1>1. PICK p : p = peer[s]
  OBVIOUS
<1>2. Duo(s, p)
  BY <1>1, Coupled
<1>3. SUFFICES ASSUME ws[s].link = "none" PROVE FALSE
  OBVIOUS
<1>4. ws[p].link = "none"
  BY <1>1, <1>3 DEF IInv, Dialled
<1>5. p \in Conns /\ p \in Live
  BY <1>2 DEF Duo
<1>6. ws[p].state = "connecting"
  BY <1>4, <1>5, SoundHere DEF Sound, Linked
<1>7. Way(p, s, ws[p], ws[s], wire[s])
  BY <1>2 DEF Duo
<1> QED BY <1>5, <1>6, <1>7 DEF Way, Unheard, Early

(* A client that is accepted.                                               *)
LEMMA AcceptedPaired ==
  ASSUME IInv, IInv', Paired, NEW s \in Live, s \in Clients, Receiving(s),
         IsAcceptance(ws[s], Head(wire[s])), WithCarry(s, ArmAutoPing(s, EnterOpen(ws[s])))
  PROVE  Paired'
<1>1. PICK r, p, f, y : r = ws[s] /\ p = peer[s] /\ f = Head(wire[s]) /\ y = Tail(wire[s])
  OBVIOUS
<1>2. wire[s] \in Seq(Frame) /\ wire[s] # <<>> /\ r \in Session /\ r.state = "connecting"
  BY <1>1, SoundHere DEF Receiving
<1>3. f \in Frame /\ y \in Seq(Frame) /\ wire[s] = <<f>> \o y
  BY <1>1, <1>2, HeadTail
<1>4. PICK n \in 0..Len(y) :
        YieldFrom(s, Out([ArmAutoPing(s, EnterOpen(r)) EXCEPT !.carry = SubSeq(y, 1, n)], <<>>),
                  SubSeq(y, n + 1, Len(y)))
  BY <1>1 DEF WithCarry
<1>5. PICK c, x : c = SubSeq(y, 1, n) /\ x = SubSeq(y, n + 1, Len(y))
  OBVIOUS
<1>6. c \in Seq(Frame) /\ x \in Seq(Frame) /\ c \o x = y
  BY <1>3, <1>5, CutParts
<1>7. PICK u : u = [ArmAutoPing(s, EnterOpen(r)) EXCEPT !.carry = c]
  OBVIOUS
<1>8. PICK a : a = (r.armed \ {"handshake"}) \cup (IF s \in AutoPing THEN {"auto"} ELSE {})
  OBVIOUS
<1>9. a \in SUBSET {"handshake", "close", "pong", "auto"}
  BY <1>2, <1>8 DEF Session
<1>10. u = [r EXCEPT !.phase = None, !.armed = a, !.state = "open",
                     !.pc = "opened", !.back = "feed", !.carry = c]
  BY <1>2, <1>7, <1>8 DEF ArmAutoPing, EnterOpen, Session
<1>11. /\ u \in Session
       /\ u.tx = r.tx /\ u.part = r.part /\ u.sends = r.sends /\ u.msg = r.msg /\ u.code = r.code
       /\ u.link = r.link /\ u.got = r.got /\ u.garbled = r.garbled
       /\ u.state = "open" /\ u.pc = "opened" /\ u.back = "feed" /\ u.carry = c
  BY ZenonT(60), <1>2, <1>6, <1>9, <1>10 DEF Session
<1>12. PICK o : o = Out(u, <<>>)
  OBVIOUS
<1>13. o.r = u /\ o.out = <<>> /\ YieldFrom(s, o, x)
  BY <1>4, <1>5, <1>7, <1>12 DEF Out
<1>14. ASSUME p # None
       PROVE  /\ Own(u)
              /\ Way(s, p, u, ws[p], IF Whole(ws[s], ws[p]) THEN wire[p] \o <<>> ELSE wire[p])
              /\ Way(p, s, ws[p], u, x)
  <2>1. Duo(s, p)
    BY <1>1, <1>14, Coupled
  <2>2. PICK t, w : t = ws[p] /\ w = wire[p]
    OBVIOUS
  <2>3. /\ t \in Session /\ w \in Seq(Frame) /\ Own(r) /\ Way(s, p, r, t, w)
        /\ Way(p, s, t, r, wire[s]) /\ s \notin Conns /\ s \in Clients
    BY <1>1, <2>1, <2>2 DEF Duo
  <2>4. r.link # "none"
    BY <1>1, <1>2, <1>14, HeardLinked
  <2>5. Own(u) /\ Pending(u) = Pending(r)
    BY <1>2, <1>11, <2>3, <2>4, ShakingKeeps
  <2>6. Way(s, p, u, t, w)
    <3>1. (Early(s, u) => Early(s, r)) /\ (Whole(u, t) => Whole(r, t) /\ Pending(u) = Pending(r))
      BY <1>11, <2>3, <2>5 DEF Early, Whole
    <3> QED BY <1>11, <2>3, <3>1, SameWay
  <2>7. w \o <<>> = w
    BY <2>3, ConcatEmptySeq
  <2>8. r.carry = <<>>
    BY <1>1, <1>2, <2>1, ShakingOwn
  <2>9. Stream(r, wire[s]) = <<f>> \o y /\ Stream(u, x) = y
    BY <1>2, <1>3, <1>6, <1>11, <2>8, ConcatEmptySeq DEF Stream
  <2>10. u.got = (IF f.op = "data" /\ ~r.garbled THEN Append(r.got, f.n) ELSE r.got)
    BY <1>1, <1>11 DEF IsAcceptance
  <2>11. Asked(s, u, x)
    BY <2>3 DEF Asked
  <2>12. Way(p, s, t, u, x)
    BY <1>2, <1>3, <1>6, <1>11, <2>3, <2>9, <2>10, <2>11, TakeWay
  <2> QED BY <1>1, <2>2, <2>5, <2>6, <2>7, <2>12
<1>15. p # None => /\ o.r \in Session /\ o.out \in Seq(Frame) /\ Own(o.r)
                   /\ (o.r.state = "closed" => o.r.link # "up")
                   /\ Way(s, p, o.r, ws[p],
                          IF Whole(ws[s], ws[p]) THEN wire[p] \o o.out ELSE wire[p])
                   /\ Way(p, s, ws[p], o.r, x)
  BY <1>11, <1>13, <1>14
<1> QED BY <1>1, <1>6, <1>13, <1>15, PairStep

(* A client that is answered with something else, and fails or waits in     *)
(* vain.                                                                    *)
LEMMA UnacceptedPaired ==
  ASSUME IInv, IInv', Paired, NEW s \in Live, s \in Clients, Receiving(s),
         NEW o \in Absorbed(ws[s], Head(wire[s])) \cup Only(FailWithError(s, ws[s])),
         YieldFrom(s, o, Tail(wire[s]))
  PROVE  Paired'
<1>1. PICK r, p, f, y : r = ws[s] /\ p = peer[s] /\ f = Head(wire[s]) /\ y = Tail(wire[s])
  OBVIOUS
<1>2. wire[s] \in Seq(Frame) /\ wire[s] # <<>> /\ r \in Session /\ r.state = "connecting"
  BY <1>1, SoundHere DEF Receiving
<1>3. f \in Frame /\ y \in Seq(Frame) /\ wire[s] = <<f>> \o y
  BY <1>1, <1>2, HeadTail
<1>4. PICK u : /\ o.r = u /\ o.out = <<>>
               /\ u \in {[r EXCEPT !.garbled = TRUE], FailWithError(s, r)}
  BY <1>1 DEF Absorbed, Only, Out
<1>5. ASSUME p # None
      PROVE  Turns(s, r, u, <<>>) /\ Poised(u) /\ Way(p, s, ws[p], u, y)
  <2>1. Duo(s, p)
    BY <1>1, <1>5, Coupled
  <2>2. PICK t, w : t = ws[p] /\ w = wire[s]
    OBVIOUS
  <2>3. /\ t \in Session /\ w \in Seq(Frame) /\ Own(r) /\ s \in Sessions
        /\ Way(p, s, t, r, w) /\ s \notin Conns /\ s \in Clients
        /\ (p \in Conns => s \notin Conns)
    BY <1>1, <2>1, <2>2 DEF Duo
  <2>4. r.carry = <<>>
    BY <1>1, <1>2, <2>1, ShakingOwn
  <2>5. CASE u = [r EXCEPT !.garbled = TRUE]
    <3>1. u \in Session
      BY <1>2, <2>5 DEF Session
    <3>2. /\ u.tx = r.tx /\ u.part = r.part /\ u.sends = r.sends /\ u.msg = r.msg
          /\ u.code = r.code /\ u.state = r.state /\ u.phase = r.phase /\ u.link = r.link
          /\ u.got = r.got /\ u.garbled = TRUE /\ u.pc = r.pc /\ u.back = r.back
          /\ u.carry = r.carry
      BY <1>2, <2>5 DEF Session
    <3>3. Turns(s, r, u, <<>>)
      BY <1>2, <3>1, <3>2, TurnsPlain
    <3>4. Poised(u)
      BY <2>3, <3>2, StillPoised
    <3>5. Way(p, s, t, u, w)
      <4>1. Onward(s, r, u) /\ (u.state = "closed" => u.link # "up") /\ Asked(s, u, w)
        BY <1>2, <2>3, <3>2 DEF Onward, Asked
      <4> QED BY <1>2, <2>3, <3>1, <3>2, <4>1, DeafWay
    <3>6. Stream(u, w) = <<f>> \o y /\ Stream(u, y) = y
      BY <1>2, <1>3, <2>2, <2>4, <3>2, ConcatEmptySeq DEF Stream
    <3>7. Asked(s, u, y) /\ u.garbled
      BY <2>3, <3>2 DEF Asked
    <3>8. Way(p, s, t, u, y)
      BY <1>3, <2>3, <3>1, <3>5, <3>6, <3>7, TakeWay
    <3> QED BY <2>2, <3>3, <3>4, <3>8
  <2>6. CASE u = FailWithError(s, r)
    <3>1. Turns(s, r, u, <<>>) /\ Still(r, u) /\ u.state = "closed"
      BY <1>2, <2>3, <2>6, TurnsFail
    <3>2. u \in Session /\ (u.link = "none" <=> r.link = "none") /\ u.link # "up"
      BY <1>2, <3>1 DEF Turns
    <3>3. Poised(u)
      BY <2>3, <3>1, <3>2, StillPoised DEF Still
    <3>4. Early(p, t) => y = <<>>
      BY <1>2, <2>2, <2>3 DEF Way, Unheard
    <3>5. u.carry = <<>> /\ u.got = r.got
      BY <2>4, <3>1 DEF Still
    <3>6. Way(p, s, t, u, y)
      BY <1>2, <2>3, <3>1, <3>2, <3>4, <3>5, OverAnyWay
    <3> QED BY <2>2, <3>1, <3>3, <3>6
  <2> QED BY <1>4, <2>5, <2>6
<1>6. p # None => /\ Turns(s, ws[s], o.r, o.out) /\ Poised(o.r)
                  /\ (ws[s].state = "connecting" => o.out = <<>>)
                  /\ Way(p, s, ws[p], o.r, y)
  BY <1>1, <1>4, <1>5
<1>7. YieldFrom(s, o, y)
  BY <1>1
<1> QED BY <1>1, <1>3, <1>6, <1>7, TurnsStep

LEMMA ReceiveResponsePaired ==
  ASSUME IInv, IInv', Paired, NEW s \in Live, ReceiveResponse(s)
  PROVE  Paired'
<1>1. s \in Clients /\ Receiving(s)
  BY DEF ReceiveResponse
<1>2. CASE IsAcceptance(ws[s], Head(wire[s]))
  BY <1>1, <1>2, AcceptedPaired DEF ReceiveResponse
<1>3. CASE ~IsAcceptance(ws[s], Head(wire[s]))
  <2>1. PICK o \in Absorbed(ws[s], Head(wire[s])) \cup Only(FailWithError(s, ws[s])) :
          YieldFrom(s, o, Tail(wire[s]))
    BY <1>3 DEF ReceiveResponse
  <2> QED BY <1>1, <2>1, UnacceptedPaired
<1> QED BY <1>2, <1>3

(* A connection takes the request.                                          *)
LEMMA RequestedPaired ==
  ASSUME IInv, IInv', Paired, NEW s \in Live, ReceiveRequest(s), peer[s] # None
  PROVE  Paired'
<1>1. PICK r, p, f, y : r = ws[s] /\ p = peer[s] /\ f = Head(wire[s]) /\ y = Tail(wire[s])
  OBVIOUS
<1>2. /\ wire[s] \in Seq(Frame) /\ wire[s] # <<>> /\ r \in Session /\ s \in Conns
      /\ r.state = "connecting" /\ r.phase = "receiving"
  BY <1>1, SoundHere DEF ReceiveRequest, Receiving
<1>3. f \in Frame /\ y \in Seq(Frame) /\ wire[s] = <<f>> \o y
  BY <1>1, <1>2, HeadTail
<1>4. Duo(s, p)
  BY <1>1, Coupled
<1>5. PICK t, v, w : t = ws[p] /\ w = wire[p] /\ v = wire[s]
  OBVIOUS
<1>6. /\ t \in Session /\ w \in Seq(Frame) /\ v \in Seq(Frame) /\ Own(r)
      /\ Way(s, p, r, t, w) /\ Way(p, s, t, r, v)
  BY <1>1, <1>4, <1>5 DEF Duo
<1>7. ~r.garbled /\ r.carry = <<>> /\ \A i \in 1..Len(v) : v[i].op = "request"
  BY <1>2, <1>6 DEF Way, Asked
<1>8. Stream(r, v) = <<f>> \o y
  BY <1>2, <1>3, <1>5, <1>6, <1>7, ConcatEmptySeq DEF Stream
<1>9. PICK q : q = <<f>> \o y
  OBVIOUS
<1>10. Len(q) = Len(y) + 1 /\ Len(y) \in Nat /\ q[1] = f /\ q = v
  <2>1. <<f>> \in Seq(Frame) /\ Len(<<f>>) = 1 /\ <<f>>[1] = f
    BY <1>3
  <2> QED BY <1>3, <1>5, <1>9, <2>1, ConcatProperties
<1>11. y = <<>>
  <2>1. SUFFICES ASSUME Len(y) # 0 PROVE FALSE
    BY <1>3, EmptySeq
  <2>2. 2 \in 1..Len(q) /\ 2 # 1
    BY <1>10, <2>1
  <2>3. q[2].op \in Heads
    BY <1>7, <1>10, <2>2 DEF Heads
  <2>4. Formed(s, r, q)
    BY <1>6, <1>8, <1>9 DEF Way
  <2> QED BY <2>2, <2>3, <2>4 DEF Formed
<1>12. f.op = "request"
  <2>1. 1 \in 1..Len(q)
    BY <1>10
  <2> QED BY <1>7, <1>10, <2>1
<1>13. IsRequest(r, f)
  BY <1>7, <1>12 DEF IsRequest
<1>14. PICK n \in 0..Len(y) :
         YieldFrom(s, Out([[r EXCEPT !.phase = "sending"] EXCEPT !.carry = SubSeq(y, 1, n)], <<>>),
                   SubSeq(y, n + 1, Len(y)))
  BY <1>1, <1>13 DEF ReceiveRequest, WithCarry
<1>15. PICK c, x : c = SubSeq(y, 1, n) /\ x = SubSeq(y, n + 1, Len(y))
  OBVIOUS
<1>16. c = <<>> /\ x = <<>> /\ x \in Seq(Frame) /\ c \in Seq(Frame)
  <2>1. Len(y) = 0 /\ n = 0
    BY <1>11
  <2>2. c \in Seq(Frame) /\ x \in Seq(Frame) /\ Len(c) = n /\ Len(x) = Len(y) - n
    BY <1>3, <1>15, CutQueue
  <2> QED BY <2>1, <2>2, EmptySeq
<1>17. PICK u : u = [r EXCEPT !.phase = "sending", !.carry = c]
  OBVIOUS
<1>18. PICK o : o = Out(u, <<>>)
  OBVIOUS
<1>19. o.r = u /\ o.out = <<>> /\ YieldFrom(s, o, x)
  <2>1. [[r EXCEPT !.phase = "sending"] EXCEPT !.carry = c] = u
    BY <1>2, <1>17 DEF Session
  <2> QED BY <1>14, <1>15, <1>18, <2>1 DEF Out
<1>20. /\ u \in Session
       /\ u.tx = r.tx /\ u.part = r.part /\ u.sends = r.sends /\ u.msg = r.msg /\ u.code = r.code
       /\ u.link = r.link /\ u.got = r.got /\ u.garbled = r.garbled /\ u.state = "connecting"
       /\ u.pc = r.pc /\ u.back = r.back /\ u.carry = r.carry /\ u.carry = <<>>
  BY ZenonT(60), <1>2, <1>7, <1>16, <1>17 DEF Session
<1>21. Own(u) /\ Pending(u) = Pending(r)
  BY <1>2, <1>6, <1>20, ShakingKeeps
<1>22. Way(s, p, u, t, w)
  <2>1. Early(s, u) => Early(s, r)
    BY <1>2, <1>20 DEF Early
  <2>2. Whole(u, t) => Whole(r, t) /\ Pending(u) = Pending(r)
    BY <1>20, <1>21 DEF Whole
  <2> QED BY <1>6, <1>20, <2>1, <2>2, SameWay
<1>23. Way(p, s, t, u, x)
  <2>1. Stream(u, x) = y
    BY <1>11, <1>16, <1>20 DEF Stream
  <2>2. u.got = (IF f.op = "data" /\ ~r.garbled THEN Append(r.got, f.n) ELSE r.got)
    BY <1>12, <1>20
  <2>3. Asked(s, u, x)
    BY <1>7, <1>16, <1>20 DEF Asked
  <2> QED BY ZenonT(60), <1>2, <1>3, <1>6, <1>8, <1>16, <1>20, <2>1, <2>2, <2>3, TakeWay
<1>24. w \o <<>> = w
  BY <1>6, ConcatEmptySeq
<1>25. p # None => /\ o.r \in Session /\ o.out \in Seq(Frame) /\ Own(o.r)
                   /\ (o.r.state = "closed" => o.r.link # "up")
                   /\ Way(s, p, o.r, ws[p],
                          IF Whole(ws[s], ws[p]) THEN wire[p] \o o.out ELSE wire[p])
                   /\ Way(p, s, ws[p], o.r, x)
  BY <1>5, <1>19, <1>20, <1>21, <1>22, <1>23, <1>24
<1> QED BY <1>1, <1>16, <1>19, <1>25, PairStep

LEMMA ReceiveRequestPaired ==
  ASSUME IInv, IInv', Paired, NEW s \in Live, ReceiveRequest(s)
  PROVE  Paired'
<1>1. CASE peer[s] # None
  BY <1>1, RequestedPaired
<1>2. CASE peer[s] = None
  <2>1. PICK o, rest : YieldFrom(s, o, rest)
    BY DEF ReceiveRequest, WithCarry
  <2> QED BY <1>2, <2>1, AloneFair
<1> QED BY <1>1, <1>2

(* Before a session has sent its head the way from it is empty, whatever    *)
(* becomes of the transports.                                               *)
LEMMA EarlyWay ==
  ASSUME NEW s, NEW p, NEW r \in Session, NEW t \in Session, NEW w, Way(s, p, r, t, w),
         Early(s, r), NEW x \in Session, NEW y \in Session,
         r.sends = 0, x.sends = 0, Pending(x) = <<>>,
         y.got = t.got, y.carry = t.carry, y.garbled = t.garbled,
         y.state \notin {"open", "closing"}, ~Granting(p, y),
         p \in Conns /\ y.state = "connecting" => t.state = "connecting"
  PROVE  Way(s, p, x, y, w)
<1>1. w = <<>> /\ y.carry = <<>>
  BY DEF Way, Unheard
<1>2. Stream(y, w) = <<>>
  BY <1>1 DEF Stream
<1>3. Formed(p, y, Stream(y, w))
  BY <1>2 DEF Formed
<1>4. Unheard(s, p, x, y, w) /\ Asked(p, y, w)
  BY <1>1 DEF Way, Unheard, Asked
<1>5. Numbered(x, y, <<>>)
  <2>1. t.got = Numbers(Len(t.got)) /\ Len(t.got) <= r.sends
    BY DEF Way, Numbered
  <2>2. Len(t.got) \in Nat
    BY DEF Session
  <2>3. Len(y.got) = 0 /\ 0 \in Len(y.got)..x.sends
    BY <2>1, <2>2
  <2>4. Consecutive(<<>>, 0, 0)
    BY ConsecutiveNone
  <2> QED BY <2>1, <2>3, <2>4 DEF Numbered
<1> QED BY <1>2, <1>3, <1>4, <1>5 DEF Way

-----------------------------------------------------------------------------
(* Steps of more than one session.                                          *)

(* The two sessions of a pair, x and y, with v and w on their way to them.  *)
Both(s, p, x, y, v, w) ==
  Own(x) /\ Own(y) /\ Way(s, p, x, y, w) /\ Way(p, s, y, x, v)

LEMMA PairsBoth ==
  ASSUME IInv, UNCHANGED peer,
         \A s \in Clients \cap Live : peer[s] # None =>
           Both(s, peer[s], ws'[s], ws'[peer[s]], wire'[s], wire'[peer[s]])
  PROVE  Paired'
<1>1. ASSUME NEW t \in Live, peer[t] # None
      PROVE  Own(ws'[t]) /\ Way(t, peer[t], ws'[t], ws'[peer[t]], wire'[peer[t]])
  <2>1. PICK q : q = peer[t]
    OBVIOUS
  <2>2. /\ q \in Live /\ t \in Sessions /\ peer[q] = t /\ (t \in Clients <=> q \in Conns)
        /\ q \in Sessions /\ t # None
    BY <1>1, <2>1, Pairs, SessionAssumption DEF IInv
  <2>3. CASE t \in Clients
    BY <1>1, <2>3 DEF Both
  <2>4. CASE t \notin Clients
    <3>1. q \in Clients \cap Live
      BY <2>2, <2>4 DEF Sessions
    <3>2. Both(q, t, ws'[q], ws'[t], wire'[q], wire'[t])
      BY <2>2, <3>1
    <3> QED BY <2>1, <3>2 DEF Both
  <2> QED BY <2>3, <2>4
<1>2. \A t \in Live : (peer[t])' = peer[t]
  OBVIOUS
<1>3. Live' = Live
  BY DEF Live
<1> QED BY <1>1, <1>2, <1>3 DEF Paired

(* The two sessions of a pair before a step.                                *)
LEMMA BothHere ==
  ASSUME IInv, Paired, NEW s \in Clients \cap Live, NEW k, k = peer[s], k # None
  PROVE  Duo(s, k) /\ k \in Conns \cap Live /\ s \notin Conns /\ k \notin Clients
         /\ Both(s, k, ws[s], ws[k], wire[s], wire[k])
<1>1. Duo(s, k)
  BY Coupled
<1>2. k \in Conns /\ k \in Live /\ s \notin Conns /\ k \notin Clients
  BY <1>1, SessionAssumption DEF Duo
<1> QED BY <1>1, <1>2 DEF Duo, Both

LEMMA KeptPairs ==
  ASSUME IInv, Paired, UNCHANGED peer,
         \A t \in Live : peer[t] # None => ws'[t] = ws[t] /\ wire'[t] = wire[t]
  PROVE  Paired'
<1>1. ASSUME NEW s \in Clients \cap Live, peer[s] # None
      PROVE  Both(s, peer[s], ws'[s], ws'[peer[s]], wire'[s], wire'[peer[s]])
  <2>1. PICK k : k = peer[s]
    OBVIOUS
  <2>2. Both(s, k, ws[s], ws[k], wire[s], wire[k])
    BY <1>1, <2>1, BothHere
  <2>3. k \in Live /\ peer[k] # None
    BY <1>1, <2>1, Pairs, SessionAssumption DEF IInv
  <2> QED BY <1>1, <2>1, <2>2, <2>3
<1> QED BY <1>1, PairsBoth

LEMMA BindPaired ==
  ASSUME IInv, Paired, Bind
  PROVE  Paired'
BY KeptPairs DEF Bind

LEMMA ForeignDialsPaired ==
  ASSUME IInv, Paired, NEW k \in Live, ForeignDials(k)
  PROVE  Paired'
<1>1. \A t \in Live : t # k => ws'[t] = ws[t]
  BY DEF ForeignDials, IInv, WellFormed
<1> QED BY <1>1, KeptPairs DEF ForeignDials

LEMMA ForeignSendsPaired ==
  ASSUME IInv, Paired, NEW s \in Live, ForeignSends(s)
  PROVE  Paired'
<1>1. \A t \in Live : t # s => wire'[t] = wire[t]
  BY DEF ForeignSends, IInv, WellFormed
<1> QED BY <1>1, KeptPairs DEF ForeignSends

(* connect(): a client that has not begun, or was closed before it began.   *)
LEMMA ConnectPaired ==
  ASSUME IInv, IInv', Paired, NEW s \in Live, Connect(s)
  PROVE  Paired'
<1>1. PICK r, p, a : r = ws[s] /\ p = peer[s] /\ a = ws[s].armed \cup {"handshake"}
  OBVIOUS
<1>2. PICK u : u = [r EXCEPT !.called = TRUE, !.state = "connecting",
                             !.phase = "awaiting", !.armed = a, !.told = FALSE]
  OBVIOUS
<1>3. Yield(s, Out(u, <<>>)) /\ s \in Clients /\ ~r.called
  <2>1. u = [ws[s] EXCEPT !.called = TRUE, !.state = "connecting",
                          !.phase = "awaiting", !.armed = @ \cup {"handshake"},
                          !.told = FALSE]
    BY <1>1, <1>2
  <2> QED BY <1>1, <2>1 DEF Connect, Yields, Only
<1>4. /\ r \in Session /\ r.state \in {"connecting", "closed"} /\ r.link = "none"
      /\ r.pc = "idle" /\ wire[s] \in Seq(Frame)
  BY <1>1, <1>3, SoundHere DEF Sound, Fresh
<1>5. a \in SUBSET {"handshake", "close", "pong", "auto"}
  BY <1>1, <1>4 DEF Session
<1>6. /\ u \in Session
      /\ u.tx = r.tx /\ u.part = r.part /\ u.sends = r.sends /\ u.msg = r.msg /\ u.code = r.code
      /\ u.link = r.link /\ u.got = r.got /\ u.garbled = r.garbled /\ u.carry = r.carry
      /\ u.pc = r.pc /\ u.back = r.back /\ u.state = "connecting"
  BY <1>2, <1>4, <1>5 DEF Session
<1>7. PICK o : o = Out(u, <<>>)
  OBVIOUS
<1>8. o.r = u /\ o.out = <<>> /\ YieldFrom(s, o, wire[s])
  BY <1>3, <1>7 DEF Out, Yield
<1>9. ASSUME p # None
      PROVE  /\ Own(u)
             /\ Way(s, p, u, ws[p], IF Whole(ws[s], ws[p]) THEN wire[p] \o <<>> ELSE wire[p])
             /\ Way(p, s, ws[p], u, wire[s])
  <2>1. Duo(s, p)
    BY <1>1, <1>9, Coupled
  <2>2. PICK t, w, v : t = ws[p] /\ w = wire[p] /\ v = wire[s]
    OBVIOUS
  <2>3. /\ t \in Session /\ w \in Seq(Frame) /\ Own(r) /\ Own(t) /\ Way(s, p, r, t, w)
        /\ Way(p, s, t, r, v) /\ s \notin Conns /\ p \in Conns /\ p \in Live
    BY <1>1, <1>3, <2>1, <2>2, SessionAssumption DEF Duo
  <2>4. t.link = "none"
    BY <1>1, <1>3, <1>4, <1>9, <2>2 DEF IInv, Dialled
  <2>5. t.state = "connecting"
    BY <2>2, <2>3, <2>4, SoundHere DEF Sound, Linked
  <2>6. Pending(u) = Pending(r)
    BY <1>6 DEF Pending
  <2>7. Pending(r) = <<>> /\ r.sends = 0 /\ r.carry = <<>>
    BY <1>4, <2>3 DEF Own, Carrying
  <2>8. Own(u)
    BY <1>4, <1>6, <2>3, <2>6, <2>7 DEF Own
  <2>9. Way(s, p, u, t, w)
    <3>1. (Early(s, u) => Early(s, r)) /\ (Whole(u, t) => Whole(r, t) /\ Pending(u) = Pending(r))
      BY <1>4, <1>6, <2>3, <2>6 DEF Early, Whole
    <3> QED BY <1>6, <2>3, <3>1, SameWay
  <2>10. Way(p, s, t, u, v)
    <3>1. Early(p, t)
      BY <2>3, <2>5 DEF Early
    <3>2. t.sends = 0 /\ Pending(t) = <<>>
      BY <2>3, <2>5 DEF Own
    <3>3. ~Granting(s, u)
      BY <2>3 DEF Granting
    <3> QED BY <1>4, <1>6, <2>3, <3>1, <3>2, <3>3, EarlyWay
  <2>11. w \o <<>> = w
    BY <2>3, ConcatEmptySeq
  <2> QED BY <2>2, <2>8, <2>9, <2>10, <2>11
<1>10. p # None => /\ o.r \in Session /\ o.out \in Seq(Frame) /\ Own(o.r)
                   /\ (o.r.state = "closed" => o.r.link # "up")
                   /\ Way(s, p, o.r, ws[p],
                          IF Whole(ws[s], ws[p]) THEN wire[p] \o o.out ELSE wire[p])
                   /\ Way(p, s, ws[p], o.r, wire[s])
  BY <1>6, <1>8, <1>9
<1> QED BY <1>1, <1>4, <1>8, <1>10, PairStep

(* The transport of a client is there: neither has said anything yet.       *)
LEMMA TransportReadyPaired ==
  ASSUME IInv, IInv', Paired, NEW s \in Live, TransportReady(s)
  PROVE  Paired'
<1>1. PICK r, p : r = ws[s] /\ p = peer[s]
  OBVIOUS
<1>2. PICK u : u = [r EXCEPT !.link = "up", !.phase = "sending"]
  OBVIOUS
<1>3. PICK z : z = [ws[p] EXCEPT !.link = "up"]
  OBVIOUS
<1>4. /\ ws' = [t \in Live |-> IF t = s THEN u ELSE IF t = p THEN z ELSE ws[t]]
      /\ wire' = wire /\ peer' = peer /\ s \in Clients
      /\ r.state = "connecting" /\ r.phase = "awaiting"
  BY <1>1, <1>2, <1>3 DEF TransportReady
<1>5. ASSUME NEW c \in Clients \cap Live, peer[c] # None
      PROVE  Both(c, peer[c], ws'[c], ws'[peer[c]], wire'[c], wire'[peer[c]])
  <2>1. PICK k : k = peer[c]
    OBVIOUS
  <2>2. Both(c, k, ws[c], ws[k], wire[c], wire[k]) /\ Duo(c, k) /\ k \in Conns \cap Live
        /\ c \notin Conns /\ k \notin Clients
    BY <1>5, <2>1, BothHere
  <2>3. CASE c # s
    <3>1. k # p /\ k # s /\ c # p
      <4>1. peer[k] = c
        BY <1>5, <2>1, Pairs DEF IInv
      <4>2. p # None => peer[p] = s /\ p \in Conns
        BY <1>1, <1>4, Pairs DEF IInv
      <4>3. None \notin Live
        BY Pairs, SessionAssumption DEF IInv
      <4>4. k # p
        BY <2>2, <2>3, <4>1, <4>2, <4>3
      <4>5. k # s /\ c # p
        BY <1>4, <2>2, <4>2, <4>3
      <4> QED BY <4>4, <4>5
    <3>2. ws'[c] = ws[c] /\ ws'[k] = ws[k]
      BY <1>4, <2>2, <2>3, <3>1
    <3> QED BY <1>4, <2>1, <2>2, <3>2
  <2>4. CASE c = s
    <3>1. PICK t, v, w : t = ws[k] /\ v = wire[s] /\ w = wire[k]
      OBVIOUS
    <3>2. /\ r \in Session /\ t \in Session /\ Own(r) /\ Own(t) /\ Way(s, k, r, t, w)
          /\ Way(k, s, t, r, v) /\ k = p /\ k # s /\ k \in Live
      BY <1>1, <2>1, <2>2, <2>4, <3>1 DEF Duo, Both
    <3>3. ws'[s] = u /\ ws'[k] = z /\ z = [t EXCEPT !.link = "up"]
      BY <1>3, <1>4, <3>1, <3>2
    <3>4. r.link = "none"
      BY <1>1, <1>4, SoundHere DEF Sound, Linked
    <3>5. t.link = "none"
      BY <1>1, <1>4, <1>5, <2>1, <2>4, <3>1, <3>4 DEF IInv, Dialled
    <3>6. t.state = "connecting" /\ t.phase = None
      BY <2>2, <3>1, <3>5, SoundHere DEF Sound, Linked
    <3>7. /\ u \in Session /\ u.link = "up" /\ u.phase = "sending"
          /\ u.tx = r.tx /\ u.part = r.part /\ u.sends = r.sends /\ u.msg = r.msg
          /\ u.code = r.code /\ u.got = r.got /\ u.garbled = r.garbled /\ u.carry = r.carry
          /\ u.pc = r.pc /\ u.back = r.back /\ u.state = r.state
      BY ZenonT(60), <1>2, <3>2 DEF Session
    <3>8. /\ z \in Session /\ z.link = "up" /\ z.phase = t.phase
          /\ z.tx = t.tx /\ z.part = t.part /\ z.sends = t.sends /\ z.msg = t.msg
          /\ z.code = t.code /\ z.got = t.got /\ z.garbled = t.garbled /\ z.carry = t.carry
          /\ z.pc = t.pc /\ z.back = t.back /\ z.state = t.state
      <4>1. z = [t EXCEPT !.link = "up"] /\ t \in Session
        BY <3>2, <3>3
      <4> QED BY <4>1 DEF Session
    <3>9. Pending(u) = <<>> /\ Pending(z) = <<>> /\ u.sends = 0 /\ z.sends = 0
          /\ r.sends = 0 /\ t.sends = 0
      BY <1>4, <3>2, <3>6, <3>7, <3>8 DEF Own, Pending
    <3>10. Own(u)
      BY <1>4, <3>2, <3>7, <3>9, BodiesFew DEF Own, Carrying
    <3>11. Own(z)
      BY <3>2, <3>6, <3>8, <3>9, BodiesFew DEF Own, Carrying
    <3>12. Early(s, r) /\ Early(k, t)
      BY <2>2, <2>4, <3>4, <3>6 DEF Early
    <3>13. ~Granting(k, z) /\ ~Granting(s, u)
      BY <2>2, <2>4, <3>6, <3>8, SessionAssumption DEF Granting
    <3>14. Way(s, k, u, z, w)
      BY <3>2, <3>6, <3>7, <3>8, <3>9, <3>12, <3>13, EarlyWay
    <3>15. Way(k, s, z, u, v)
      BY <1>4, <3>2, <3>7, <3>8, <3>9, <3>12, <3>13, EarlyWay
    <3> QED BY <1>4, <2>1, <2>4, <3>1, <3>3, <3>10, <3>11, <3>14, <3>15 DEF Both
  <2> QED BY <2>3, <2>4
<1> QED BY <1>4, <1>5, PairsBoth

(* The server accepts: a connection waits for its request.                  *)
LEMMA AcceptPaired ==
  ASSUME IInv, IInv', Paired, NEW k \in Conns \cap Live, Accept(k)
  PROVE  Paired'
<1>1. PICK r, y : r = ws[k] /\ y = Accepted(ws[k])
  OBVIOUS
<1>2. /\ wire' = wire /\ peer' = peer /\ ws'[k] = y
      /\ \A t \in Live : t # k => ws'[t] = ws[t]
  BY <1>1 DEF Accept, IInv, WellFormed
<1>3. r \in Session /\ r.state = "connecting"
  BY <1>1, SoundHere DEF Accept, IInv, Table
<1>4. /\ y \in Session /\ y.link = r.link /\ y.phase = "receiving"
      /\ y.tx = r.tx /\ y.part = r.part /\ y.sends = r.sends /\ y.msg = r.msg
      /\ y.code = r.code /\ y.got = r.got /\ y.garbled = r.garbled /\ y.carry = r.carry
      /\ y.pc = r.pc /\ y.back = r.back /\ y.state = r.state
  BY ZenonT(60), <1>1, <1>3 DEF Accepted, Session
<1>5. ASSUME NEW s \in Clients \cap Live, peer[s] # None
      PROVE  Both(s, peer[s], ws'[s], ws'[peer[s]], wire'[s], wire'[peer[s]])
  <2>1. PICK q : q = peer[s]
    OBVIOUS
  <2>2. Both(s, q, ws[s], ws[q], wire[s], wire[q]) /\ Duo(s, q) /\ q \in Conns \cap Live
        /\ s \notin Conns
    BY <1>5, <2>1, BothHere
  <2>3. ws'[s] = ws[s]
    BY <1>2, <2>2
  <2>4. CASE q # k
    BY <1>2, <2>1, <2>2, <2>3, <2>4
  <2>5. CASE q = k
    <3>1. PICK t, v, w : t = ws[s] /\ v = wire[s] /\ w = wire[k]
      OBVIOUS
    <3>2. /\ Own(t) /\ Own(r) /\ Way(s, k, t, r, w) /\ Way(k, s, r, t, v)
      BY <1>1, <2>2, <2>5, <3>1 DEF Both
    <3>3. Pending(y) = Pending(r)
      BY <1>4 DEF Pending
    <3>4. Own(y)
      BY <1>4, <3>2, <3>3 DEF Own, Carrying
    <3>5. Way(k, s, y, t, v)
      <4>1. (Early(k, y) => Early(k, r)) /\ (Whole(y, t) => Whole(r, t) /\ Pending(y) = Pending(r))
        BY <1>3, <1>4, <3>3 DEF Early, Whole
      <4> QED BY <1>4, <3>2, <4>1, SameWay
    <3>6. Way(s, k, t, y, w)
      <4>1. ~Granting(k, y) /\ Stream(y, w) = Stream(r, w)
        BY <1>4 DEF Granting, Stream
      <4>2. Formed(k, y, Stream(y, w))
        BY <1>3, <1>4, <3>2, <4>1 DEF Way, Formed
      <4>3. Unheard(s, k, t, y, w) /\ Asked(k, y, w)
        BY <1>4, <3>2, <4>1 DEF Way, Unheard, Asked
      <4>4. Numbered(t, y, Stream(y, w))
        BY <1>4, <3>2, <4>1 DEF Way, Numbered, Whole
      <4> QED BY <4>2, <4>3, <4>4 DEF Way
    <3> QED BY <1>2, <2>1, <2>3, <2>5, <3>1, <3>2, <3>4, <3>5, <3>6 DEF Both
  <2> QED BY <2>4, <2>5
<1> QED BY <1>2, <1>5, PairsBoth

(* A pair of which both transports may have become worse; what was on its   *)
(* way to a session that lost it may be lost.                               *)
LEMMA WorseBoth ==
  ASSUME NEW s, NEW p, s \in Conns <=> p \notin Conns,
         NEW x, NEW y, NEW v \in Seq(Frame), NEW w \in Seq(Frame), Both(s, p, x, y, v, w),
         NEW x1, NEW y1, Worse(x, x1), Worse(y, y1),
         x.state = "closed" => x.link # "up", y.state = "closed" => y.link # "up",
         NEW v1, v1 = v \/ (v1 = <<>> /\ x1.link # "up"),
         NEW w1, w1 = w \/ (w1 = <<>> /\ y1.link # "up")
  PROVE  Both(s, p, x1, y1, v1, w1)
<1>1. x \in Session /\ y \in Session /\ x1 \in Session /\ y1 \in Session
  BY DEF Worse
<1>2. Own(x1) /\ Own(y1)
  BY WorseOwn DEF Both
<1>3. Way(s, p, x, y1, w1)
  <2>1. Way(s, p, x, y, w)
    BY DEF Both
  <2> QED BY <1>1, <2>1, WorseWays
<1>4. Way(s, p, x1, y1, w1)
  BY <1>1, <1>3, WorseWays
<1>5. Way(p, s, y, x1, v1)
  <2>1. Way(p, s, y, x, v)
    BY DEF Both
  <2> QED BY <1>1, <2>1, WorseWays
<1>6. Way(p, s, y1, x1, v1)
  BY <1>1, <1>5, WorseWays
<1> QED BY <1>2, <1>4, <1>6 DEF Both

(* A transport breaks.                                                      *)
LEMMA LinkBreaksPaired ==
  ASSUME IInv, IInv', Paired, NEW s \in Live, LinkBreaks(s)
  PROVE  Paired'
<1>1. PICK p : p = peer[s]
  OBVIOUS
<1>2. PICK l : /\ l \in {"eof", "reset", "dead"} /\ (p # None => l = "reset")
               /\ ws' = [t \in Live |-> IF t = s THEN [ws[s] EXCEPT !.link = l]
                                       ELSE IF t = p /\ ws[t].link = "up"
                                       THEN [ws[t] EXCEPT !.link = l] ELSE ws[t]]
               /\ wire' = IF l = "eof" THEN wire ELSE [wire EXCEPT ![s] = <<>>]
  BY <1>1 DEF LinkBreaks
<1>3. ws[s].link = "up" /\ peer' = peer /\ DOMAIN wire = Live /\ wire[s] \in Seq(Frame)
  BY DEF LinkBreaks, IInv, WellFormed
<1>4. None \notin Live
  BY Pairs, SessionAssumption DEF IInv
<1>5. CASE p = None
  <2>1. \A t \in Live : t # s => ws'[t] = ws[t] /\ wire'[t] = wire[t]
    BY <1>2, <1>3, <1>4, <1>5
  <2> QED BY <1>1, <1>3, <1>5, <2>1, KeptPairs
<1>6. CASE p # None
  <2>1. /\ l = "reset" /\ wire'[s] = <<>>
        /\ \A t \in Live : t # s => wire'[t] = wire[t]
    BY <1>2, <1>3, <1>6
  <2>2. ASSUME NEW t \in Live
        PROVE  /\ Worse(ws[t], ws'[t]) /\ (t \notin {s, p} => ws'[t] = ws[t])
               /\ t = s => (ws'[t]).link # "up"
    <3>1. PICK x, y : x = ws[t] /\ y = ws'[t]
      OBVIOUS
    <3>2. x \in Session
      BY <3>1, SoundHere
    <3>3. y = x \/ (y = [x EXCEPT !.link = l] /\ x.link = "up")
      BY <1>2, <1>3, <3>1
    <3>4. Worse(x, y)
      <4>1. CASE y = x
        BY <3>2, <4>1 DEF Worse
      <4>2. CASE y = [x EXCEPT !.link = l] /\ x.link = "up"
        BY <1>2, <3>2, <4>2 DEF Worse, Session
      <4> QED BY <3>3, <4>1, <4>2
    <3>5. t = s => y.link = l
      <4>1. t = s => y = [x EXCEPT !.link = l]
        BY <1>2, <3>1
      <4> QED BY <3>2, <4>1 DEF Session
    <3> QED BY <1>2, <3>1, <3>4, <3>5
  <2>3. ASSUME NEW c \in Clients \cap Live, peer[c] # None
        PROVE  Both(c, peer[c], ws'[c], ws'[peer[c]], wire'[c], wire'[peer[c]])
    <3>1. PICK q : q = peer[c]
      OBVIOUS
    <3>2. /\ Both(c, q, ws[c], ws[q], wire[c], wire[q]) /\ Duo(c, q) /\ q \in Live
          /\ wire[c] \in Seq(Frame) /\ wire[q] \in Seq(Frame) /\ (c \in Conns <=> q \notin Conns)
          /\ (ws[c].state = "closed" => ws[c].link # "up")
          /\ (ws[q].state = "closed" => ws[q].link # "up")
      BY <2>3, <3>1, BothHere DEF Duo
    <3>3. Worse(ws[c], ws'[c]) /\ Worse(ws[q], ws'[q])
      BY <2>2, <3>2
    <3>4. wire'[c] = wire[c] \/ (wire'[c] = <<>> /\ (ws'[c]).link # "up")
      BY <2>1, <2>2
    <3>5. wire'[q] = wire[q] \/ (wire'[q] = <<>> /\ (ws'[q]).link # "up")
      BY <2>1, <2>2, <3>2
    <3>6. Both(c, q, ws'[c], ws'[q], wire'[c], wire'[q])
      BY <3>2, <3>3, <3>4, <3>5, WorseBoth
    <3> QED BY <3>1, <3>6
  <2> QED BY <1>3, <2>3, PairsBoth
<1> QED BY <1>5, <1>6

(* A connection that the server finalizes when it closes.                   *)
LEMMA ShutdownTurns ==
  ASSUME NEW k, NEW s, Duo(k, s), k \notin Clients, ws[k].link # "none", NEW o \in Shutdown(k)
  PROVE  /\ Turns(k, ws[k], o.r, o.out) /\ Still(ws[k], o.r) /\ o.r.state = "closed"
         /\ ws[k].state = "connecting" => o.out = <<>>
<1>1. PICK r, q : r = ws[k] /\ q = IF r.state = "open" THEN SendClose(r, "normal") ELSE r
  OBVIOUS
<1>2. o \in FinalizeClosed(k, q)
  BY <1>1 DEF Shutdown
<1>3. r \in Session /\ k \in Sessions /\ Own(r) /\ Room(k) \in Int /\ r.link # "none"
  BY <1>1 DEF Duo
<1>4. Turns(k, r, q, <<>>) /\ Still(r, q)
  <2>1. CASE r.state = "open"
    <3>1. "normal" \in CloseCodes /\ "normal" \notin Accusing \cup {"malformed"}
      BY DEF CloseCodes, Accusing
    <3> QED BY <1>1, <1>3, <2>1, <3>1, TurnsSendClose
  <2>2. CASE r.state # "open"
    <3>1. q = r
      BY <1>1, <2>2
    <3> QED BY <1>3, <3>1, TurnsPlain DEF Still
  <2> QED BY <2>1, <2>2
<1>5. /\ q \in Session /\ q.link # "none"
      /\ q.state = "connecting" => r.state = "connecting" /\ Pending(q) = <<>>
  BY <1>3, <1>4 DEF Turns, Own, Pending
<1>6. Turns(k, q, o.r, o.out) /\ Still(q, o.r) /\ o.r.state = "closed"
  BY <1>2, <1>3, <1>5, TurnsFinalizeClosed
<1>7. Turns(k, r, o.r, o.out) /\ Still(r, o.r)
  BY <1>3, <1>4, <1>6, TurnsThen, StillComposes
<1>8. r.state = "connecting" => o.out = <<>>
  <2>1. r.state = "connecting" => q = r /\ Pending(r) = <<>>
    BY <1>1, <1>3 DEF Own
  <2> QED BY <1>2, <2>1, FinalizeSilent
<1> QED BY <1>1, <1>6, <1>7, <1>8

(* A session of which only the CLOSE frames are counted.                    *)
LEMMA CountedWorse ==
  ASSUME NEW x \in Session, NEW n \in Nat, NEW y, y = [x EXCEPT !.shut = n]
  PROVE  Worse(x, y)
<1>1. y \in Session
  BY DEF Session
<1>2. /\ y.state = x.state /\ y.phase = x.phase /\ y.pc = x.pc /\ y.back = x.back
      /\ y.carry = x.carry /\ y.tx = x.tx /\ y.part = x.part /\ y.msg = x.msg
      /\ y.garbled = x.garbled /\ y.code = x.code /\ y.sends = x.sends /\ y.got = x.got
      /\ y.link = x.link
  BY DEF Session
<1> QED BY <1>1, <1>2 DEF Worse

LEMMA LinkWorse ==
  ASSUME NEW x \in Session, NEW y,
         y = x \/ (/\ x.link # "none"
                  /\ \/ y = [x EXCEPT !.link = "closed"]
                     \/ y = [x EXCEPT !.link = "eof"]
                     \/ y = [x EXCEPT !.link = "reset"])
  PROVE  Worse(x, y)
<1>1. CASE y = x
  BY <1>1 DEF Worse
<1>2. CASE x.link # "none" /\ y = [x EXCEPT !.link = "closed"]
  BY <1>2 DEF Worse, Session
<1>3. CASE x.link # "none" /\ y = [x EXCEPT !.link = "eof"]
  BY <1>3 DEF Worse, Session
<1>4. CASE x.link # "none" /\ y = [x EXCEPT !.link = "reset"]
  BY <1>4 DEF Worse, Session
<1> QED BY <1>1, <1>2, <1>3, <1>4

(* The server closes: its connections are over, and their clients see it.   *)
LEMMA CloseServerPaired ==
  ASSUME IInv, IInv', Paired, CloseServer
  PROVE  Paired'
<1> DEFINE open == {k \in server.conns : ws[k].state # "closed"}
<1>1. PICK o :
        /\ \A k \in open : o[k] \in Shutdown(k)
        /\ ws' = [s \in Live |->
             IF s \in open THEN [o[s].r EXCEPT !.shut = @ + Closes(o[s].out)]
             ELSE IF s \in server.backlog THEN [ws[s] EXCEPT !.link = "closed"]
             ELSE IF peer[s] \in open /\ ws[s].link = "up"
             THEN [ws[s] EXCEPT !.link = "eof"]
             ELSE IF peer[s] \in server.backlog /\ ws[s].link = "up"
             THEN [ws[s] EXCEPT !.link = "reset"] ELSE ws[s]]
        /\ wire' = [s \in Live |->
             IF peer[s] \in open /\ ws[s].link = "up" /\ ws[peer[s]].link = "up"
             THEN wire[s] \o o[peer[s]].out ELSE wire[s]]
  BY DEF CloseServer
<1>2. peer' = peer
  BY DEF CloseServer
<1>3. open \subseteq server.conns /\ server.conns \subseteq Conns \cap Live
      /\ server.backlog \subseteq Conns \cap Live /\ open \cap server.backlog = {}
  BY DEF IInv, WellFormed, Table
<1> HIDE DEF open
<1>4. ASSUME NEW s \in Clients \cap Live, peer[s] # None
      PROVE  Both(s, peer[s], ws'[s], ws'[peer[s]], wire'[s], wire'[peer[s]])
  <2>1. PICK k : k = peer[s]
    OBVIOUS
  <2>2. /\ Both(s, k, ws[s], ws[k], wire[s], wire[k]) /\ Duo(s, k) /\ k \in Conns /\ k \in Live
        /\ s \notin Conns /\ k \notin Clients
    BY <1>4, <2>1, BothHere
  <2>3. peer[k] = s /\ s # None
    BY <1>4, <2>1, Pairs, SessionAssumption DEF IInv
  <2>4. Duo(k, s)
    BY <2>2, <2>3, Coupled
  <2>5. s \notin open /\ s \notin server.backlog
    BY <1>3, <2>2
  <2>6. PICK x, y, v, w : x = ws[s] /\ y = ws[k] /\ v = wire[s] /\ w = wire[k]
    OBVIOUS
  <2>7. /\ x \in Session /\ y \in Session /\ v \in Seq(Frame) /\ w \in Seq(Frame)
        /\ (x.state = "closed" => x.link # "up") /\ (y.state = "closed" => y.link # "up")
        /\ (s \in Conns <=> k \notin Conns) /\ Both(s, k, x, y, v, w)
    BY <2>2, <2>6 DEF Duo
  <2>8. wire'[k] = w
    BY <1>1, <2>2, <2>3, <2>5, <2>6
  <2>9. CASE k \in open
    <3>1. PICK z, out, n : z = o[k].r /\ out = o[k].out /\ n = o[k].r.shut + Closes(o[k].out)
      OBVIOUS
    <3>2. ws'[k] = [z EXCEPT !.shut = n]
      BY <1>1, <2>2, <2>9, <3>1
    <3>3. ws'[s] = [x EXCEPT !.link = "eof"] \/ ws'[s] = x
      BY <1>1, <2>5, <2>6, <2>9, <2>1, <1>3
    <3>4. (x.link # "up" => ws'[s] = x)
      BY <1>1, <2>5, <2>6, <2>9, <2>1, <1>3
    <3>5. wire'[s] = IF Whole(y, x) THEN v \o out ELSE v
      BY <1>1, <2>1, <2>6, <2>9, <3>1 DEF Whole
    <3>6. /\ Turns(k, y, z, out) /\ Still(y, z) /\ z.state = "closed"
          /\ y.state = "connecting" => out = <<>>
      <4>1. y.link # "none"
        BY <1>3, <2>2, <2>6, <2>9 DEF IInv, Table
      <4> QED BY <1>1, <2>2, <2>4, <2>6, <2>9, <3>1, <4>1, ShutdownTurns
    <3>7. z \in Session /\ out \in Seq(Frame) /\ (z.state = "closed" => z.link # "up")
      BY <2>7, <3>6 DEF Turns
    <3>8. Own(z)
      <4>1. Own(y)
        BY <2>7 DEF Both
      <4>2. Poised(z)
        BY <3>6, <4>1, StillPoised DEF Still, Turns
      <4> QED BY <2>7, <3>6, <4>1, <4>2, TurnsOwn
    <3>9. Way(k, s, z, x, wire'[s])
      BY <2>4, <2>6, <3>5, <3>6, TurnsSays
    <3>10. Way(s, k, x, z, w)
      BY <2>4, <2>6, <3>6, IdleWay DEF Still
    <3>11. Both(s, k, x, z, wire'[s], w)
      BY <2>7, <3>8, <3>9, <3>10 DEF Both
    <3>12. n \in Nat
      <4>1. (ws'[k]).shut = n
        BY <3>2, <3>7 DEF Session
      <4>2. ws'[k] \in Session
        BY <1>2, <2>2 DEF IInv, WellFormed, Live
      <4> QED BY <4>1, <4>2 DEF Session
    <3>13. Worse(z, ws'[k])
      BY <3>2, <3>7, <3>12, CountedWorse
    <3>14. Worse(x, ws'[s])
      <4>1. PICK u : u = ws'[s]
        OBVIOUS
      <4>2. u = x \/ (x.link # "none" /\ u = [x EXCEPT !.link = "eof"])
        BY <3>3, <3>4, <4>1
      <4> QED BY <2>7, <4>1, <4>2, LinkWorse
    <3>15. wire'[s] \in Seq(Frame)
      BY <2>7, <3>5, <3>7, ConcatProperties
    <3>16. Both(s, k, ws'[s], ws'[k], wire'[s], w)
      BY <2>7, <3>7, <3>11, <3>13, <3>14, <3>15, WorseBoth
    <3> QED BY <2>1, <2>8, <3>16
  <2>10. CASE k \notin open
    <3>1. wire'[s] = v
      BY <1>1, <2>1, <2>6, <2>10
    <3>2. ws'[k] = y \/ (k \in server.backlog /\ ws'[k] = [y EXCEPT !.link = "closed"])
      <4>1. peer[k] \notin open /\ peer[k] \notin server.backlog
        BY <2>3, <2>5
      <4> QED BY <1>1, <2>2, <2>6, <2>10, <4>1
    <3>3. ws'[s] = x \/ (x.link = "up" /\ ws'[s] = [x EXCEPT !.link = "reset"])
      BY <1>1, <2>1, <2>5, <2>6, <2>10
    <3>4. Worse(y, ws'[k])
      <4>1. k \in server.backlog => y.link # "none"
        BY <2>2, <2>6 DEF IInv, Table
      <4>2. PICK u : u = ws'[k]
        OBVIOUS
      <4>3. u = y \/ (y.link # "none" /\ u = [y EXCEPT !.link = "closed"])
        BY <3>2, <4>1, <4>2
      <4> QED BY <2>7, <4>2, <4>3, LinkWorse
    <3>5. Worse(x, ws'[s])
      <4>1. PICK u : u = ws'[s]
        OBVIOUS
      <4>2. u = x \/ (x.link # "none" /\ u = [x EXCEPT !.link = "reset"])
        BY <3>3, <4>1
      <4> QED BY <2>7, <4>1, <4>2, LinkWorse
    <3>6. Both(s, k, ws'[s], ws'[k], v, w)
      BY <2>7, <3>4, <3>5, WorseBoth
    <3> QED BY <2>1, <2>8, <3>1, <3>6
  <2> QED BY <2>9, <2>10
<1> QED BY <1>2, <1>4, PairsBoth

-----------------------------------------------------------------------------
(* Pairs stay paired, when a message of the library fits.                   *)

LEMMA InitPaired ==
  ASSUME WsInit
  PROVE  Paired
<1>1. IInv
  BY InitStep
<1>2. ASSUME NEW s \in Live, peer[s] # None
      PROVE  Own(ws[s]) /\ Way(s, peer[s], ws[s], ws[peer[s]], wire[peer[s]])
  <2>1. PICK p, r, t, w : p = peer[s] /\ r = ws[s] /\ t = ws[p] /\ w = wire[p]
    OBVIOUS
  <2>2. p \in Live /\ s \in Live
    BY <1>1, <1>2, <2>1, Pairs DEF IInv
  <2>3. r = NewSession /\ t = NewSession /\ w = <<>>
    BY <2>1, <2>2 DEF WsInit
  <2>4. /\ r.state = "connecting" /\ r.link = "none" /\ r.pc = "idle" /\ r.carry = <<>>
        /\ r.tx = <<>> /\ r.part = None /\ r.msg = NoMessage /\ r.code = None /\ r.sends = 0
        /\ r.phase = None /\ r.got = <<>> /\ r.garbled = FALSE /\ t = r
    BY <2>3 DEF NewSession
  <2>5. Pending(r) = <<>>
    BY <2>4 DEF Pending
  <2>6. None \notin Accusing /\ None # "sending"
    BY SessionAssumption DEF Accusing
  <2>7. Own(r)
    BY <2>4, <2>5, <2>6, BodiesFew DEF Own, Carrying
  <2>8. Stream(t, w) = <<>>
    BY <2>3, <2>4 DEF Stream
  <2>9. Formed(p, t, <<>>)
    BY DEF Formed
  <2>10. Unheard(s, p, r, t, w) /\ Asked(p, t, w)
    BY <2>3, <2>4, <2>6 DEF Unheard, Granting, Asked
  <2>11. Numbered(r, t, <<>>)
    <3>1. t.got = Numbers(0) /\ Len(t.got) = 0
      BY <2>4 DEF Numbers
    <3>2. 0 \in 0..r.sends /\ Consecutive(<<>>, 0, 0)
      BY <2>4, ConsecutiveNone
    <3>3. Consecutive(Pending(r), 0, r.sends)
      BY <2>4, <2>5, <3>2
    <3> QED BY <2>4, <3>1, <3>2, <3>3 DEF Numbered
  <2> QED BY <2>1, <2>7, <2>8, <2>9, <2>10, <2>11 DEF Way
<1> QED BY <1>2 DEF Paired

LEMMA NextPaired ==
  ASSUME MaxMessage >= 1, IInv, IInv', Paired, WsNext
  PROVE  Paired'
<1>1. ASSUME NEW s \in Live, Pass(s) PROVE Paired'
  <2>1. CASE TransportReady(s)
    BY <2>1, TransportReadyPaired
  <2>2. CASE TransportFails(s) \/ HandshakeLost(s)
    BY <2>2, HandshakeFailsPaired
  <2>3. CASE SendHandshake(s)
    BY <2>3, SendHandshakePaired
  <2>4. CASE ReceiveResponse(s)
    BY <2>4, ReceiveResponsePaired
  <2>5. CASE ReceiveRequest(s)
    BY <2>5, ReceiveRequestPaired
  <2>6. CASE Read(s)
    BY <2>6, ReadPaired
  <2>7. ASSUME NEW pings \in BOOLEAN, FinishPass(s, pings) PROVE Paired'
    BY <2>7, FinishPassPaired
  <2>8. CASE Feed(s)
    BY <2>8, FeedEndsPaired, FeedFramePaired
  <2>9. CASE CallbackReturns(s)
    BY <2>9, CallbackReturnsPaired
  <2> QED BY <1>1, <2>1, <2>2, <2>3, <2>4, <2>5, <2>6, <2>7, <2>8, <2>9 DEF Pass
<1>2. ASSUME NEW s \in Live, Application(s) PROVE Paired'
  <2>1. CASE ConnectRaises(s)
    BY <2>1, ConnectRaisesPaired
  <2>2. CASE Connect(s)
    BY <2>2, ConnectPaired
  <2>3. CASE Send(s)
    BY <2>3, SendPaired
  <2>4. CASE SendPing(s)
    BY <2>4, SendPingPaired
  <2>5. CASE OnConnectionRaises(s)
    BY <2>5, OnConnectionRaisesPaired
  <2>6. ASSUME NEW code \in Codes, Close(s, code) PROVE Paired'
    BY <2>6, ClosePaired
  <2> QED BY <1>2, <2>1, <2>2, <2>3, <2>4, <2>5, <2>6 DEF Application
<1>3. ASSUME NEW s \in Live, World(s) PROVE Paired'
  BY <1>3, ForeignDialsPaired, ForeignSendsPaired, LinkBreaksPaired DEF World
<1>4. ASSUME NEW s \in Live, NEW d \in {"handshake", "close", "pong"}, Timeout(s, d)
      PROVE  Paired'
  BY <1>4, TimeoutPaired
<1>5. CASE Bind
  BY <1>5, BindPaired
<1>6. CASE CloseServer
  BY <1>6, CloseServerPaired
<1>7. ASSUME NEW k \in Conns \cap Live, Accept(k) PROVE Paired'
  BY <1>7, AcceptPaired
<1> QED BY <1>1, <1>2, <1>3, <1>4, <1>5, <1>6, <1>7 DEF WsNext

LEMMA StutterPaired ==
  ASSUME IInv, Paired, UNCHANGED vars
  PROVE  Paired'
BY KeptPairs DEF vars

LEMMA PairsInductive ==
  ASSUME MaxMessage >= 1
  PROVE  Spec => [](IInv /\ Paired)
<1>1. WsInit => IInv /\ Paired
  BY InitStep, InitPaired
<1>2. IInv /\ Paired /\ [WsNext]_vars => (IInv /\ Paired)'
  <2>1. ASSUME IInv, Paired, [WsNext]_vars PROVE IInv' /\ Paired'
    <3>1. IInv'
      BY <2>1, NextStep, StutterStep
    <3>2. Paired'
      BY <2>1, <3>1, NextPaired, StutterPaired
    <3> QED BY <3>1, <3>2
  <2> QED BY <2>1
<1> QED BY <1>1, <1>2, PTL DEF Spec

(* Between two sessions of the library messages are delivered once each and *)
(* in the order send_text took them, and while the transport is whole none  *)
(* taken is missing: not across the handshake, the carry behind its head,   *)
(* a half sent frame, or the closing handshake.  A limit of 0 would drop    *)
(* every message of the model, so max_message_bytes must let one through.   *)
THEOREM MessagesConserved ==
  ASSUME MaxMessage >= 1
  PROVE  Spec => []Conserved
<1>1. ASSUME IInv, Paired PROVE Conserved
  <2>1. ASSUME NEW s \in Live, peer[s] # None
        PROVE  LET p == peer[s]  got == ws[p].got IN
               /\ got = Numbers(Len(got)) /\ Len(got) <= ws[s].sends
               /\ (/\ ws[s].link = "up" /\ ws[p].link = "up"
                   /\ ws[s].state # "closed" /\ ws[p].state # "closed" /\ ~ws[p].garbled) =>
                    Consecutive(ws[p].carry \o wire[p] \o Pending(ws[s]), Len(got), ws[s].sends)
    <3>1. PICK p : p = peer[s]
      OBVIOUS
    <3>2. PICK r, t, w : r = ws[s] /\ t = ws[p] /\ w = wire[p]
      OBVIOUS
    <3>3. r \in Session /\ t \in Session /\ w \in Seq(Frame) /\ Numbered(r, t, Stream(t, w))
      BY <1>1, <2>1, <3>1, <3>2, Coupled DEF Duo, Way
    <3>4. t.got = Numbers(Len(t.got)) /\ Len(t.got) <= r.sends
      BY <3>3 DEF Numbered
    <3>5. ASSUME Whole(r, t), t.state # "closed", ~t.garbled
          PROVE  Consecutive(t.carry \o w \o Pending(r), Len(t.got), r.sends)
      <4>1. PICK q, n : q = Stream(t, w) /\ n = Len(t.got)
        OBVIOUS
      <4>2. PICK m \in n..r.sends : Consecutive(q, n, m) /\ Consecutive(Pending(r), m, r.sends)
        BY <3>3, <3>5, <4>1 DEF Numbered
      <4>3. q = t.carry \o w
        BY <3>5, <4>1 DEF Stream
      <4>4. q \in Seq(Frame) /\ Pending(r) \in Seq(Frame) /\ n \in Nat /\ r.sends \in Nat
        <5>1. t.carry \in Seq(Frame) /\ n \in Nat /\ r.sends \in Nat
          BY <3>3, <4>1 DEF Session
        <5> QED BY <3>3, <4>3, <5>1, PendingType, ConcatProperties
      <4>5. m \in Nat /\ n <= m /\ m <= r.sends
        BY <4>4
      <4>6. Consecutive(q \o Pending(r), n, r.sends)
        BY <4>2, <4>4, <4>5, ConsecutiveConcat
      <4> QED BY <4>1, <4>3, <4>6
    <3> QED BY <3>1, <3>2, <3>4, <3>5 DEF Whole
  <2> QED BY <2>1 DEF Conserved
<1> QED BY <1>1, PairsInductive, PTL

(* Two sessions of the library never accuse each other of a protocol error, *)
(* of bad data or of an oversized message, whatever the order of their      *)
(* steps, unless their applications themselves close with such a code.      *)
THEOREM PairsInteroperate ==
  ASSUME MaxMessage >= 1, Codes \cap {"protocol", "baddata", "toobig", "malformed"} = {}
  PROVE  Spec => []Interoperable
<1>1. Civil
  BY DEF Civil, Accusing
<1>2. ASSUME Paired PROVE Interoperable
  BY <1>1, <1>2 DEF Paired, Own, Accusing, Interoperable
<1> QED BY <1>2, PairsInductive, PTL

=============================================================================

---------------------------- MODULE Services_proofs ----------------------------
(* Proofs about the small services: that a query of the NTP client whose    *)
(* drain was not cut short never takes an answer that had arrived before it *)
(* was asked, that the wifi service retries as it is configured, and that a *)
(* bounce of a button is never an event.                                    *)
EXTENDS NtpClient, WifiService, Buttons, SequenceTheorems, FiniteSetTheorems,
        WellFoundedInduction, TLAPS

(*********************************** NTP ***********************************)
Result == [state : {"unasked", "pending", "answered", "failed"}, taken : Nat \cup {Nothing},
           cut : BOOLEAN]
Datagram == Nat \cup {NoBytes}

NtpTypeOK ==
  /\ ntp \in [socket : {"unopened", "open", "closed"}, reopens : BOOLEAN,
              result : Queries \cup {Nothing}]
  /\ results \in [Queries -> Result]
  /\ inbox \in Seq(Datagram) /\ onWay \in Nat

(* The queries asked are the first ones; the client knows the last.         *)
AskedInv ==
  \E n \in 0..MaxQueries : /\ \A q \in Queries : results[q].state # "unasked" <=> q <= n
                           /\ ntp.result = IF n = 0 THEN Nothing ELSE n

(* While a query is pending whose drain was not cut short, the socket holds *)
(* only what arrived since.                                                 *)
InboxInv ==
  Busy /\ ~results[ntp.result].cut =>
    \A i \in 1..Len(inbox) : inbox[i] \in {ntp.result, NoBytes}

Untaken == \A q \in Queries : results[q].state = "unasked" => results[q].taken = Nothing

NtpInv == NtpTypeOK /\ AskedInv /\ InboxInv /\ Untaken /\ AnswersAfterAsking

-----------------------------------------------------------------------------
(* A result whose state changes stays a result, and one that is answered.   *)
LEMMA StateType ==
  ASSUME NEW f \in [Queries -> Result], NEW q \in Queries,
         NEW state \in {"unasked", "pending", "answered", "failed"}
  PROVE  [f EXCEPT ![q].state = state] \in [Queries -> Result]
<1>1. [f[q] EXCEPT !.state = state] \in Result
  BY DEF Result
<1>2. QED
  BY <1>1

LEMMA AnswerType ==
  ASSUME NEW r \in Result, NEW d \in Nat
  PROVE  [r EXCEPT !.state = "answered", !.taken = d] \in Result
BY DEF Result

LEMMA AskedType ==
  ASSUME NEW r \in Result, NEW state \in {"pending", "failed"}, NEW cut \in BOOLEAN
  PROVE  [r EXCEPT !.state = state, !.cut = cut] \in Result
BY DEF Result

LEMMA LatestIs ==
  ASSUME NtpTypeOK, NEW n \in 0..MaxQueries,
         \A q \in Queries : results[q].state # "unasked" <=> q <= n
  PROVE  Latest = n
<1>1. Asked = {q \in Queries : q <= n}
  BY DEF Asked
<1>2. CASE n = 0
  BY <1>1, <1>2, NtpAssumption DEF Latest, Queries
<1>3. CASE n > 0
  <2>1. n \in Asked /\ \A p \in Asked : p <= n
    BY <1>1, <1>3, NtpAssumption DEF Queries
  <2>2. \A q \in Asked : (\A p \in Asked : p <= q) => q = n
    BY <2>1, <1>1, NtpAssumption DEF Queries
  <2>3. QED
    BY <2>1, <2>2 DEF Latest
<1>4. QED
  BY <1>2, <1>3, NtpAssumption

(* A drain leaves some of what the socket held, and nothing unless it is    *)
(* cut short.                                                               *)
LEMMA DrainLeaves ==
  ASSUME NtpTypeOK, NEW reads \in 0..DrainLimit, DrainSocket(reads)
  PROVE  inbox' \in Seq(Datagram) /\ (~CutShort(reads) => inbox' = << >>)
<1>1. PICK m \in Nat : m = Len(inbox)
  BY LenProperties DEF NtpTypeOK
<1>2. PICK n \in 0..m : /\ n \in {reads, m} \/ (n > 0 /\ inbox[n] = NoBytes)
                        /\ n <= reads /\ inbox' = SubSeq(inbox, n + 1, m)
  BY <1>1 DEF DrainSocket
<1>3. inbox' \in Seq(Datagram) /\ (n = m => inbox' = << >>)
  <2>1. n + 1 \in Nat \ {0} /\ (n = m => n + 1 > m)
    BY <1>1
  <2>2. \A i \in (n + 1)..m : inbox[i] \in Datagram
    BY <1>1, ElementOfSeq DEF NtpTypeOK
  <2>3. QED
    BY <1>1, <1>2, <2>1, <2>2, SubSeqProperties, EmptySeq DEF NtpTypeOK
<1>4. ~CutShort(reads) => n = m
  BY <1>1, <1>2, NtpAssumption DEF CutShort
<1>5. QED
  BY <1>3, <1>4

LEMMA NtpInitInv == NtpInit => NtpInv
  BY NtpAssumption DEF NtpInit, NtpInv, NtpTypeOK, AskedInv, InboxInv, Untaken, AnswersAfterAsking,
      Busy, Queries, Result, Datagram

(* The client's last result becomes r, or there is a new one.               *)
LEMMA ResultChanges ==
  ASSUME NtpInv, NEW n \in 0..MaxQueries, NEW q \in Queries, NEW r \in Result,
         \A p \in Queries : results[p].state # "unasked" <=> p <= n,
         r.state # "unasked", r.taken \in {Nothing, q} \/ r.cut,
         results' = [results EXCEPT ![q] = r], q <= n + 1, n <= q,
         ntp'.result = q, inbox' \in Seq(Datagram), onWay' \in Nat,
         ntp' \in [socket : {"unopened", "open", "closed"}, reopens : BOOLEAN,
                  result : Queries \cup {Nothing}],
         r.state = "pending" /\ ~r.cut => \A i \in 1..Len(inbox') : inbox'[i] \in {q, NoBytes}
  PROVE  NtpInv'
<1>1. results' \in [Queries -> Result] /\ results'[q] = r /\ q \in 1..MaxQueries
  BY DEF NtpInv, NtpTypeOK, Queries
<1>2. NtpTypeOK'
  BY <1>1 DEF NtpTypeOK
<1>3. AskedInv'
  <2>1. \A p \in Queries : results'[p].state # "unasked" <=> p <= q
    BY NtpAssumption DEF NtpInv, NtpTypeOK, Queries
  <2>2. q \in 0..MaxQueries /\ q # 0
    BY <1>1, NtpAssumption
  <2>3. QED
    BY <2>1, <2>2 DEF AskedInv
<1>4. InboxInv'
  BY <1>1 DEF InboxInv, Busy
<1>5. Untaken' /\ AnswersAfterAsking'
  BY <1>1 DEF NtpInv, NtpTypeOK, Untaken, AnswersAfterAsking
<1>6. QED
  BY <1>2, <1>3, <1>4, <1>5 DEF NtpInv

LEMMA NtpNextInv == NtpInv /\ [NtpNext]_ntpVars => NtpInv'
<1> SUFFICES ASSUME NtpInv, [NtpNext]_ntpVars PROVE NtpInv'
  OBVIOUS
<1> USE NtpAssumption
<1>1. PICK n \in 0..MaxQueries :
        /\ \A q \in Queries : results[q].state # "unasked" <=> q <= n
        /\ ntp.result = IF n = 0 THEN Nothing ELSE n
  BY DEF NtpInv, AskedInv
<1>2. Latest = n
  BY <1>1, LatestIs DEF NtpInv
<1>3. CASE Query
  <2>1. PICK reads \in 0..DrainLimit, state \in {"pending", "failed"} :
          /\ DrainSocket(reads)
          /\ results' = [results EXCEPT ![n + 1].state = state, ![n + 1].cut = CutShort(reads)]
    BY <1>2, <1>3 DEF Query
  <2>2. inbox' \in Seq(Datagram) /\ (~CutShort(reads) => inbox' = << >>)
    BY <2>1, DrainLeaves DEF NtpInv
  <2>3. n + 1 \in Queries /\ ntp' = [ntp EXCEPT !.socket = "open", !.result = n + 1]
    BY <1>1, <1>2, <1>3 DEF Query, Queries
  <2>4. onWay' \in Nat
    BY <1>3 DEF Query, NtpInv, NtpTypeOK
  <2>5. PICK cut \in BOOLEAN : cut = CutShort(reads)
    BY DEF CutShort
  <2>6. results[n + 1] \in Result /\ results[n + 1].taken = Nothing
    BY <1>1, <2>3 DEF NtpInv, NtpTypeOK, Untaken, Queries
  <2>7. PICK r : r = [results[n + 1] EXCEPT !.state = state, !.cut = cut]
    OBVIOUS
  <2>8. r \in Result /\ r.state = state /\ r.cut = cut /\ r.taken = Nothing
    <3>1. [results[n + 1] EXCEPT !.state = state, !.cut = cut] \in Result
      BY <2>6, AskedType, Zenon
    <3>2. r \in Result
      BY <3>1, <2>7
    <3>3. r.state = state /\ r.cut = cut /\ r.taken = Nothing
      BY <2>6, <2>7 DEF Result
    <3>4. QED
      BY <3>2, <3>3
  <2>9. results' = [results EXCEPT ![n + 1] = r]
    BY <2>1, <2>3, <2>5, <2>7 DEF NtpInv, NtpTypeOK
  <2>10. /\ ntp' \in [socket : {"unopened", "open", "closed"}, reopens : BOOLEAN,
                      result : Queries \cup {Nothing}]
         /\ ntp'.result = n + 1
    BY <2>3 DEF NtpInv, NtpTypeOK
  <2>11. ~cut => \A i \in 1..Len(inbox') : inbox'[i] \in {n + 1, NoBytes}
    BY <2>2, <2>5, EmptySeq
  <2>12. n + 1 <= n + 1 /\ n <= n + 1
    BY <1>1
  <2>13. QED
    BY <1>1, <2>2, <2>3, <2>4, <2>8, <2>9, <2>10, <2>11, <2>12, ResultChanges
<1>4. CASE Receive
  <2>1. /\ ntp' = ntp /\ onWay' = onWay /\ inbox' = Tail(inbox)
        /\ inbox # << >> /\ Busy /\ ntp.result = n /\ n \in Queries
    BY <1>1, <1>4 DEF Receive, Busy, NtpInv, NtpTypeOK
  <2>2. /\ Head(inbox) \in Datagram /\ inbox' \in Seq(Datagram) /\ Len(inbox') = Len(inbox) - 1
        /\ \A i \in 1..Len(inbox') : inbox'[i] = inbox[i + 1]
        /\ Head(inbox) = inbox[1] /\ Len(inbox) \in Nat \ {0}
    BY <2>1, HeadTailProperties, LenProperties, EmptySeq, ElementOfSeq DEF NtpInv, NtpTypeOK
  <2>3. results[n] \in Result /\ results[n].state = "pending"
    BY <2>1 DEF Busy, NtpInv, NtpTypeOK
  <2>4. ~results[n].cut => \A i \in 1..Len(inbox) : inbox[i] \in {n, NoBytes}
    BY <2>1 DEF NtpInv, InboxInv
  <2>5. PICK r \in Result : /\ results' = [results EXCEPT ![n] = r]
                            /\ r.state # "unasked" /\ r.cut = results[n].cut
                            /\ r.taken = results[n].taken \/ r.taken \in {Head(inbox)} \ {NoBytes}
    <3>1. CASE Head(inbox) = NoBytes /\ results' = results
      BY <3>1, <2>1, <2>3 DEF NtpInv, NtpTypeOK
    <3>2. CASE Ended("failed")
      <4>1. PICK r : r = [results[n] EXCEPT !.state = "failed"]
        OBVIOUS
      <4>2. r \in Result /\ r.state = "failed" /\ r.cut = results[n].cut
            /\ r.taken = results[n].taken
        BY <4>1, <2>3 DEF Result
      <4>3. results' = [results EXCEPT ![n] = r]
        BY <4>1, <3>2, <2>1 DEF Ended, NtpInv, NtpTypeOK
      <4>4. QED
        BY <4>2, <4>3
    <3>3. CASE Head(inbox) # NoBytes /\ results' = [results EXCEPT ![n].state = "answered",
                                                                  ![n].taken = Head(inbox)]
      <4>1. Head(inbox) \in Nat
        BY <3>3, <2>2 DEF Datagram
      <4>2. PICK r : r = [results[n] EXCEPT !.state = "answered", !.taken = Head(inbox)]
        OBVIOUS
      <4>3. r.state = "answered" /\ r.cut = results[n].cut /\ r.taken = Head(inbox)
        BY <4>2, <2>3 DEF Result
      <4>5. r \in Result
        <5>1. [results[n] EXCEPT !.state = "answered", !.taken = Head(inbox)] \in Result
          BY <4>1, <2>3, AnswerType, Zenon
        <5>2. QED
          BY <5>1, <4>2
      <4>4. results' = [results EXCEPT ![n] = r]
        BY <4>2, <3>3, <2>1 DEF NtpInv, NtpTypeOK
      <4>6. QED
        BY <4>3, <4>4, <4>5, <3>3
    <3>4. QED
      BY <3>1, <3>2, <3>3, <1>4, <2>1 DEF Receive, CheckTimeout
  <2>6. r.taken \in {Nothing, n} \/ r.cut
    <3>1. results[n].taken \in {Nothing, n} \/ results[n].cut
      BY <2>1 DEF NtpInv, AnswersAfterAsking
    <3>2. results[n].cut \/ Head(inbox) \in {n, NoBytes}
      BY <2>2, <2>4
    <3>3. QED
      BY <2>5, <3>1, <3>2
  <2>7. ~r.cut => \A i \in 1..Len(inbox') : inbox'[i] \in {n, NoBytes}
    BY <2>2, <2>4, <2>5
  <2>8. ntp'.result = n /\ onWay' \in Nat /\ n <= n + 1 /\ n <= n
        /\ ntp' \in [socket : {"unopened", "open", "closed"}, reopens : BOOLEAN,
                     result : Queries \cup {Nothing}]
    BY <1>1, <2>1 DEF NtpInv, NtpTypeOK
  <2>9. QED
    BY <1>1, <2>1, <2>2, <2>5, <2>6, <2>7, <2>8, ResultChanges
<1>5. CASE ReceiveRaises \/ NothingReceived \/ Cancel
  <2>1. /\ ntp' = ntp /\ inbox' = inbox /\ onWay' = onWay /\ ntp.result \in Queries /\ Busy
        /\ results' = [results EXCEPT ![ntp.result].state = "failed"]
    BY <1>5 DEF ReceiveRaises, NothingReceived, Cancel, CheckTimeout, Ended, Busy, NtpInv, NtpTypeOK
  <2>2. NtpTypeOK'
    BY <2>1, StateType DEF NtpInv, NtpTypeOK
  <2>3. AskedInv'
    BY <1>1, <2>1 DEF NtpInv, NtpTypeOK, AskedInv, Queries, Result
  <2>4. InboxInv' /\ Untaken' /\ AnswersAfterAsking'
    BY <2>1 DEF NtpInv, NtpTypeOK, InboxInv, Untaken, AnswersAfterAsking, Busy
  <2>5. QED
    BY <2>2, <2>3, <2>4 DEF NtpInv
<1>6. CASE CloseSocket
  BY <1>6, EmptySeq DEF CloseSocket, NtpInv, NtpTypeOK, AskedInv, InboxInv, Untaken,
     AnswersAfterAsking, Busy
<1>7. CASE Arrives
  <2>1. PICK datagram \in {n, NoBytes} :
          /\ ntp' = ntp /\ results' = results /\ onWay' \in Nat
          /\ inbox' = IF Len(inbox) < InboxDepth THEN Append(inbox, datagram) ELSE inbox
    BY <1>2, <1>7 DEF Arrives, NtpInv, NtpTypeOK
  <2>2. inbox' \in Seq(Datagram) /\ InboxInv'
    <3>1. datagram \in Datagram
      BY DEF Datagram
    <3>2. Busy => ntp.result = n
      BY <1>1 DEF Busy
    <3>3. QED
      BY <2>1, <3>1, <3>2, AppendProperties DEF NtpInv, NtpTypeOK, InboxInv, Busy
  <2>3. QED
    BY <2>1, <2>2 DEF NtpInv, NtpTypeOK, AskedInv, Untaken, AnswersAfterAsking
<1>8. CASE UNCHANGED ntpVars
  BY <1>8 DEF ntpVars, NtpInv, NtpTypeOK, AskedInv, InboxInv, Untaken, AnswersAfterAsking, Busy
<1>9. QED
  BY <1>3, <1>4, <1>5, <1>6, <1>7, <1>8 DEF NtpNext, NtpHandle

(* No query whose drain was not cut short takes an answer to an earlier one *)
(* that had arrived before: for any number of queries, however deep the     *)
(* socket is and however many reads the drain may do.                       *)
THEOREM AnswersCorrect == NtpSpec => []AnswersAfterAsking
<1>1. NtpInv => AnswersAfterAsking
  BY DEF NtpInv
<1>2. QED
  BY <1>1, NtpInitInv, NtpNextInv, PTL DEF NtpSpec

(********************************** Wifi ***********************************)
Supervisor ==
  [state : {"disconnected", "connecting", "reconnecting", "connected", "failed"},
   due : Nat, backoff : Nat, attempts : 0..MaxFailures, deadline : Nat \cup {Unset},
   configured : BOOLEAN, blocks : BOOLEAN, budget : Budgets]

(* The next pause is the one of one more failure, and the failures counted  *)
(* are those since the last link; there are none while connected.           *)
BackoffInv(w, failures) ==
  /\ w.attempts = failures
  /\ w.state = "connected" => failures = 0
  /\ w.state # "failed" => w.backoff = Least(BackoffStart * 2^failures, BackoffMax)

BudgetInv(w, failures) ==
  IF w.state = "failed" THEN w.budget # Unset /\ failures = w.budget
  ELSE w.budget # Unset => failures < w.budget

PauseInv(w, h) ==
  w.state \notin {"connected", "failed"} /\ w.deadline = Unset /\ h.failures > 0 =>
    IF w.due > 0 THEN w.due + h.rest = Pause(h.failures) ELSE h.rest >= Pause(h.failures)

WifiInv ==
  /\ wifi \in Supervisor /\ past \in [failures : 0..MaxFailures, rest : Nat]
  /\ BackoffInv(wifi, past.failures) /\ BudgetInv(wifi, past.failures)
  /\ PauseInv(wifi, past)

-----------------------------------------------------------------------------
LEMMA WifiConstants ==
  /\ MaxFailures \in Nat /\ MaxFailures > 0 /\ BackoffStart \in Nat /\ BackoffStart > 0
  /\ BackoffMax \in Nat /\ BackoffStart <= BackoffMax /\ Unset \notin Nat
  /\ FirstJoinTime \in Nat /\ JoinTime \in Nat
BY WifiAssumption

(* A backoff that is doubled up to the cap is the pause of one failure more.*)
LEMMA PauseDoubles ==
  ASSUME NEW f \in 0..MaxFailures, NEW g, g = Least(f + 1, MaxFailures)
  PROVE  /\ g \in 0..MaxFailures /\ g > 0
         /\ Least(BackoffStart * 2^f, BackoffMax) \in Nat
         /\ Least(Least(BackoffStart * 2^f, BackoffMax) * 2, BackoffMax) =
              Least(BackoffStart * 2^g, BackoffMax)
         /\ Pause(g) = Least(BackoffStart * 2^f, BackoffMax)
<1>1. g \in 0..MaxFailures /\ g > 0
  BY WifiConstants DEF Least
<1>2. PICK p \in Nat : p = 2^f
  BY PowersOfTwo
<1>3. PICK x \in Nat : x = BackoffStart * p
  BY <1>2, WifiConstants
<1>4. Least(BackoffStart * 2^f, BackoffMax) = Least(x, BackoffMax)
  BY <1>2, <1>3
<1>5. Least(x, BackoffMax) \in Nat
  BY <1>3, WifiConstants DEF Least
<1>6. Pause(g) = Least(BackoffStart * 2^(g - 1), BackoffMax)
  BY DEF Pause
<1>7. CASE f < MaxFailures
  <2>1. g = f + 1 /\ g - 1 = f
    BY <1>7, WifiConstants DEF Least
  <2>2. 2^g = 2 * p
    BY <2>1, <1>2, PowersOfTwo
  <2>3. BackoffStart * 2^g = x + x
    BY <2>2, <1>2, <1>3, WifiConstants
  <2>4. Least(Least(x, BackoffMax) * 2, BackoffMax) = Least(x + x, BackoffMax)
    BY <1>3, WifiConstants DEF Least
  <2>5. QED
    BY <2>1, <2>3, <2>4, <1>1, <1>4, <1>5, <1>6
<1>8. CASE f = MaxFailures
  <2>1. g = f /\ f - 1 \in 0..MaxFailures /\ (f - 1) + 1 = f
    BY <1>8, WifiConstants DEF Least
  <2>2. PICK q \in Nat : q = 2^(f - 1)
    BY <2>1, PowersOfTwo
  <2>3. p = 2 * q
    BY <2>1, <2>2, <1>2, PowersOfTwo
  <2>4. PICK y \in Nat : y = BackoffStart * q
    BY <2>2, WifiConstants
  <2>5. x = y + y
    BY <2>2, <2>3, <2>4, <1>3, WifiConstants
  <2>6. BackoffMax <= y
    BY <2>2, <2>4, <1>8, WifiAssumption
  <2>7. Least(y, BackoffMax) = BackoffMax /\ Least(x, BackoffMax) = BackoffMax
    BY <2>4, <2>5, <2>6, WifiConstants DEF Least
  <2>8. Pause(g) = BackoffMax
    BY <1>6, <2>1, <2>2, <2>4, <2>7
  <2>9. Least(BackoffMax * 2, BackoffMax) = BackoffMax
    BY WifiConstants DEF Least
  <2>10. BackoffStart * 2^g = x
    BY <2>1, <1>2, <1>3
  <2>11. QED
    BY <2>7, <2>8, <2>9, <2>10, <1>1, <1>4, <1>5
<1>9. QED
  BY <1>7, <1>8, WifiConstants

LEMMA FirstPause ==
  Least(BackoffStart * 2^0, BackoffMax) = BackoffStart
<1>1. BackoffStart * 2^0 = BackoffStart
  BY WifiConstants
<1>2. QED
  BY <1>1, WifiConstants DEF Least

(* An attempt that fails, of a service that is in w by then.                *)
LEMMA FailureKeeps ==
  ASSUME WifiInv, NEW w \in Supervisor, w.state \notin {"connected", "failed"},
         w.deadline = Unset, w.attempts = wifi.attempts, w.backoff = wifi.backoff,
         w.budget = wifi.budget, wifi.state # "failed", Fails(w)
  PROVE  WifiInv'
<1>1. PICK f \in 0..MaxFailures : f = past.failures
  BY DEF WifiInv
<1>2. PICK g : g = Least(f + 1, MaxFailures)
  OBVIOUS
<1>3. PICK b \in Nat : b = w.backoff
  BY DEF Supervisor
<1>4. /\ w.attempts = f /\ b = Least(BackoffStart * 2^f, BackoffMax)
      /\ w.budget # Unset => f < w.budget
  BY <1>1, <1>3 DEF WifiInv, BackoffInv, BudgetInv
<1>5. /\ g \in 0..MaxFailures /\ g > 0 /\ Pause(g) = b
      /\ Least(b * 2, BackoffMax) = Least(BackoffStart * 2^g, BackoffMax)
  BY <1>1, <1>2, <1>4, PauseDoubles
<1>6. past' = [failures |-> g, rest |-> 0]
  BY <1>1, <1>2 DEF Fails
<1>7. w.budget \in 1..MaxFailures \/ w.budget = Unset
  BY WifiAssumption DEF Supervisor
<1>8. CASE w.budget # Unset /\ w.attempts + 1 >= w.budget
  <2>1. wifi' = [w EXCEPT !.state = "failed", !.attempts = g]
    BY <1>2, <1>4, <1>8 DEF Fails, RegisterFailed
  <2>2. wifi' \in Supervisor
    BY <2>1, <1>5 DEF Supervisor
  <2>3. wifi'.state = "failed" /\ wifi'.attempts = g /\ wifi'.budget = w.budget
    BY <2>1 DEF Supervisor
  <2>4. g = w.budget
    BY <1>1, <1>2, <1>4, <1>7, <1>8, WifiConstants DEF Least
  <2>5. QED
    BY <2>2, <2>3, <2>4, <1>5, <1>6, <1>8 DEF WifiInv, BackoffInv, BudgetInv, PauseInv
<1>9. CASE ~(w.budget # Unset /\ w.attempts + 1 >= w.budget)
  <2>1. PICK c : c = Least(b * 2, BackoffMax)
    OBVIOUS
  <2>2. wifi' = [w EXCEPT !.attempts = g, !.due = b, !.backoff = c]
    BY <2>1, <1>2, <1>3, <1>4, <1>9 DEF Fails, RegisterFailed
  <2>3. c \in Nat
    BY <2>1, <1>3, WifiConstants DEF Least
  <2>4. wifi' \in Supervisor
    BY <2>2, <2>3, <1>3, <1>5 DEF Supervisor
  <2>5. /\ wifi'.state = w.state /\ wifi'.attempts = g /\ wifi'.budget = w.budget
        /\ wifi'.due = b /\ wifi'.backoff = c
    BY <2>2 DEF Supervisor
  <2>6. w.budget # Unset => g < w.budget
    BY <1>1, <1>2, <1>4, <1>7, <1>9, WifiConstants DEF Least
  <2>7. BackoffInv(wifi', g) /\ BudgetInv(wifi', g)
    BY <2>1, <2>5, <2>6, <1>5 DEF BackoffInv, BudgetInv
  <2>8. PauseInv(wifi', past')
    BY <2>5, <1>3, <1>5, <1>6 DEF PauseInv
  <2>9. QED
    BY <2>4, <2>7, <2>8, <1>5, <1>6 DEF WifiInv
<1>10. QED
  BY <1>8, <1>9

LEMMA ConnectedKeeps ==
  ASSUME WifiInv, NEW w \in Supervisor, w.budget = wifi.budget, MarkConnected(w)
  PROVE  WifiInv'
<1>1. /\ wifi' = [w EXCEPT !.state = "connected", !.backoff = BackoffStart,
                           !.attempts = 0, !.deadline = Unset]
      /\ past' = [failures |-> 0, rest |-> 0]
  BY DEF MarkConnected
<1>2. wifi' \in Supervisor
  <2>1. 0 \in 0..MaxFailures /\ BackoffStart \in Nat
    BY WifiConstants
  <2>2. QED
    BY <1>1, <2>1 DEF Supervisor
<1>3. /\ wifi'.state = "connected" /\ wifi'.backoff = BackoffStart /\ wifi'.attempts = 0
      /\ wifi'.budget = w.budget
  BY <1>1 DEF Supervisor
<1>4. w.budget # Unset => 0 < w.budget
  <2>1. w.budget \in 1..MaxFailures \/ w.budget = Unset
    BY WifiAssumption DEF Supervisor
  <2>2. QED
    BY <2>1, WifiConstants
<1>5. BackoffInv(wifi', 0) /\ BudgetInv(wifi', 0)
  BY <1>3, <1>4, FirstPause DEF BackoffInv, BudgetInv
<1>6. PauseInv(wifi', past')
  BY <1>3 DEF PauseInv
<1>7. 0 \in 0..MaxFailures
  BY WifiConstants
<1>8. QED
  BY <1>1, <1>2, <1>5, <1>6, <1>7 DEF WifiInv

(* What a service has become when it goes into an attempt.                  *)
LEMMA IntoAttempt ==
  ASSUME WifiInv, Attempts, NEW w, w = Entered \/ w = Dialling
  PROVE  /\ w \in Supervisor /\ w.state \notin {"connected", "failed"}
         /\ w.deadline = Unset /\ w.attempts = wifi.attempts /\ w.backoff = wifi.backoff
         /\ w.budget = wifi.budget /\ w.due = wifi.due /\ wifi.state # "failed"
<1>1. wifi \in Supervisor /\ wifi.state \notin {"connected", "failed"} /\ wifi.deadline = Unset
  BY DEF WifiInv, Attempts, Trying
<1>2. PICK e : e = Entered
  OBVIOUS
<1>3. /\ e \in Supervisor /\ e.state \notin {"connected", "failed"}
      /\ e.deadline = Unset /\ e.attempts = wifi.attempts /\ e.backoff = wifi.backoff
      /\ e.budget = wifi.budget /\ e.due = wifi.due
  BY <1>1, <1>2 DEF Entered, Supervisor
<1>4. w = e \/ w = [e EXCEPT !.configured = TRUE]
  BY <1>2 DEF Dialling
<1>5. QED
  BY <1>1, <1>3, <1>4 DEF Supervisor

LEMMA AttemptKeeps == ASSUME WifiInv, Attempt PROVE WifiInv'
<1>0. Attempts
  BY DEF Attempt, ConfigureRaises, AlreadyLinked, JoinsAtOnce, JoinRefused, JoinDispatched,
     JoinRaises
<1>1. PICK e : e = Entered
  OBVIOUS
<1>2. PICK d : d = Dialling
  OBVIOUS
<1>3. CASE Fails(e) \/ Fails(d)
  BY <1>0, <1>1, <1>2, <1>3, IntoAttempt, FailureKeeps
<1>4. CASE MarkConnected(d)
  BY <1>0, <1>2, <1>4, IntoAttempt, ConnectedKeeps
<1>5. CASE JoinDispatched
  <2>1. wifi' = [d EXCEPT !.deadline = AttemptTime] /\ past' = past
    BY <1>2, <1>5 DEF JoinDispatched
  <2>2. AttemptTime \in Nat /\ AttemptTime # Unset
    BY WifiConstants DEF AttemptTime
  <2>3. /\ d \in Supervisor /\ d.state \notin {"connected", "failed"}
        /\ d.attempts = wifi.attempts /\ d.backoff = wifi.backoff /\ d.budget = wifi.budget
        /\ wifi.state # "failed"
    BY <1>0, <1>2, IntoAttempt
  <2>4. wifi' \in Supervisor
    BY <2>1, <2>2, <2>3 DEF Supervisor
  <2>5. /\ wifi'.state = d.state /\ wifi'.attempts = d.attempts /\ wifi'.backoff = d.backoff
        /\ wifi'.budget = d.budget /\ wifi'.deadline = AttemptTime
    BY <2>1, <2>3 DEF Supervisor
  <2>6. BackoffInv(wifi', past.failures) /\ BudgetInv(wifi', past.failures)
    BY <2>3, <2>5 DEF WifiInv, BackoffInv, BudgetInv
  <2>7. PauseInv(wifi', past')
    BY <2>2, <2>5 DEF PauseInv
  <2>8. QED
    BY <2>1, <2>4, <2>6, <2>7 DEF WifiInv
<1>6. QED
  BY <1>1, <1>2, <1>3, <1>4, <1>5 DEF Attempt, ConfigureRaises, AlreadyLinked, JoinsAtOnce,
     JoinRefused, JoinRaises

LEMMA LinkLostKeeps == ASSUME WifiInv, LinkLost PROVE WifiInv'
<1>1. /\ wifi' = [wifi EXCEPT !.state = "reconnecting", !.backoff = BackoffStart,
                             !.due = 0, !.deadline = Unset]
      /\ past' = past /\ wifi \in Supervisor /\ wifi.state = "connected"
  BY DEF LinkLost, WifiInv
<1>2. past.failures = 0 /\ wifi.attempts = 0 /\ BudgetInv(wifi, 0)
  BY <1>1 DEF WifiInv, BackoffInv
<1>3. wifi' \in Supervisor
  BY <1>1, WifiConstants DEF Supervisor
<1>4. /\ wifi'.state = "reconnecting" /\ wifi'.backoff = BackoffStart /\ wifi'.attempts = 0
      /\ wifi'.budget = wifi.budget
  BY <1>1, <1>2 DEF Supervisor
<1>5. BackoffInv(wifi', 0) /\ BudgetInv(wifi', 0)
  BY <1>1, <1>2, <1>4, FirstPause DEF BackoffInv, BudgetInv
<1>6. PauseInv(wifi', past')
  BY <1>1, <1>2 DEF PauseInv
<1>7. QED
  BY <1>1, <1>2, <1>3, <1>5, <1>6 DEF WifiInv

LEMMA PollTimeoutKeeps == ASSUME WifiInv, PollTimeout PROVE WifiInv'
<1>1. /\ wifi \in Supervisor /\ wifi.state \notin {"connected", "failed"}
      /\ Fails(TimedOut(wifi))
  BY DEF PollTimeout, WifiInv, Trying
<1>2. PICK w : w = [wifi EXCEPT !.deadline = Unset]
  OBVIOUS
<1>3. w \in Supervisor
  BY <1>1, <1>2 DEF Supervisor
<1>4. /\ w.state = wifi.state /\ w.deadline = Unset /\ w.attempts = wifi.attempts
      /\ w.backoff = wifi.backoff /\ w.budget = wifi.budget
  BY <1>1, <1>2 DEF Supervisor
<1>5. Fails(w)
  BY <1>1, <1>2 DEF TimedOut
<1>6. QED
  BY <1>1, <1>3, <1>4, <1>5, FailureKeeps

(* A pause goes down by what the rest goes up.                              *)
LEMMA WifiElapseKeeps == ASSUME WifiInv, WifiElapse PROVE WifiInv'
<1>1. /\ wifi \in Supervisor /\ wifi.state \notin {"connected", "failed"}
      /\ past \in [failures : 0..MaxFailures, rest : Nat]
      /\ wifi' = [wifi EXCEPT !.due = Counted(wifi.due), !.deadline = Counted(wifi.deadline)]
      /\ past' = [past EXCEPT !.rest = Least(past.rest + 1, BackoffMax)]
      /\ wifi.due > 0 \/ wifi.deadline \notin {Unset, 0}
  BY DEF WifiElapse, WifiInv, Trying
<1>2. PICK due \in Nat : due = Counted(wifi.due)
  BY <1>1 DEF Counted, Supervisor
<1>3. PICK deadline \in Nat \cup {Unset} : deadline = Counted(wifi.deadline)
  BY <1>1 DEF Counted, Supervisor
<1>4. deadline = Unset <=> wifi.deadline = Unset
  BY <1>1, <1>3, WifiConstants DEF Counted, Supervisor
<1>5. PICK rest \in Nat : rest = Least(past.rest + 1, BackoffMax)
  BY <1>1, WifiConstants DEF Least
<1>6. wifi' \in Supervisor /\ past' \in [failures : 0..MaxFailures, rest : Nat]
  BY <1>1, <1>2, <1>3, <1>5 DEF Supervisor
<1>7. /\ wifi'.state = wifi.state /\ wifi'.due = due /\ wifi'.deadline = deadline
      /\ wifi'.attempts = wifi.attempts /\ wifi'.backoff = wifi.backoff
      /\ wifi'.budget = wifi.budget
  BY <1>1, <1>2, <1>3 DEF Supervisor
<1>8. past'.failures = past.failures /\ past'.rest = rest
  BY <1>1, <1>5
<1>9. BackoffInv(wifi', past'.failures) /\ BudgetInv(wifi', past'.failures)
  BY <1>7, <1>8 DEF WifiInv, BackoffInv, BudgetInv
<1>10. PauseInv(wifi', past')
  <2> SUFFICES ASSUME deadline = Unset, past.failures > 0
               PROVE  IF due > 0 THEN due + rest = Pause(past.failures)
                      ELSE rest >= Pause(past.failures)
    BY <1>7, <1>8 DEF PauseInv
  <2>1. PICK p : p = Pause(past.failures)
    OBVIOUS
  <2>2. p \in Nat /\ p <= BackoffMax
    <3>1. past.failures - 1 \in 0..MaxFailures
      BY <1>1, WifiConstants
    <3>2. PICK x \in Nat : x = 2^(past.failures - 1)
      BY <3>1, PowersOfTwo
    <3>3. PICK y \in Nat : y = BackoffStart * x
      BY <3>2, WifiConstants
    <3>4. p = Least(y, BackoffMax)
      BY <2>1, <3>2, <3>3 DEF Pause
    <3>5. QED
      BY <3>3, <3>4, WifiConstants DEF Least
  <2>3. wifi.due \in Nat /\ past.rest \in Nat /\ wifi.due > 0
    BY <1>1, <1>4 DEF Supervisor
  <2>4. wifi.due + past.rest = p
    BY <2>1, <2>3, <1>1, <1>4 DEF WifiInv, PauseInv
  <2>5. due = wifi.due - 1
    BY <2>3, <1>2, WifiConstants DEF Counted
  <2>6. rest = past.rest + 1
    BY <2>2, <2>3, <2>4, <1>5, WifiConstants DEF Least
  <2>7. QED
    BY <2>1, <2>2, <2>3, <2>4, <2>5, <2>6
<1>11. QED
  BY <1>6, <1>9, <1>10 DEF WifiInv

LEMMA WifiBegin == WifiInit => WifiInv
<1> SUFFICES ASSUME WifiInit PROVE WifiInv
  OBVIOUS
<1>1. PICK blocks \in BOOLEAN, budget \in Budgets :
        wifi = [state |-> "disconnected", due |-> 0, backoff |-> BackoffStart,
                attempts |-> 0, deadline |-> Unset, configured |-> FALSE,
                blocks |-> blocks, budget |-> budget]
  BY DEF WifiInit
<1>2. past = [failures |-> 0, rest |-> 0]
  BY DEF WifiInit
<1>3. 0 \in 0..MaxFailures /\ BackoffStart \in Nat /\ (budget # Unset => 0 < budget)
  BY <1>1, WifiConstants, WifiAssumption
<1>4. wifi \in Supervisor /\ past \in [failures : 0..MaxFailures, rest : Nat]
  BY <1>1, <1>2, <1>3 DEF Supervisor
<1>5. BackoffInv(wifi, 0) /\ BudgetInv(wifi, 0)
  BY <1>1, <1>3, FirstPause DEF BackoffInv, BudgetInv
<1>6. PauseInv(wifi, past)
  BY <1>2 DEF PauseInv
<1>7. QED
  BY <1>2, <1>4, <1>5, <1>6 DEF WifiInv

LEMMA WifiStep == WifiInv /\ [WifiNext]_wifiVars => WifiInv'
<1> SUFFICES ASSUME WifiInv, [WifiNext]_wifiVars PROVE WifiInv'
  OBVIOUS
<1>1. CASE LinkLost
  BY <1>1, LinkLostKeeps
<1>2. CASE Attempt
  BY <1>2, AttemptKeeps
<1>3. CASE PollLinked
  <2>1. MarkConnected(wifi) /\ wifi \in Supervisor
    BY <1>3 DEF PollLinked, WifiInv
  <2>2. QED
    BY <2>1, ConnectedKeeps
<1>4. CASE PollTimeout
  BY <1>4, PollTimeoutKeeps
<1>5. CASE WifiElapse
  BY <1>5, WifiElapseKeeps
<1>6. CASE Radio \/ UNCHANGED wifiVars
  <2>1. UNCHANGED <<wifi, past>>
    BY <1>6 DEF Radio, Joined, LinkDrops, ApChanges, wifiVars
  <2>2. QED
    BY <2>1 DEF WifiInv, BackoffInv, BudgetInv, PauseInv, Pause
<1>7. QED
  BY <1>1, <1>2, <1>3, <1>4, <1>5, <1>6 DEF WifiNext, WifiHandle

(* The service gives up exactly when its budget of failures is spent, and   *)
(* pauses for the start value doubled with every failure up to the cap: for *)
(* any budgets, start value, cap and timeouts.                              *)
THEOREM WifiRetries == WifiSpec => []RetriesAsConfigured
<1>1. WifiSpec => []WifiInv
  BY WifiBegin, WifiStep, PTL DEF WifiSpec
<1>2. WifiInv => RetriesAsConfigured
  BY DEF WifiInv, BudgetInv, PauseInv, RetriesAsConfigured, Trying
<1>3. QED
  BY <1>1, <1>2, PTL

(********************************* Buttons *********************************)
EdgeRecord == [key : Pins, level : BOOLEAN, age : 0..MaxLag, stood : 0..OldAge]

Point == [at : {"sample", "install", "idle", "ring", "resample", "sweep"},
          key : 1..(KeyCount + 1), lag : 0..MaxLag]
Readings == {"good", "stale", "doubtful"}
Annals == [edges : Nat, dropped : BOOLEAN, phantom : BOOLEAN, reading : [Pins -> Readings]]

ButtonsTypeOK ==
  /\ pin \in [Pins -> BOOLEAN] /\ stood \in [Pins -> 0..OldAge]
  /\ ring \in Seq(EdgeRecord)
  /\ source \in [dropped : BOOLEAN, believed : [Pins -> BOOLEAN], pending : [Pins -> BOOLEAN],
                 change : [Pins -> 0..OldAge], sweep : 1..(KeyCount + 1)]
  /\ check \in Point
  /\ check.at \in {"sample", "install", "resample"} => check.key \in Pins
  /\ pressed \in [Pins -> BOOLEAN] /\ history \in Annals

(* The edges of a key in a ring r, seen one after the other.                *)
IsFirst(r, i)    == \A j \in 1..(i - 1) : r[j].key # r[i].key
IsLast(r, i)     == \A j \in (i + 1)..Len(r) : r[j].key # r[i].key
IsNext(r, i, j)  ==
  i < j /\ r[j].key = r[i].key /\ \A l \in (i + 1)..(j - 1) : r[l].key # r[i].key
Quiet(r, k)      == \A i \in 1..Len(r) : r[i].key # k

(* Without a drop the ring tells the whole story: edges of a key alternate, *)
(* from the level that is pending to the level of its pin, and the pin      *)
(* stood before each of them since the one before.  A change that is still  *)
(* to be confirmed is not older than the time the pin stood there.  What is *)
(* pending of a key in m, one that is not read yet or whose reading is not  *)
(* good, tells nothing.                                                     *)
Waiting(s, k)    == s.pending[k] # s.believed[k]
StartsAt(r, s, m) ==
  \A i \in 1..Len(r) : IsFirst(r, i) /\ r[i].key \notin m =>
    /\ r[i].level # s.pending[r[i].key]
    /\ Waiting(s, r[i].key) => r[i].stood + r[i].age >= s.change[r[i].key]
Alternates(r)    ==
  \A i, j \in 1..Len(r) : IsNext(r, i, j) =>
    r[j].level # r[i].level /\ r[j].stood + r[j].age >= r[i].age
EndsAt(r, p, t)  ==
  \A i \in 1..Len(r) : IsLast(r, i) => r[i].level = p[r[i].key] /\ t[r[i].key] >= r[i].age
Stands(r, s, p, t, m) ==
  \A k \in Pins \ m : Quiet(r, k) =>
    p[k] = s.pending[k] /\ (Waiting(s, k) => t[k] >= s.change[k])

Story(r, s, p, t, m) ==
  StartsAt(r, s, m) /\ Alternates(r) /\ EndsAt(r, p, t) /\ Stands(r, s, p, t, m)

Unsure(h, c) ==
  {k \in Pins : h.reading[k] # "good" \/ (c.at = "sample" /\ ~(k < c.key))}

(* The source keeps up with edge e of key k; of the other keys it is as s.  *)
Follows(u, k, e) == u.pending[k] = e.level /\ (Waiting(u, k) => u.change[k] = e.age)
SameBut(u, s, k) ==
  \A j \in Pins \ {k} : /\ u.pending[j] = s.pending[j] /\ u.believed[j] = s.believed[j]
                         /\ u.change[j] = s.change[j]

(* What came in since the ring was found empty is not older than now_ms.    *)
Fresh(r, c) == c.at \in {"resample", "sweep"} => \A i \in 1..Len(r) : r[i].age <= c.lag

(* Only a key whose interrupt is installed has edges in the ring; before    *)
(* any is, a key whose reading is good stood since the constructor began.   *)
Recorded(r, c) ==
  \A i \in 1..Len(r) : c.at # "sample" /\ (c.at = "install" => r[i].key < c.key)
Steady(h, c, s, t) ==
  c.at = "sample" => \A k \in Pins : h.reading[k] = "good" => t[k] >= s.change[k]

ButtonsInv ==
  /\ ButtonsTypeOK
  /\ source.dropped => history.dropped
  /\ check.at = "resample" => history.dropped
  /\ ~history.dropped =>
       Story(ring, source, pin, stood, Unsure(history, check)) /\ Fresh(ring, check)
  /\ Recorded(ring, check) /\ Steady(history, check, source, stood)
  /\ NoBounce

-----------------------------------------------------------------------------
LEMMA ButtonsConstants ==
  /\ KeyCount \in Nat \ {0} /\ Settle \in Nat /\ MaxLag \in Nat \ {0} /\ OldAge \in Nat
  /\ OldAge = Settle + MaxLag /\ Pins = 1..KeyCount
BY ButtonsAssumption DEF OldAge, Pins

(* The fields of an edge in the ring, one by one.                           *)
LEMMA EdgeFields ==
  ASSUME NEW e \in EdgeRecord
  PROVE  /\ e.key \in Pins /\ e.level \in BOOLEAN /\ e.age \in 0..MaxLag
         /\ e.stood \in 0..OldAge /\ e.age \in Nat /\ e.stood \in Nat
<1>1. e.key \in Pins /\ e.level \in BOOLEAN /\ e.age \in 0..MaxLag /\ e.stood \in 0..OldAge
  BY DEF EdgeRecord
<1>2. QED
  BY <1>1, ButtonsConstants

(* The attributes of the source, one by one.                                *)
SourceType(s) ==
  /\ s.dropped \in BOOLEAN /\ s.believed \in [Pins -> BOOLEAN] /\ s.pending \in [Pins -> BOOLEAN]
  /\ s.change \in [Pins -> 0..OldAge] /\ s.sweep \in 1..(KeyCount + 1)

(* An edge that is recorded: it goes away from the level of its pin, which  *)
(* had stood since the edge before it.                                      *)
LEMMA StoryAppend ==
  ASSUME NEW r \in Seq(EdgeRecord), NEW s, SourceType(s), NEW p \in [Pins -> BOOLEAN],
         NEW t \in [Pins -> 0..OldAge], NEW k \in Pins, NEW m, Story(r, s, p, t, m),
         NEW e \in EdgeRecord,
         e.key = k, e.level = ~p[k], e.age = 0, e.stood = t[k]
  PROVE  Story(Append(r, e), s, [p EXCEPT ![k] = ~@], [t EXCEPT ![k] = 0], m)
<1> DEFINE q == Append(r, e)  p2 == [p EXCEPT ![k] = ~@]  t2 == [t EXCEPT ![k] = 0]
<1>1. PICK n \in Nat : n = Len(r)
  BY LenProperties
<1>2. /\ q \in Seq(EdgeRecord) /\ Len(q) = n + 1 /\ q[n + 1] = e
      /\ \A i \in 1..n : q[i] = r[i]
  BY <1>1, AppendProperties
<1>3. \A i \in 1..n : r[i] \in EdgeRecord
  BY <1>1, ElementOfSeq
<1>4. /\ p2[k] = ~p[k] /\ t2[k] = 0
      /\ \A j \in Pins : j # k => p2[j] = p[j] /\ t2[j] = t[j]
  OBVIOUS
<1>5. StartsAt(q, s, m)
  <2> SUFFICES ASSUME NEW i \in 1..(n + 1), IsFirst(q, i), q[i].key \notin m
               PROVE  /\ q[i].level # s.pending[q[i].key]
                      /\ Waiting(s, q[i].key) =>
                           q[i].stood + q[i].age >= s.change[q[i].key]
    BY <1>2 DEF StartsAt
  <2>1. CASE i \in 1..n
    <3>1. IsFirst(r, i)
      BY <1>2, <2>1 DEF IsFirst
    <3>2. QED
      BY <3>1, <2>1, <1>1, <1>2 DEF Story, StartsAt
  <2>2. CASE i = n + 1
    <3>1. Quiet(r, k)
      BY <1>1, <1>2, <2>2 DEF IsFirst, Quiet
    <3>2. p[k] = s.pending[k] /\ (Waiting(s, k) => t[k] >= s.change[k])
      BY <3>1, <1>2, <2>2 DEF Story, Stands
    <3>3. t[k] \in Nat /\ p[k] \in BOOLEAN
      BY ButtonsConstants
    <3>4. QED
      BY <3>2, <3>3, <1>2, <2>2
  <2>3. QED
    BY <2>1, <2>2, <1>1
<1>6. Alternates(q)
  <2> SUFFICES ASSUME NEW i \in 1..(n + 1), NEW j \in 1..(n + 1), IsNext(q, i, j)
               PROVE  q[j].level # q[i].level /\ q[j].stood + q[j].age >= q[i].age
    BY <1>2 DEF Alternates
  <2>0. i \in 1..n
    BY DEF IsNext
  <2>1. CASE j \in 1..n
    <3>1. IsNext(r, i, j)
      BY <1>2, <2>0, <2>1 DEF IsNext
    <3>2. QED
      BY <3>1, <2>0, <2>1, <1>1, <1>2 DEF Story, Alternates
  <2>2. CASE j = n + 1
    <3>1. IsLast(r, i) /\ r[i].key = k
      BY <1>1, <1>2, <2>0, <2>2 DEF IsNext, IsLast
    <3>2. r[i].level = p[k] /\ t[k] >= r[i].age
      BY <3>1, <1>1, <2>0 DEF Story, EndsAt
    <3>3. t[k] \in Nat /\ p[k] \in BOOLEAN
      BY ButtonsConstants
    <3>4. QED
      BY <3>2, <3>3, <1>2, <2>0, <2>2
  <2>3. QED
    BY <2>1, <2>2, <1>1
<1>7. EndsAt(q, p2, t2)
  <2> SUFFICES ASSUME NEW i \in 1..(n + 1), IsLast(q, i)
               PROVE  q[i].level = p2[q[i].key] /\ t2[q[i].key] >= q[i].age
    BY <1>2 DEF EndsAt
  <2>1. CASE i \in 1..n
    <3>0. r[i].key \in Pins /\ q[i] = r[i] /\ n + 1 \in (i + 1)..(n + 1)
      BY <1>1, <1>2, <1>3, <2>1, EdgeFields
    <3>1. r[i].key # k
      BY <3>0, <1>2 DEF IsLast
    <3>2. IsLast(r, i)
      BY <3>0, <1>1, <1>2, <2>1 DEF IsLast
    <3>3. QED
      BY <3>0, <3>1, <3>2, <2>1, <1>1, <1>2, <1>4 DEF Story, EndsAt
  <2>2. CASE i = n + 1
    BY <1>2, <1>4, <2>2
  <2>3. QED
    BY <2>1, <2>2, <1>1
<1>8. Stands(q, s, p2, t2, m)
  <2> SUFFICES ASSUME NEW j \in Pins \ m, Quiet(q, j)
               PROVE  p2[j] = s.pending[j] /\ (Waiting(s, j) => t2[j] >= s.change[j])
    BY DEF Stands
  <2>1. j # k /\ Quiet(r, j)
    BY <1>1, <1>2 DEF Quiet
  <2>2. QED
    BY <2>1, <1>4 DEF Story, Stands
<1>9. QED
  BY <1>5, <1>6, <1>7, <1>8 DEF Story

(* A change of a pin that no interrupt hears: its key is unsure now.        *)
LEMMA StoryMiss ==
  ASSUME NEW r \in Seq(EdgeRecord), NEW s, NEW p \in [Pins -> BOOLEAN],
         NEW t \in [Pins -> 0..OldAge], NEW m, NEW n, NEW k \in Pins, Story(r, s, p, t, m),
         Quiet(r, k), k \in n, m \subseteq n
  PROVE  Story(r, s, [p EXCEPT ![k] = ~@], [t EXCEPT ![k] = 0], n)
<1> DEFINE p2 == [p EXCEPT ![k] = ~@]  t2 == [t EXCEPT ![k] = 0]
<1>1. \A j \in Pins : j # k => p2[j] = p[j] /\ t2[j] = t[j]
  OBVIOUS
<1>2. \A i \in 1..Len(r) : r[i].key \in Pins /\ r[i].key # k
  BY ElementOfSeq, EdgeFields DEF Quiet
<1> HIDE DEF p2, t2
<1>3. StartsAt(r, s, n) /\ Alternates(r)
  BY DEF Story, StartsAt
<1>4. EndsAt(r, p2, t2)
  BY <1>1, <1>2 DEF Story, EndsAt
<1>5. Stands(r, s, p2, t2, n)
  BY <1>1 DEF Story, Stands
<1>6. QED
  BY <1>3, <1>4, <1>5 DEF Story, p2, t2

(* A pin is read: its key is sure now, if the pin stood since the           *)
(* constructor began.                                                       *)
LEMMA StorySample ==
  ASSUME NEW s, SourceType(s), NEW p \in [Pins -> BOOLEAN], NEW t, NEW m, NEW n, NEW k \in Pins,
         NEW r, r = <<>>, Story(r, s, p, t, m), m \ {k} \subseteq n,
         NEW u, u.pending = [s.pending EXCEPT ![k] = p[k]], u.believed = s.believed,
         u.change = s.change, k \notin n => t[k] >= s.change[k]
  PROVE  Story(r, u, p, t, n)
<1>1. Len(r) = 0 /\ \A j \in Pins : Quiet(r, j)
  BY DEF Quiet
<1>2. StartsAt(r, u, n) /\ Alternates(r) /\ EndsAt(r, p, t)
  BY <1>1 DEF StartsAt, Alternates, EndsAt
<1>3. Stands(r, u, p, t, n)
  <2> SUFFICES ASSUME NEW j \in Pins \ n
               PROVE  p[j] = u.pending[j] /\ (Waiting(u, j) => t[j] >= u.change[j])
    BY DEF Stands
  <2>1. CASE j = k
    BY <2>1 DEF SourceType
  <2>2. CASE j # k
    <3>1. u.pending[j] = s.pending[j] /\ j \notin m
      BY <2>2 DEF SourceType
    <3>2. p[j] = s.pending[j] /\ (Waiting(s, j) => t[j] >= s.change[j])
      BY <3>1, <1>1 DEF Story, Stands
    <3>3. QED
      BY <3>1, <3>2 DEF Waiting
  <2>3. QED
    BY <2>1, <2>2
<1>4. QED
  BY <1>2, <1>3 DEF Story

(* An edge that is taken out: its level is the one that is pending now, and *)
(* its key may be sure of it.                                               *)
LEMMA StoryTail ==
  ASSUME NEW r \in Seq(EdgeRecord), r # <<>>, NEW s, SourceType(s), NEW p \in [Pins -> BOOLEAN],
         NEW t \in [Pins -> 0..OldAge], NEW m, NEW mm, Story(r, s, p, t, m),
         NEW u, SourceType(u), NEW k \in Pins, k = r[1].key, m \ {k} \subseteq mm,
         k \notin mm => Follows(u, k, r[1]), SameBut(u, s, k)
  PROVE  Story(Tail(r), u, p, t, mm)
<1> DEFINE q == Tail(r)
<1>1. PICK n \in Nat : n = Len(r)
  BY LenProperties
<1>2. /\ n \in Nat \ {0} /\ q \in Seq(EdgeRecord) /\ Len(q) = n - 1
      /\ \A i \in 1..(n - 1) : q[i] = r[i + 1]
  BY <1>1, HeadTailProperties, EmptySeq
<1>3. \A i \in 1..n : r[i] \in EdgeRecord
  BY <1>1, ElementOfSeq
<1>4. \A i \in 1..n : r[i].key \in Pins /\ r[i].age \in Nat /\ r[i].stood \in Nat
  BY <1>3, EdgeFields
<1>5. StartsAt(q, u, mm)
  <2> SUFFICES ASSUME NEW i \in 1..(n - 1), IsFirst(q, i), q[i].key \notin mm
               PROVE  /\ q[i].level # u.pending[q[i].key]
                      /\ Waiting(u, q[i].key) =>
                           q[i].stood + q[i].age >= u.change[q[i].key]
    BY <1>2 DEF StartsAt
  <2>1. i + 1 \in 1..n /\ q[i] = r[i + 1] /\ r[i + 1].key \in Pins /\ 1 \in 1..n
    BY <1>2, <1>4
  <2>2. \A j \in 2..i : r[j].key # r[i + 1].key
    <3>1. SUFFICES ASSUME NEW j \in 2..i PROVE r[j].key # r[i + 1].key
      OBVIOUS
    <3>2. j - 1 \in 1..(i - 1) /\ j - 1 \in 1..(n - 1) /\ (j - 1) + 1 = j
      BY <3>1, <1>2
    <3>3. q[j - 1] = r[j]
      BY <3>2, <1>2
    <3>4. QED
      BY <3>2, <3>3, <2>1 DEF IsFirst
  <2>3. CASE r[i + 1].key = k
    <3>1. IsNext(r, 1, i + 1)
      BY <2>1, <2>2, <2>3 DEF IsNext
    <3>2. r[i + 1].level # r[1].level /\ r[i + 1].stood + r[i + 1].age >= r[1].age
      BY <3>1, <2>1, <1>1 DEF Story, Alternates
    <3>3. QED
      BY <3>2, <2>1, <2>3 DEF Follows
  <2>4. CASE r[i + 1].key # k
    <3>1. \A j \in 1..i : r[j].key # r[i + 1].key
      <4>1. SUFFICES ASSUME NEW j \in 1..i PROVE r[j].key # r[i + 1].key
        OBVIOUS
      <4>2. j = 1 \/ j \in 2..i
        BY <1>1
      <4>3. QED
        BY <4>2, <2>2, <2>4
    <3>2. IsFirst(r, i + 1)
      <4>1. (i + 1) - 1 = i
        BY <1>1
      <4>2. QED
        BY <3>1, <4>1 DEF IsFirst
    <3>3. PICK j \in Pins \ {k} : j = r[i + 1].key
      BY <2>1, <2>4
    <3>4. /\ r[i + 1].level # s.pending[j]
          /\ Waiting(s, j) => r[i + 1].stood + r[i + 1].age >= s.change[j]
      BY <3>2, <3>3, <2>1, <1>1 DEF Story, StartsAt
    <3>5. /\ u.pending[j] = s.pending[j] /\ u.change[j] = s.change[j]
          /\ Waiting(u, j) => Waiting(s, j)
      BY <3>3 DEF SameBut, Waiting
    <3>6. QED
      BY <3>3, <3>4, <3>5, <2>1
  <2>5. QED
    BY <2>3, <2>4
<1>6. Alternates(q)
  <2> SUFFICES ASSUME NEW i \in 1..(n - 1), NEW j \in 1..(n - 1), IsNext(q, i, j)
               PROVE  q[j].level # q[i].level /\ q[j].stood + q[j].age >= q[i].age
    BY <1>2 DEF Alternates
  <2>1. /\ i + 1 \in 1..n /\ j + 1 \in 1..n /\ q[i] = r[i + 1] /\ q[j] = r[j + 1]
        /\ i + 1 < j + 1
    BY <1>2 DEF IsNext
  <2>2. \A l \in (i + 2)..j : r[l].key # r[i + 1].key
    <3>1. SUFFICES ASSUME NEW l \in (i + 2)..j PROVE r[l].key # r[i + 1].key
      OBVIOUS
    <3>2. l - 1 \in (i + 1)..(j - 1) /\ l - 1 \in 1..(n - 1) /\ (l - 1) + 1 = l
      BY <3>1, <1>2
    <3>3. q[l - 1] = r[l]
      BY <3>2, <1>2
    <3>4. QED
      BY <3>2, <3>3, <2>1 DEF IsNext
  <2>3. IsNext(r, i + 1, j + 1)
    BY <2>1, <2>2, <1>1 DEF IsNext
  <2>4. QED
    BY <2>1, <2>3, <1>1 DEF Story, Alternates
<1>7. \A i \in 1..n : (\A l \in (i + 1)..n : r[l].key # r[i].key) =>
                        r[i].level = p[r[i].key] /\ t[r[i].key] >= r[i].age
  BY <1>1 DEF Story, EndsAt, IsLast
<1>8. EndsAt(q, p, t)
  <2> SUFFICES ASSUME NEW i \in 1..(n - 1), IsLast(q, i)
               PROVE  q[i].level = p[q[i].key] /\ t[q[i].key] >= q[i].age
    BY <1>2 DEF EndsAt
  <2>1. i + 1 \in 1..n /\ q[i] = r[i + 1]
    BY <1>2
  <2>2. \A l \in (i + 2)..n : r[l].key # r[i + 1].key
    <3>1. SUFFICES ASSUME NEW l \in (i + 2)..n PROVE r[l].key # r[i + 1].key
      OBVIOUS
    <3>2. l - 1 \in (i + 1)..(n - 1) /\ l - 1 \in 1..(n - 1) /\ (l - 1) + 1 = l
      BY <3>1, <1>2
    <3>3. q[l - 1] = r[l]
      BY <3>2, <1>2
    <3>4. QED
      BY <3>2, <3>3, <2>1, <1>2 DEF IsLast
  <2>3. (i + 1) + 1 = i + 2
    BY <1>1
  <2>4. \A l \in ((i + 1) + 1)..n : r[l].key # r[i + 1].key
    BY <2>2, <2>3
  <2>5. QED
    BY <2>1, <2>4, <1>7
<1>9. Stands(q, u, p, t, mm)
  <2> SUFFICES ASSUME NEW j \in Pins \ mm, Quiet(q, j)
               PROVE  p[j] = u.pending[j] /\ (Waiting(u, j) => t[j] >= u.change[j])
    BY DEF Stands
  <2>1. \A l \in 2..n : r[l].key # j
    <3>1. SUFFICES ASSUME NEW l \in 2..n PROVE r[l].key # j
      OBVIOUS
    <3>2. l - 1 \in 1..(n - 1) /\ (l - 1) + 1 = l
      BY <3>1, <1>2
    <3>3. q[l - 1] = r[l]
      BY <3>2, <1>2
    <3>4. QED
      BY <3>2, <3>3, <1>2 DEF Quiet
  <2>2. CASE j = k
    <3>1. r[1].level = p[k] /\ t[k] >= r[1].age
      BY <2>1, <2>2, <1>2, <1>7
    <3>2. QED
      BY <3>1, <2>2 DEF Follows
  <2>3. CASE j # k
    <3>1. Quiet(r, j)
      BY <2>1, <2>3, <1>1, <1>2 DEF Quiet
    <3>2. QED
      BY <3>1, <2>3 DEF Story, Stands, Waiting, SameBut
  <2>4. QED
    BY <2>2, <2>3
<1>10. QED
  BY <1>5, <1>6, <1>8, <1>9 DEF Story

LEMMA OneOlder == \A a, b \in Nat : (a + b) + 1 = a + (b + 1)
OBVIOUS

(* Time passes: ages grow alike, up to the one that makes no difference.    *)
LEMMA StoryElapse ==
  ASSUME NEW r \in Seq(EdgeRecord), NEW s, SourceType(s), NEW p \in [Pins -> BOOLEAN],
         NEW t \in [Pins -> 0..OldAge], NEW m, Story(r, s, p, t, m),
         \A i \in 1..Len(r) : r[i].age < MaxLag,
         NEW q \in Seq(EdgeRecord), Len(q) = Len(r),
         \A i \in 1..Len(r) : /\ q[i].key = r[i].key /\ q[i].level = r[i].level
                              /\ q[i].stood = r[i].stood /\ q[i].age = r[i].age + 1,
         NEW u, u.pending = s.pending, u.believed = s.believed, u.change = OlderAll(s.change)
  PROVE  Story(q, u, p, OlderAll(t), m)
<1>1. PICK n \in Nat : n = Len(r)
  BY LenProperties
<1>2. \A i \in 1..n : /\ q[i].key = r[i].key /\ q[i].level = r[i].level
                      /\ q[i].stood = r[i].stood /\ q[i].age = r[i].age + 1
                      /\ r[i].age < MaxLag
  BY <1>1
<1>3. \A i \in 1..n : r[i].key \in Pins /\ r[i].age \in Nat /\ r[i].stood \in Nat
  BY <1>1, ElementOfSeq, EdgeFields
<1>4. \A k \in Pins : /\ t[k] \in 0..OldAge /\ s.change[k] \in 0..OldAge
                      /\ OlderAll(t)[k] = Older(t[k])
                      /\ u.change[k] = Older(s.change[k])
  BY DEF OlderAll, SourceType
<1>5. \A a, b \in 0..OldAge : a >= b => Older(a) >= Older(b)
  BY ButtonsConstants DEF Older
<1>6. \A a \in 0..OldAge : \A b \in Nat : b < MaxLag /\ a >= b => Older(a) >= b + 1
  BY ButtonsConstants DEF Older
<1>7. \A a \in 0..OldAge : \A b \in Nat : b >= a => b + 1 >= Older(a)
  BY ButtonsConstants DEF Older
<1>8. StartsAt(q, u, m)
  <2> SUFFICES ASSUME NEW i \in 1..n, IsFirst(q, i), q[i].key \notin m
               PROVE  /\ q[i].level # u.pending[q[i].key]
                      /\ Waiting(u, q[i].key) =>
                           q[i].stood + q[i].age >= u.change[q[i].key]
    BY <1>1 DEF StartsAt
  <2>1. IsFirst(r, i)
    <3>1. SUFFICES ASSUME NEW j \in 1..(i - 1) PROVE r[j].key # r[i].key
      BY DEF IsFirst
    <3>2. j \in 1..n /\ q[j].key # q[i].key
      BY <1>1, <3>1 DEF IsFirst
    <3>3. QED
      BY <3>2, <1>2
  <2>2. /\ r[i].level # s.pending[r[i].key]
        /\ Waiting(s, r[i].key) => r[i].stood + r[i].age >= s.change[r[i].key]
    BY <2>1, <1>1, <1>2 DEF Story, StartsAt
  <2>3. Waiting(s, r[i].key) =>
          (r[i].stood + r[i].age) + 1 >= Older(s.change[r[i].key])
    <3>1. PICK a \in 0..OldAge : a = s.change[r[i].key]
      BY <1>3, <1>4
    <3>2. PICK b \in Nat : b = r[i].stood + r[i].age
      BY <1>3
    <3>3. b >= a => b + 1 >= Older(a)
      BY <3>1, <3>2, <1>7
    <3>4. QED
      BY <2>2, <3>1, <3>2, <3>3
  <2>4. (r[i].stood + r[i].age) + 1 = r[i].stood + (r[i].age + 1)
    <3>1. r[i].stood \in Nat /\ r[i].age \in Nat
      BY <1>1, <1>3
    <3>2. QED
      BY <3>1, OneOlder
  <2>5. QED
    BY <2>2, <2>3, <2>4, <1>2, <1>3, <1>4 DEF Waiting
<1>9. Alternates(q)
  <2> SUFFICES ASSUME NEW i \in 1..n, NEW j \in 1..n, IsNext(q, i, j)
               PROVE  q[j].level # q[i].level /\ q[j].stood + q[j].age >= q[i].age
    BY <1>1 DEF Alternates
  <2>1. IsNext(r, i, j)
    BY <1>2 DEF IsNext
  <2>2. r[j].level # r[i].level /\ r[j].stood + r[j].age >= r[i].age
    BY <2>1, <1>1 DEF Story, Alternates
  <2>3. QED
    BY <2>2, <1>1, <1>2, <1>3
<1>10. EndsAt(q, p, OlderAll(t))
  <2> SUFFICES ASSUME NEW i \in 1..n, IsLast(q, i)
               PROVE  q[i].level = p[q[i].key] /\ OlderAll(t)[q[i].key] >= q[i].age
    BY <1>1 DEF EndsAt
  <2>1. IsLast(r, i)
    BY <1>1, <1>2 DEF IsLast
  <2>2. r[i].level = p[r[i].key] /\ t[r[i].key] >= r[i].age
    BY <2>1, <1>1 DEF Story, EndsAt
  <2>3. QED
    BY <2>2, <1>2, <1>3, <1>4, <1>6
<1>11. Stands(q, u, p, OlderAll(t), m)
  <2> SUFFICES ASSUME NEW k \in Pins \ m, Quiet(q, k)
               PROVE  /\ p[k] = u.pending[k]
                      /\ Waiting(u, k) => OlderAll(t)[k] >= u.change[k]
    BY DEF Stands
  <2>1. Quiet(r, k)
    BY <1>1, <1>2 DEF Quiet
  <2>2. QED
    BY <2>1, <1>4, <1>5 DEF Story, Stands, Waiting
<1>12. QED
  BY <1>8, <1>9, <1>10, <1>11 DEF Story

(* An event of a key: the level that was pending is the one believed now.   *)
LEMMA StoryBelieves ==
  ASSUME NEW r \in Seq(EdgeRecord), NEW s, SourceType(s), NEW p \in [Pins -> BOOLEAN],
         NEW t \in [Pins -> 0..OldAge], NEW m, Story(r, s, p, t, m), NEW k \in Pins, NEW u,
         u.pending = s.pending, u.change = s.change,
         u.believed = [s.believed EXCEPT ![k] = s.pending[k]]
  PROVE  Story(r, u, p, t, m)
<1>1. \A j \in Pins : Waiting(u, j) => Waiting(s, j)
  BY DEF Waiting, SourceType
<1>2. \A i \in 1..Len(r) : r[i].key \in Pins
  BY ElementOfSeq, EdgeFields
<1>3. StartsAt(r, u, m)
  BY <1>1, <1>2 DEF Story, StartsAt
<1>4. Stands(r, u, p, t, m)
  BY <1>1 DEF Story, Stands
<1>5. QED
  BY <1>3, <1>4 DEF Story

(* Finite sets of integers have a smallest element.                         *)
LEMMA SmallestOf ==
  ASSUME NEW S \in SUBSET Int, IsFiniteSet(S), S # {}
  PROVE  \E m \in S : \A e \in S : m <= e
<1> DEFINE HasMin(U) == \E m \in U : \A e \in U : m <= e
           Bad == {U \in FiniteSubsetsOf(S) : U # {} /\ ~HasMin(U)}
<1>1. SUFFICES ASSUME Bad # {} PROVE FALSE
  BY DEF FiniteSubsetsOf
<1>2. PICK U \in Bad : \A V \in Bad : <<V, U>> \notin StrictSubsetOrdering(S)
  <2>1. Bad \subseteq FiniteSubsetsOf(S)
    OBVIOUS
  <2> HIDE DEF Bad
  <2> QED BY <1>1, <2>1, FS_StrictSubsetOrderingWellFounded, WFMin
<1>3. PICK x \in U : TRUE
  OBVIOUS
<1> DEFINE V == U \ {x}
<1>4. V \in FiniteSubsetsOf(S)
  BY FS_RemoveElement DEF FiniteSubsetsOf
<1>5. <<V, U>> \in StrictSubsetOrdering(S)
  BY <1>3 DEF StrictSubsetOrdering, FiniteSubsetsOf
<1>6. V = {} \/ HasMin(V)
  BY <1>2, <1>4, <1>5
<1>7. U \subseteq Int
  BY DEF FiniteSubsetsOf
<1> QED BY <1>3, <1>6, <1>7

(* A change that is confirmed at the edge which leaves its level is real,   *)
(* and so is one that the sweep finds settled: what came into the ring in   *)
(* the meantime is no older than the time the sweep goes by.                *)
LEMMA ConfirmedIsReal ==
  ASSUME ButtonsTypeOK, NEW m, Story(ring, source, pin, stood, m), ring # <<>>,
         Confirmed(Head(ring)), Head(ring).key \notin m
  PROVE  Head(ring).stood >= Settle
<1>1. PICK e : e = Head(ring)
  OBVIOUS
<1>2. 1 \in 1..Len(ring) /\ e = ring[1] /\ e \in EdgeRecord
  BY <1>1, LenProperties, EmptySeq, HeadTailProperties, ElementOfSeq DEF ButtonsTypeOK
<1>3. e.key \in Pins /\ e.age \in Nat /\ e.stood \in Nat
  BY <1>2, EdgeFields
<1>4. IsFirst(ring, 1)
  BY DEF IsFirst
<1>5. e.stood + e.age >= source.change[e.key] /\ source.change[e.key] - e.age >= Settle
  BY <1>1, <1>2, <1>4 DEF Story, StartsAt, Waiting, Confirmed
<1>6. source.change[e.key] \in Nat /\ Settle \in Nat
  <2>1. source.change[e.key] \in 0..OldAge
    BY <1>3 DEF ButtonsTypeOK
  <2>2. QED
    BY <2>1, ButtonsConstants
<1>7. \A a, b, c, d \in Nat : a + b >= c /\ c - b >= d => a >= d
  OBVIOUS
<1>8. e.stood >= Settle
  <2>1. PICK a \in Nat, b \in Nat, c \in Nat : /\ a = e.stood /\ b = e.age
                                              /\ c = source.change[e.key]
    BY <1>3, <1>6
  <2>2. a + b >= c /\ c - b >= Settle
    BY <1>5, <2>1
  <2>3. QED
    BY <1>6, <1>7, <2>1, <2>2
<1>9. QED
  BY <1>1, <1>8

LEMMA SettledIsReal ==
  ASSUME ButtonsTypeOK, NEW m, Story(ring, source, pin, stood, m), Fresh(ring, check),
         check.at = "sweep", NEW k \in Pins, Settled(k), k \notin m
  PROVE  Real(k)
<1>1. /\ source.pending[k] # source.believed[k]
      /\ source.change[k] - check.lag >= Settle
      /\ source.change[k] \in Nat /\ check.lag \in Nat /\ Settle \in Nat /\ stood[k] \in Nat
  BY ButtonsConstants DEF ButtonsTypeOK, Point, Settled
<1>2. CASE Quiet(ring, k)
  <2>1. pin[k] = source.pending[k] /\ stood[k] >= source.change[k]
    BY <1>1, <1>2 DEF Story, Stands, Waiting
  <2>2. QED
    BY <2>1, <1>1 DEF Real
<1>3. CASE ~Quiet(ring, k)
  <2>1. PICK n \in Nat : n = Len(ring)
    BY LenProperties DEF ButtonsTypeOK
  <2>2. PICK i \in 1..n : ring[i].key = k /\ \A j \in 1..(i - 1) : ring[j].key # k
    <3>1. DEFINE S == {j \in 1..n : ring[j].key = k}
    <3>2. S \in SUBSET Int /\ S # {}
      BY <1>3, <2>1 DEF Quiet
    <3>6. IsFiniteSet(S)
      <4>1. IsFiniteSet(1..n) /\ S \subseteq 1..n
        BY <2>1, FS_Interval
      <4>2. QED
        BY <4>1, FS_Subset
    <3> HIDE DEF S
    <3>3. PICK i \in S : \A j \in S : i <= j
      BY <3>2, <3>6, SmallestOf
    <3> USE DEF S
    <3>4. i \in 1..n /\ ring[i].key = k /\ \A j \in 1..(i - 1) : ring[j].key # k
      BY <3>3, <2>1
    <3>5. QED
      BY <3>4
  <2>3. ring[i] \in EdgeRecord
    BY <2>1, ElementOfSeq DEF ButtonsTypeOK
  <2>4. ring[i].age \in Nat /\ ring[i].stood \in Nat
    BY <2>3, EdgeFields
  <2>5. IsFirst(ring, i)
    BY <2>2 DEF IsFirst
  <2>6. ring[i].stood + ring[i].age >= source.change[k] /\ ring[i].age <= check.lag
    BY <2>1, <2>2, <2>5, <1>1 DEF Story, StartsAt, Waiting, Fresh
  <2>7. ring[i].stood >= Settle
    BY <2>4, <2>6, <1>1
  <2>8. i \in DOMAIN ring
    BY <2>1, LenProperties DEF ButtonsTypeOK
  <2>9. QED
    BY <2>2, <2>7, <2>8 DEF Real
<1>4. QED
  BY <1>2, <1>3

-----------------------------------------------------------------------------
LEMMA ButtonsBegin == ButtonsInit => ButtonsInv
<1> SUFFICES ASSUME ButtonsInit PROVE ButtonsInv
  OBVIOUS
<1>1. pin \in [Pins -> BOOLEAN] /\ stood = [k \in Pins |-> 0] /\ ring = <<>>
  BY DEF ButtonsInit
<1>2. ring \in Seq(EdgeRecord) /\ Len(ring) = 0
  BY <1>1
<1>3. stood \in [Pins -> 0..OldAge]
  BY <1>1, ButtonsConstants
<1>4. source \in [dropped : BOOLEAN, believed : [Pins -> BOOLEAN], pending : [Pins -> BOOLEAN],
                  change : [Pins -> 0..OldAge], sweep : 1..(KeyCount + 1)]
  BY ButtonsConstants DEF ButtonsInit
<1>5. check \in Point /\ check.at = "sample" /\ check.key = 1 /\ 1 \in Pins
  BY ButtonsConstants DEF ButtonsInit, Point
<1>6. pressed \in [Pins -> BOOLEAN] /\ history \in Annals /\ ~history.phantom
  BY DEF ButtonsInit, Annals, Readings
<1>7. ButtonsTypeOK
  BY <1>1, <1>2, <1>3, <1>4, <1>5, <1>6 DEF ButtonsTypeOK
<1>8. Unsure(history, check) = Pins
  BY <1>5, ButtonsConstants DEF Unsure
<1>9. Story(ring, source, pin, stood, Pins)
  BY <1>2 DEF Story, StartsAt, Alternates, EndsAt, Stands
<1>10. ~source.dropped /\ Fresh(ring, check) /\ Recorded(ring, check)
  BY <1>2, <1>5 DEF Fresh, Recorded, ButtonsInit
<1>11. Steady(history, check, source, stood)
  <2>1. \A k \in Pins : stood[k] = 0 /\ source.change[k] = 0
    BY <1>1 DEF ButtonsInit
  <2>2. QED
    BY <2>1 DEF Steady
<1>12. QED
  BY <1>5, <1>6, <1>7, <1>8, <1>9, <1>10, <1>11 DEF ButtonsInv, NoBounce

LEMMA SamplePinKeeps == ASSUME ButtonsInv, SamplePin PROVE ButtonsInv'
<1>1. /\ ButtonsTypeOK /\ UNCHANGED <<pin, stood, ring, pressed, history>>
      /\ check.at = "sample"
  BY DEF ButtonsInv, SamplePin
<1>2. PICK k \in Pins : k = check.key
  BY <1>1 DEF ButtonsTypeOK
<1>3. source' = [source EXCEPT !.pending[k] = pin[k]]
  BY <1>2 DEF SamplePin
<1>4. SourceType(source) /\ pin \in [Pins -> BOOLEAN] /\ stood \in [Pins -> 0..OldAge]
  BY <1>1 DEF ButtonsTypeOK, SourceType
<1>5. PICK pending \in [Pins -> BOOLEAN] : pending = [source.pending EXCEPT ![k] = pin[k]]
  BY <1>4 DEF SourceType
<1>6. source' = [source EXCEPT !.pending = pending]
  BY <1>3, <1>5
<1>7. source' \in [dropped : BOOLEAN, believed : [Pins -> BOOLEAN], pending : [Pins -> BOOLEAN],
                   change : [Pins -> 0..OldAge], sweep : 1..(KeyCount + 1)]
  BY <1>6, <1>1 DEF ButtonsTypeOK
<1>8. /\ source'.pending = pending /\ source'.believed = source.believed
      /\ source'.change = source.change /\ source'.dropped = source.dropped
  BY <1>6, <1>1 DEF ButtonsTypeOK
<1>9. /\ check' \in Point /\ check'.key \in Pins
      /\ \/ k < KeyCount /\ check'.at = "sample" /\ check'.key = k + 1
         \/ k = KeyCount /\ check'.at = "install"
  <2>1. CASE k < KeyCount
    <3>1. k + 1 \in Pins /\ k + 1 \in 1..(KeyCount + 1)
      BY <2>1, ButtonsConstants
    <3>2. check' = [check EXCEPT !.key = k + 1]
      BY <2>1, <1>2 DEF SamplePin
    <3>3. QED
      BY <3>1, <3>2, <2>1, <1>1 DEF ButtonsTypeOK, Point
  <2>2. CASE ~(k < KeyCount)
    <3>1. k = KeyCount /\ 1 \in Pins /\ 1 \in 1..(KeyCount + 1)
      BY <2>2, ButtonsConstants
    <3>2. check' = [check EXCEPT !.at = "install", !.key = 1]
      BY <2>2, <1>2 DEF SamplePin
    <3>3. QED
      BY <3>1, <3>2, <1>1 DEF ButtonsTypeOK, Point
  <2>3. QED
    BY <2>1, <2>2
<1>10. ButtonsTypeOK'
  BY <1>1, <1>7, <1>9 DEF ButtonsTypeOK
<1>11. ring = <<>>
  <2>1. Len(ring) = 0
    BY <1>1, LenProperties DEF ButtonsInv, Recorded, ButtonsTypeOK
  <2>2. QED
    BY <2>1, <1>1, EmptySeq DEF ButtonsTypeOK
<1>12. Unsure(history, check) \ {k} \subseteq Unsure(history, check')
  BY <1>1, <1>2, <1>9, ButtonsConstants DEF Unsure
<1>13. k \notin Unsure(history, check') => stood[k] >= source.change[k]
  <2>1. history.reading[k] = "good" => stood[k] >= source.change[k]
    BY <1>1 DEF ButtonsInv, Steady
  <2>2. QED
    BY <2>1 DEF Unsure
<1>14. Story(ring, source, pin, stood, Unsure(history, check)) =>
         Story(ring', source', pin', stood', Unsure(history', check'))
  <2>1. PICK u : u = source'
    OBVIOUS
  <2>2. /\ u.pending = [source.pending EXCEPT ![k] = pin[k]] /\ u.believed = source.believed
        /\ u.change = source.change
    BY <2>1, <1>5, <1>8
  <2>3. PICK n : n = Unsure(history, check')
    OBVIOUS
  <2>4. Unsure(history, check) \ {k} \subseteq n /\ (k \notin n => stood[k] >= source.change[k])
    BY <2>3, <1>12, <1>13
  <2>5. Story(ring, source, pin, stood, Unsure(history, check)) => Story(ring, u, pin, stood, n)
    BY <2>2, <2>4, <1>4, <1>11, StorySample
  <2>6. QED
    BY <2>1, <2>3, <2>5, <1>1
<1>15. Fresh(ring', check') /\ Recorded(ring', check')
  <2>1. Len(ring') = 0
    BY <1>1, <1>11
  <2>2. QED
    BY <2>1 DEF Fresh, Recorded
<1>16. Steady(history', check', source', stood')
  BY <1>1, <1>8 DEF ButtonsInv, Steady
<1>17. QED
  BY <1>1, <1>8, <1>9, <1>10, <1>14, <1>15, <1>16 DEF ButtonsInv, NoBounce

LEMMA InstallIrqKeeps == ASSUME ButtonsInv, InstallIrq PROVE ButtonsInv'
<1>1. /\ ButtonsTypeOK /\ UNCHANGED <<pin, stood, ring, source, pressed, history>>
      /\ check.at = "install"
  BY DEF ButtonsInv, InstallIrq
<1>2. PICK k \in Pins : k = check.key
  BY <1>1 DEF ButtonsTypeOK
<1>3. /\ check' \in Point
      /\ \/ check'.at = "install" /\ check'.key = k + 1 /\ k + 1 \in Pins
         \/ check'.at = "idle"
  <2>1. CASE k < KeyCount
    <3>1. k + 1 \in Pins /\ k + 1 \in 1..(KeyCount + 1)
      BY <2>1, ButtonsConstants
    <3>2. check' = [check EXCEPT !.key = k + 1]
      BY <2>1, <1>2 DEF InstallIrq
    <3>3. QED
      BY <3>1, <3>2, <1>1 DEF ButtonsTypeOK, Point
  <2>2. CASE ~(k < KeyCount)
    <3>1. check' = [at |-> "idle", key |-> 1, lag |-> 0]
      BY <2>2, <1>2 DEF InstallIrq
    <3>2. QED
      BY <3>1, ButtonsConstants DEF Point
  <2>3. QED
    BY <2>1, <2>2
<1>4. ButtonsTypeOK'
  BY <1>1, <1>3 DEF ButtonsTypeOK
<1>5. Unsure(history', check') = Unsure(history, check)
  BY <1>1, <1>3 DEF Unsure
<1>6. Fresh(ring', check') /\ Steady(history', check', source', stood')
  BY <1>3 DEF Fresh, Steady
<1>7. Recorded(ring', check')
  <2>1. \A i \in 1..Len(ring) : ring[i].key \in Pins /\ ring[i].key < k
    BY <1>1, <1>2, ElementOfSeq, EdgeFields DEF ButtonsInv, Recorded, ButtonsTypeOK
  <2>2. \A i \in 1..Len(ring) : ring[i].key < k + 1
    BY <2>1, ButtonsConstants
  <2>3. QED
    BY <2>2, <1>1, <1>3 DEF Recorded
<1>8. Story(ring, source, pin, stood, Unsure(history, check)) =>
        Story(ring', source', pin', stood', Unsure(history', check'))
  BY <1>1, <1>5
<1>9. QED
  BY <1>1, <1>3, <1>4, <1>6, <1>7, <1>8 DEF ButtonsInv, NoBounce

(* The constructor is done: of what is unsure only the reading counts.      *)
LEMMA Running ==
  ASSUME NEW h, NEW c, c.at \notin {"sample", "install"}
  PROVE  /\ Unsure(h, c) = {k \in Pins : h.reading[k] # "good"}
         /\ \A r : Recorded(r, c)
         /\ \A s, t : Steady(h, c, s, t)
BY DEF Unsure, Recorded, Steady

LEMMA PollKeeps == ASSUME ButtonsInv, Poll PROVE ButtonsInv'
<1>1. check' \in Point /\ check'.at = "ring" /\ check.at = "idle"
  BY ButtonsConstants DEF Poll, Point
<1>2. UNCHANGED <<pin, stood, ring, source, pressed, history>> /\ ButtonsTypeOK
  BY DEF Poll, ButtonsInv
<1>3. ButtonsTypeOK'
  BY <1>1, <1>2 DEF ButtonsTypeOK
<1>4. /\ Unsure(history', check') = Unsure(history, check)
      /\ Recorded(ring', check') /\ Steady(history', check', source', stood')
  BY <1>1, <1>2, Running
<1>5. Story(ring, source, pin, stood, Unsure(history, check)) =>
        Story(ring', source', pin', stood', Unsure(history', check'))
  BY <1>2, <1>4
<1>6. Fresh(ring', check')
  BY <1>1 DEF Fresh
<1>7. QED
  BY <1>1, <1>2, <1>3, <1>4, <1>5, <1>6 DEF ButtonsInv, NoBounce

LEMMA EdgeKeeps == ASSUME ButtonsInv, NEW k \in Pins, Edge(k) PROVE ButtonsInv'
<1>1. /\ ButtonsTypeOK /\ pin' = [pin EXCEPT ![k] = ~@] /\ stood' = [stood EXCEPT ![k] = 0]
      /\ UNCHANGED <<check, pressed>>
  BY DEF ButtonsInv, Edge
<1>3. SourceType(source) /\ pin \in [Pins -> BOOLEAN] /\ stood \in [Pins -> 0..OldAge]
  BY <1>1 DEF ButtonsTypeOK, SourceType
<1>2. pin' \in [Pins -> BOOLEAN] /\ stood' \in [Pins -> 0..OldAge] /\ pin'[k] = ~pin[k]
  <2>1. 0 \in 0..OldAge
    BY ButtonsConstants
  <2>2. stood' \in [Pins -> 0..OldAge]
    BY <2>1, <1>1, <1>3
  <2>3. pin' \in [Pins -> BOOLEAN] /\ pin'[k] = ~pin[k]
    BY <1>1, <1>3
  <2>4. QED
    BY <2>2, <2>3
<1>4. history \in Annals /\ history.reading[k] \in Readings
  BY <1>1 DEF ButtonsTypeOK, Annals
<1>5. CASE ~Installed(k)
  <2>1. PICK reading \in {"stale", "doubtful"} :
          history' = [history EXCEPT !.edges = history.edges + 1, !.reading[k] = reading]
    BY <1>5 DEF Edge, MissEdge
  <2>2. ring' = ring /\ source' = source
    BY <1>5 DEF Edge, MissEdge
  <2>3. /\ history' \in Annals /\ history'.dropped = history.dropped
        /\ history'.phantom = history.phantom
        /\ history'.reading = [history.reading EXCEPT ![k] = reading]
    <3>1. reading \in Readings
      BY DEF Readings
    <3>2. PICK f \in [Pins -> Readings] : f = [history.reading EXCEPT ![k] = reading]
      BY <3>1, <1>4 DEF Annals
    <3>3. PICK n \in Nat : n = history.edges + 1
      BY <1>4 DEF Annals
    <3>4. history' = [history EXCEPT !.edges = n, !.reading = f]
      BY <3>2, <3>3, <2>1
    <3>5. history' \in Annals
      BY <3>4, <1>4 DEF Annals
    <3>6. /\ history'.dropped = history.dropped /\ history'.phantom = history.phantom
          /\ history'.reading = f
      BY <3>4, <3>5, <1>4 DEF Annals
    <3>7. QED
      BY <3>2, <3>5, <3>6
  <2>4. history'.reading[k] # "good" /\ \A j \in Pins : j # k =>
          history'.reading[j] = history.reading[j]
    BY <2>3, <1>4 DEF Annals
  <2>5. ButtonsTypeOK'
    BY <1>1, <1>2, <2>2, <2>3 DEF ButtonsTypeOK
  <2>6. k \in Unsure(history', check') /\ Unsure(history, check) \subseteq Unsure(history', check')
    BY <2>4, <1>1 DEF Unsure
  <2>7. Quiet(ring, k)
    BY <1>5 DEF ButtonsInv, Recorded, Installed, Quiet
  <2>8. Story(ring, source, pin, stood, Unsure(history, check)) =>
          Story(ring', source', pin', stood', Unsure(history', check'))
    <3>1. ring \in Seq(EdgeRecord)
      BY <1>1 DEF ButtonsTypeOK
    <3>2. PICK n : n = Unsure(history', check')
      OBVIOUS
    <3>3. Story(ring, source, pin, stood, Unsure(history, check)) =>
            Story(ring, source, pin', stood', n)
      BY <3>1, <3>2, <2>6, <2>7, <1>1, <1>3, StoryMiss
    <3>4. QED
      BY <3>2, <3>3, <2>2
  <2>9. Steady(history', check', source', stood')
    <3>1. \A j \in Pins : j # k => stood'[j] = stood[j]
      BY <1>1, <1>3
    <3>2. QED
      BY <3>1, <2>2, <2>4, <1>1 DEF ButtonsInv, Steady
  <2>10. QED
    BY <1>1, <2>2, <2>3, <2>5, <2>8, <2>9 DEF ButtonsInv, NoBounce
<1>6. CASE Installed(k)
  <2>1. check.at # "sample" /\ check'.at # "sample" /\ (check.at = "install" => k < check.key)
    BY <1>1, <1>6 DEF Installed
  <2>2. PICK reading \in Readings : reading = Heard(k)
    BY <1>4 DEF Heard, Readings
  <2>3. reading = "good" <=> history.reading[k] = "good"
    BY <2>2 DEF Heard
  <2>4. PICK h : h = [history EXCEPT !.edges = history.edges + 1, !.reading[k] = reading]
    OBVIOUS
  <2>5. /\ h \in Annals /\ h.dropped = history.dropped /\ h.phantom = history.phantom
        /\ h.reading = [history.reading EXCEPT ![k] = reading]
    <3>1. PICK f \in [Pins -> Readings] : f = [history.reading EXCEPT ![k] = reading]
      BY <1>4 DEF Annals
    <3>2. PICK n \in Nat : n = history.edges + 1
      BY <1>4 DEF Annals
    <3>3. h = [history EXCEPT !.edges = n, !.reading = f]
      BY <3>1, <3>2, <2>4
    <3>4. h \in Annals
      BY <3>3, <1>4 DEF Annals
    <3>5. h.dropped = history.dropped /\ h.phantom = history.phantom /\ h.reading = f
      BY <3>3, <3>4, <1>4 DEF Annals
    <3>6. QED
      BY <3>1, <3>4, <3>5
  <2>6. Unsure(h, check) = Unsure(history, check)
    <3>1. \A j \in Pins : h.reading[j] # "good" <=> history.reading[j] # "good"
      BY <2>3, <2>5, <1>4 DEF Annals
    <3>2. QED
      BY <3>1 DEF Unsure
  <2>7. Steady(history', check', source', stood')
    BY <2>1 DEF Steady
  <2>8. CASE Full
    <3>1. /\ source' = [source EXCEPT !.dropped = TRUE] /\ ring' = ring
          /\ history' = [h EXCEPT !.dropped = TRUE]
      BY <2>2, <2>4, <2>8, <1>6 DEF Edge, CaptureEdge
    <3>2. history' \in Annals /\ history'.dropped
      BY <3>1, <2>5 DEF Annals
    <3>3. source' \in [dropped : BOOLEAN, believed : [Pins -> BOOLEAN],
                       pending : [Pins -> BOOLEAN], change : [Pins -> 0..OldAge],
                       sweep : 1..(KeyCount + 1)]
      BY <3>1, <1>1 DEF ButtonsTypeOK
    <3>4. ButtonsTypeOK'
      BY <1>1, <1>2, <3>1, <3>2, <3>3 DEF ButtonsTypeOK
    <3>5. QED
      BY <1>1, <2>7, <3>1, <3>2, <3>4 DEF ButtonsInv, NoBounce
  <2>9. CASE ~Full
    <3> DEFINE e == [key |-> k, level |-> pin'[k], age |-> 0, stood |-> stood[k]]
    <3>1. source' = source /\ ring' = Append(ring, e) /\ history' = h
      BY <2>2, <2>4, <2>9, <1>6 DEF Edge, CaptureEdge
    <3>2. e \in EdgeRecord
      BY <1>2, <1>3, ButtonsConstants DEF EdgeRecord
    <3>3. e.key = k /\ e.level = ~pin[k] /\ e.age = 0 /\ e.stood = stood[k]
      BY <1>2
    <3> HIDE DEF e
    <3>4. ring \in Seq(EdgeRecord) /\ ring' \in Seq(EdgeRecord)
      BY <3>1, <3>2, <1>1, AppendProperties DEF ButtonsTypeOK
    <3>5. ButtonsTypeOK'
      BY <1>1, <1>2, <2>5, <3>1, <3>4 DEF ButtonsTypeOK
    <3>6. Story(ring, source, pin, stood, Unsure(history, check)) =>
            Story(ring', source', pin', stood', Unsure(history', check'))
      <4>1. Story(ring, source, pin, stood, Unsure(history, check)) =>
              Story(ring', source, pin', stood', Unsure(history, check))
        BY <1>1, <1>3, <3>1, <3>2, <3>3, <3>4, StoryAppend
      <4>2. Unsure(history', check') = Unsure(history, check)
        BY <2>6, <3>1, <1>1
      <4>3. QED
        BY <4>1, <4>2, <3>1
    <3>7. /\ Len(ring') = Len(ring) + 1 /\ Len(ring) \in Nat
          /\ \A i \in 1..Len(ring) : ring'[i] = ring[i]
          /\ ring'[Len(ring) + 1].age = 0 /\ ring'[Len(ring) + 1].key = k
          /\ check.lag \in 0..MaxLag /\ check' = check
      BY <1>1, <3>1, <3>2, <3>3, <3>4, AppendProperties, LenProperties DEF ButtonsTypeOK, Point
    <3>8. Fresh(ring, check) => Fresh(ring', check')
      BY <3>7 DEF Fresh
    <3>9. Recorded(ring', check')
      BY <3>7, <2>1 DEF ButtonsInv, Recorded
    <3>10. QED
      BY <1>1, <2>5, <2>7, <3>1, <3>5, <3>6, <3>8, <3>9 DEF ButtonsInv, NoBounce
  <2>10. QED
    BY <2>8, <2>9
<1>7. QED
  BY <1>5, <1>6

LEMMA ElapseKeeps == ASSUME ButtonsInv, ButtonsElapse PROVE ButtonsInv'
<1>1. /\ ButtonsTypeOK /\ stood' = OlderAll(stood)
      /\ ring' = [i \in DOMAIN ring |-> [ring[i] EXCEPT !.age = Older(@)]]
      /\ source' = [source EXCEPT !.change = OlderAll(@)]
      /\ check' = [check EXCEPT !.lag = IF check.at = "idle" THEN 0 ELSE @ + 1]
      /\ UNCHANGED <<pin, pressed, history>>
      /\ \A i \in DOMAIN ring : ring[i].age < MaxLag
      /\ check.at # "idle" => check.lag < MaxLag
  BY DEF ButtonsInv, ButtonsElapse
<1>2. ring \in Seq(EdgeRecord) /\ DOMAIN ring = 1..Len(ring) /\ Len(ring) \in Nat
  BY <1>1, LenProperties DEF ButtonsTypeOK
<1>3. \A i \in 1..Len(ring) :
        /\ ring[i] \in EdgeRecord /\ ring[i].age \in Nat /\ ring[i].age < MaxLag
  BY <1>1, <1>2, ElementOfSeq, EdgeFields
<1>4. \A i \in 1..Len(ring) : Older(ring[i].age) = ring[i].age + 1
  BY <1>3, ButtonsConstants DEF Older
<1>5. \A i \in 1..Len(ring) : [ring[i] EXCEPT !.age = ring[i].age + 1] \in EdgeRecord
  <2> SUFFICES ASSUME NEW i \in 1..Len(ring)
               PROVE  [ring[i] EXCEPT !.age = ring[i].age + 1] \in EdgeRecord
    OBVIOUS
  <2>1. ring[i] \in EdgeRecord /\ ring[i].age + 1 \in 0..MaxLag
    BY <1>3, ButtonsConstants
  <2>2. QED
    BY <2>1 DEF EdgeRecord
<1>6. ring' = [i \in 1..Len(ring) |-> [ring[i] EXCEPT !.age = ring[i].age + 1]]
  BY <1>1, <1>2, <1>4
<1>7. ring' \in Seq(EdgeRecord) /\ Len(ring') = Len(ring)
  <2>1. ring' \in [1..Len(ring) -> EdgeRecord]
    BY <1>5, <1>6
  <2>2. QED
    BY <2>1, <1>2, IsASeq, LenProperties
<1>8. \A i \in 1..Len(ring) :
        /\ ring'[i].key = ring[i].key /\ ring'[i].level = ring[i].level
        /\ ring'[i].stood = ring[i].stood /\ ring'[i].age = ring[i].age + 1
  <2> SUFFICES ASSUME NEW i \in 1..Len(ring)
               PROVE  /\ ring'[i].key = ring[i].key /\ ring'[i].level = ring[i].level
                      /\ ring'[i].stood = ring[i].stood /\ ring'[i].age = ring[i].age + 1
    OBVIOUS
  <2>1. ring[i] \in EdgeRecord /\ ring'[i] = [ring[i] EXCEPT !.age = ring[i].age + 1]
    BY <1>3, <1>6
  <2>2. QED
    BY <2>1 DEF EdgeRecord
<1>9. \A f \in [Pins -> 0..OldAge] : OlderAll(f) \in [Pins -> 0..OldAge]
  BY ButtonsConstants DEF OlderAll, Older
<1>10. SourceType(source) /\ pin \in [Pins -> BOOLEAN] /\ stood \in [Pins -> 0..OldAge]
  BY <1>1 DEF ButtonsTypeOK, SourceType
<1>11. /\ source' \in [dropped : BOOLEAN, believed : [Pins -> BOOLEAN],
                       pending : [Pins -> BOOLEAN], change : [Pins -> 0..OldAge],
                       sweep : 1..(KeyCount + 1)]
       /\ source'.pending = source.pending /\ source'.believed = source.believed
       /\ source'.change = OlderAll(source.change) /\ source'.dropped = source.dropped
  BY <1>1, <1>9, <1>10 DEF ButtonsTypeOK, SourceType
<1>12. /\ check' \in Point
       /\ check'.at = check.at /\ check'.key = check.key
       /\ check.at # "idle" => check'.lag = check.lag + 1 /\ check.lag \in Nat
  <2>1. PICK lag : lag = IF check.at = "idle" THEN 0 ELSE check.lag + 1
    OBVIOUS
  <2>2. check.lag \in Nat /\ lag \in 0..MaxLag
    BY <2>1, <1>1, ButtonsConstants DEF ButtonsTypeOK, Point
  <2>3. check' = [check EXCEPT !.lag = lag]
    BY <2>1, <1>1
  <2>4. check' \in Point
    BY <2>2, <2>3, <1>1 DEF ButtonsTypeOK, Point
  <2>5. check'.at = check.at /\ check'.key = check.key /\ check'.lag = lag
    BY <2>3, <1>1 DEF ButtonsTypeOK, Point
  <2>6. QED
    BY <2>1, <2>2, <2>4, <2>5
<1>13. ButtonsTypeOK'
  BY <1>1, <1>7, <1>9, <1>10, <1>11, <1>12 DEF ButtonsTypeOK
<1>14. Unsure(history', check') = Unsure(history, check)
  BY <1>1, <1>12 DEF Unsure
<1>15. Story(ring, source, pin, stood, Unsure(history, check)) =>
         Story(ring', source', pin', stood', Unsure(history', check'))
  <2>1. PICK q : q = ring'
    OBVIOUS
  <2>2. PICK u : u = source'
    OBVIOUS
  <2>3. q \in Seq(EdgeRecord) /\ Len(q) = Len(ring)
    BY <2>1, <1>7
  <2>4. \A i \in 1..Len(ring) :
          /\ q[i].key = ring[i].key /\ q[i].level = ring[i].level
          /\ q[i].stood = ring[i].stood /\ q[i].age = ring[i].age + 1
    BY <2>1, <1>8
  <2>5. /\ u.pending = source.pending /\ u.believed = source.believed
        /\ u.change = OlderAll(source.change)
    BY <2>2, <1>11
  <2>6. ring \in Seq(EdgeRecord) /\ \A i \in 1..Len(ring) : ring[i].age < MaxLag
    BY <1>2, <1>3
  <2>7. Story(ring, source, pin, stood, Unsure(history, check)) =>
          Story(q, u, pin, OlderAll(stood), Unsure(history, check))
    BY <2>3, <2>4, <2>5, <2>6, <1>10, StoryElapse
  <2>8. QED
    BY <2>1, <2>2, <2>7, <1>1, <1>14
<1>16. Fresh(ring, check) => Fresh(ring', check')
  BY <1>3, <1>7, <1>8, <1>12 DEF Fresh
<1>17. Recorded(ring', check')
  BY <1>7, <1>8, <1>12 DEF ButtonsInv, Recorded
<1>18. Steady(history', check', source', stood')
  <2>1. \A a, b \in 0..OldAge : a >= b => Older(a) >= Older(b)
    BY ButtonsConstants DEF Older
  <2>2. \A k \in Pins : /\ stood'[k] = Older(stood[k])
                        /\ source'.change[k] = Older(source.change[k])
    BY <1>1, <1>10, <1>11 DEF OlderAll, SourceType
  <2>3. \A k \in Pins : stood[k] >= source.change[k] => stood'[k] >= source'.change[k]
    BY <2>1, <2>2, <1>10 DEF SourceType
  <2>4. QED
    BY <2>3, <1>1, <1>12 DEF ButtonsInv, Steady
<1>19. QED
  BY <1>1, <1>11, <1>12, <1>13, <1>15, <1>16, <1>17, <1>18 DEF ButtonsInv, NoBounce

(* An event, and what is known of its key from then on.                     *)
LEMMA EventKept ==
  ASSUME ButtonsTypeOK, NEW k \in Pins, NEW level \in BOOLEAN, NEW real \in BOOLEAN,
         NEW reading \in Readings, Event(k, level, real, reading)
  PROVE  /\ pressed' \in [Pins -> BOOLEAN] /\ history' \in Annals
         /\ history'.dropped = history.dropped
         /\ history'.reading = [history.reading EXCEPT ![k] = reading]
         /\ history.reading[k] # "good" \/ real => (history'.phantom <=> history.phantom)
<1>1. history \in Annals /\ pressed \in [Pins -> BOOLEAN]
  BY DEF ButtonsTypeOK
<1>2. PICK f \in [Pins -> Readings] : f = [history.reading EXCEPT ![k] = reading]
  BY <1>1 DEF Annals
<1>3. PICK b \in BOOLEAN : b <=> (history.phantom \/ (history.reading[k] = "good" /\ ~real))
  OBVIOUS
<1>4. history.phantom \in BOOLEAN
  BY <1>1 DEF Annals
<1>5. history' = [history EXCEPT !.phantom = b, !.reading = f]
  BY <1>2, <1>3, <1>4 DEF Event
<1>6. history' \in Annals
  BY <1>5, <1>1 DEF Annals
<1>7. history'.dropped = history.dropped /\ history'.phantom = b /\ history'.reading = f
  BY <1>5, <1>6, <1>1 DEF Annals
<1>8. pressed' \in [Pins -> BOOLEAN]
  BY <1>1 DEF Event
<1>9. QED
  BY <1>2, <1>3, <1>6, <1>7, <1>8

LEMMA ReadingKept ==
  ASSUME ButtonsTypeOK, NEW k \in Pins, history' = [history EXCEPT !.reading[k] = "good"]
  PROVE  /\ history' \in Annals /\ history'.dropped = history.dropped
         /\ history'.phantom = history.phantom
         /\ history'.reading = [history.reading EXCEPT ![k] = "good"]
<1>1. history \in Annals
  BY DEF ButtonsTypeOK
<1>2. PICK f \in [Pins -> Readings] : f = [history.reading EXCEPT ![k] = "good"]
  BY <1>1 DEF Annals, Readings
<1>3. history' = [history EXCEPT !.reading = f]
  BY <1>2
<1>4. history' \in Annals
  BY <1>3, <1>1 DEF Annals
<1>5. QED
  BY <1>1, <1>2, <1>3, <1>4 DEF Annals

(* A key whose reading is good is no longer unsure.                         *)
LEMMA Sureness ==
  ASSUME NEW h \in Annals, NEW g, NEW k \in Pins, g.reading = [h.reading EXCEPT ![k] = "good"],
         NEW c, c.at \notin {"sample", "install"}, NEW m \in SUBSET Pins,
         \A j \in Pins : j \in m <=> h.reading[j] # "good"
  PROVE  Unsure(g, c) = m \ {k}
<1>1. \A j \in Pins : g.reading[j] = IF j = k THEN "good" ELSE h.reading[j]
  BY DEF Annals
<1>2. QED
  BY <1>1 DEF Unsure

LEMMA TakeEdgeKeeps == ASSUME ButtonsInv, TakeEdge PROVE ButtonsInv'
<1>1. ButtonsTypeOK /\ ring # <<>> /\ ring' = Tail(ring) /\ UNCHANGED <<pin, stood, check>>
      /\ check.at = "ring"
  BY DEF ButtonsInv, TakeEdge
<1>2. PICK e : e = Head(ring)
  OBVIOUS
<1>3. e = ring[1] /\ e \in EdgeRecord /\ ring' \in Seq(EdgeRecord)
  <2>1. 1 \in 1..Len(ring) /\ e = ring[1] /\ ring' \in Seq(EdgeRecord)
    BY <1>1, <1>2, LenProperties, EmptySeq, HeadTailProperties DEF ButtonsTypeOK
  <2>2. QED
    BY <2>1, <1>1, ElementOfSeq DEF ButtonsTypeOK
<1>4. PICK k \in Pins : k = e.key
  BY <1>3, EdgeFields
<1>5. SourceType(source) /\ pin \in [Pins -> BOOLEAN] /\ stood \in [Pins -> 0..OldAge]
  BY <1>1 DEF ButtonsTypeOK, SourceType
<1>6. PICK departed \in BOOLEAN : departed = source.pending[k]
  BY <1>5 DEF SourceType
<1>7. e.level \in BOOLEAN /\ e.age \in 0..OldAge
  BY <1>3, EdgeFields, ButtonsConstants
<1>8. PICK m : m = Unsure(history, check)
  OBVIOUS
<1>9. /\ Fresh(ring', check') /\ m \in SUBSET Pins /\ check'.at = "ring" /\ history \in Annals
      /\ \A j \in Pins : j \in m <=> history.reading[j] # "good"
      /\ Recorded(ring', check') /\ Steady(history', check', source', stood')
  <2>1. Recorded(ring', check') /\ Steady(history', check', source', stood')
    BY <1>1, Running
  <2>2. m \in SUBSET Pins /\ \A j \in Pins : j \in m <=> history.reading[j] # "good"
    BY <1>1, <1>8 DEF Unsure
  <2>3. QED
    BY <2>1, <2>2, <1>1 DEF Fresh, ButtonsTypeOK
<1>10. CASE e.level = departed
  <2>1. UNCHANGED <<source, pressed, history>>
    BY <1>2, <1>4, <1>6, <1>10 DEF TakeEdge, NoEvent
  <2>2. ButtonsTypeOK'
    BY <2>1, <1>1, <1>3 DEF ButtonsTypeOK
  <2>3. Unsure(history', check') = m
    BY <2>1, <1>1, <1>8 DEF Unsure
  <2>4. Story(ring, source, pin, stood, m) => Story(ring', source', pin', stood', m)
    <3>1. SUFFICES ASSUME Story(ring, source, pin, stood, m)
                   PROVE  Story(ring', source, pin, stood, m)
      BY <2>1, <1>1
    <3>2. IsFirst(ring, 1) /\ 1 \in 1..Len(ring) /\ ring \in Seq(EdgeRecord)
      BY <1>1, LenProperties, EmptySeq DEF IsFirst, ButtonsTypeOK
    <3>3. k \in m
      BY <3>1, <3>2, <1>3, <1>4, <1>6, <1>10 DEF Story, StartsAt
    <3>4. SameBut(source, source, k) /\ m \ {k} \subseteq m
      BY DEF SameBut
    <3>5. QED
      BY <3>1, <3>2, <3>3, <3>4, <1>1, <1>3, <1>4, <1>5, StoryTail
  <2>5. QED
    BY <2>1, <2>2, <2>3, <2>4, <1>1, <1>8, <1>9 DEF ButtonsInv, NoBounce
<1>11. CASE e.level # departed /\ Confirmed(e)
  <2>1. /\ source' = [source EXCEPT !.pending[k] = e.level, !.believed[k] = departed,
                                  !.change[k] = e.age]
        /\ Event(k, departed, e.stood >= Settle, "good")
    BY <1>2, <1>4, <1>6, <1>11 DEF TakeEdge
  <2>2. PICK pending : pending = [source.pending EXCEPT ![k] = e.level]
    OBVIOUS
  <2>3. PICK believed : believed = [source.believed EXCEPT ![k] = departed]
    OBVIOUS
  <2>4. PICK change : change = [source.change EXCEPT ![k] = e.age]
    OBVIOUS
  <2>5. pending \in [Pins -> BOOLEAN]
    BY <2>2, <1>5, <1>7 DEF SourceType
  <2>6. believed \in [Pins -> BOOLEAN]
    BY <2>3, <1>5, <1>6 DEF SourceType
  <2>7. change \in [Pins -> 0..OldAge]
    BY <2>4, <1>5, <1>7 DEF SourceType
  <2>8. source' = [source EXCEPT !.pending = pending, !.believed = believed, !.change = change]
    BY <2>1, <2>2, <2>3, <2>4
  <2>9. source' \in [dropped : BOOLEAN, believed : [Pins -> BOOLEAN],
                      pending : [Pins -> BOOLEAN], change : [Pins -> 0..OldAge],
                      sweep : 1..(KeyCount + 1)]
    BY <2>5, <2>6, <2>7, <2>8, <1>1 DEF ButtonsTypeOK
  <2>10. /\ source'.pending = pending /\ source'.believed = believed
         /\ source'.change = change /\ source'.dropped = source.dropped
    BY <2>8, <1>1 DEF ButtonsTypeOK
  <2>11. PICK real \in BOOLEAN : real <=> (e.stood >= Settle)
    OBVIOUS
  <2>12. Event(k, departed, real, "good")
    BY <2>1, <2>11 DEF Event
  <2>13. /\ pressed' \in [Pins -> BOOLEAN] /\ history' \in Annals
         /\ history'.dropped = history.dropped
         /\ history'.reading = [history.reading EXCEPT ![k] = "good"]
         /\ history.reading[k] # "good" \/ real => (history'.phantom <=> history.phantom)
    BY <2>12, <1>1, <1>6, EventKept DEF Readings
  <2>14. Story(ring, source, pin, stood, m) => history.reading[k] # "good" \/ real
    <3>1. Story(ring, source, pin, stood, m) /\ k \notin m => e.stood >= Settle
      BY <1>1, <1>2, <1>4, <1>11, ConfirmedIsReal
    <3>2. QED
      BY <3>1, <2>11, <1>9
  <2>15. ButtonsTypeOK'
    BY <2>9, <2>13, <1>1, <1>3 DEF ButtonsTypeOK
  <2>16. Unsure(history', check') = m \ {k}
    BY <2>13, <1>1, <1>9, Sureness
  <2>17. Story(ring, source, pin, stood, m) => Story(ring', source', pin, stood, m \ {k})
    <3>1. PICK u : u = source'
      OBVIOUS
    <3>2. SourceType(u) /\ u.pending = pending /\ u.believed = believed /\ u.change = change
      BY <3>1, <2>9, <2>10 DEF SourceType
    <3>3. u.pending[k] = ring[1].level /\ u.change[k] = ring[1].age /\ k = ring[1].key
      BY <3>2, <2>2, <2>4, <1>3, <1>4, <1>5 DEF SourceType
    <3>4. SameBut(u, source, k)
      BY <3>2, <2>2, <2>3, <2>4, <1>5 DEF SourceType, SameBut
    <3>5. ring \in Seq(EdgeRecord) /\ ring # <<>>
      BY <1>1 DEF ButtonsTypeOK
    <3>6. PICK n : n = m \ {k}
      OBVIOUS
    <3>7. m \ {k} \subseteq n
      BY <3>6
    <3>8. k \notin n => Follows(u, k, ring[1])
      BY <3>3 DEF Follows
    <3>9. SUFFICES ASSUME Story(ring, source, pin, stood, m)
                   PROVE  Story(Tail(ring), u, pin, stood, n)
      BY <3>1, <3>6, <1>1
    <3>10. SourceType(u) /\ k = ring[1].key
      BY <3>2, <3>3
    <3>11. QED
      BY <3>4, <3>5, <3>7, <3>8, <3>9, <3>10, <1>5, StoryTail
  <2>18. QED
    BY <2>16, <2>10, <2>13, <2>14, <2>15, <2>17, <1>1, <1>8, <1>9 DEF ButtonsInv, NoBounce
<1>12. CASE e.level # departed /\ ~Confirmed(e)
  <2>1. /\ source' = [source EXCEPT !.pending[k] = e.level,
                      !.change[k] = IF e.level # source.believed[k] THEN e.age ELSE @]
        /\ UNCHANGED pressed /\ history' = [history EXCEPT !.reading[k] = "good"]
    BY <1>2, <1>4, <1>6, <1>12 DEF TakeEdge
  <2>2. PICK age : age = IF e.level # source.believed[k] THEN e.age ELSE source.change[k]
    OBVIOUS
  <2>3. PICK pending : pending = [source.pending EXCEPT ![k] = e.level]
    OBVIOUS
  <2>4. PICK change : change = [source.change EXCEPT ![k] = age]
    OBVIOUS
  <2>5. pending \in [Pins -> BOOLEAN]
    BY <2>3, <1>5, <1>7 DEF SourceType
  <2>6. age \in 0..OldAge
    BY <2>2, <1>5, <1>7 DEF SourceType
  <2>7. change \in [Pins -> 0..OldAge]
    BY <2>4, <2>6, <1>5 DEF SourceType
  <2>8. source' = [source EXCEPT !.pending = pending, !.change = change]
    BY <2>1, <2>2, <2>3, <2>4
  <2>9. source' \in [dropped : BOOLEAN, believed : [Pins -> BOOLEAN],
                      pending : [Pins -> BOOLEAN], change : [Pins -> 0..OldAge],
                      sweep : 1..(KeyCount + 1)]
    BY <2>5, <2>7, <2>8, <1>1 DEF ButtonsTypeOK
  <2>10. /\ source'.pending = pending /\ source'.believed = source.believed
         /\ source'.change = change /\ source'.dropped = source.dropped
    BY <2>8, <1>1 DEF ButtonsTypeOK
  <2>11. /\ history' \in Annals /\ history'.dropped = history.dropped
         /\ history'.phantom = history.phantom
         /\ history'.reading = [history.reading EXCEPT ![k] = "good"]
    BY <2>1, <1>1, ReadingKept
  <2>12. ButtonsTypeOK'
    BY <2>1, <2>9, <2>11, <1>1, <1>3 DEF ButtonsTypeOK
  <2>13. Unsure(history', check') = m \ {k}
    BY <2>11, <1>1, <1>9, Sureness
  <2>14. Story(ring, source, pin, stood, m) => Story(ring', source', pin, stood, m \ {k})
    <3>1. PICK u : u = source'
      OBVIOUS
    <3>2. /\ SourceType(u) /\ u.pending = pending /\ u.believed = source.believed
          /\ u.change = change
      BY <3>1, <2>9, <2>10 DEF SourceType
    <3>3. u.pending[k] = ring[1].level /\ u.change[k] = age /\ k = ring[1].key
      BY <3>2, <2>3, <2>4, <1>3, <1>4, <1>5 DEF SourceType
    <3>4. SameBut(u, source, k)
      BY <3>2, <2>3, <2>4, <1>5 DEF SourceType, SameBut
    <3>5. ring \in Seq(EdgeRecord) /\ ring # <<>>
      BY <1>1 DEF ButtonsTypeOK
    <3>6. PICK n : n = m \ {k}
      OBVIOUS
    <3>7. m \ {k} \subseteq n
      BY <3>6
    <3>8. k \notin n => Follows(u, k, ring[1])
      BY <3>2, <3>3, <2>2, <1>3 DEF Follows, Waiting
    <3>9. SUFFICES ASSUME Story(ring, source, pin, stood, m)
                   PROVE  Story(Tail(ring), u, pin, stood, n)
      BY <3>1, <3>6, <1>1
    <3>10. SourceType(u) /\ k = ring[1].key
      BY <3>2, <3>3
    <3>11. QED
      BY <3>4, <3>5, <3>7, <3>8, <3>9, <3>10, <1>5, StoryTail
  <2>15. QED
    BY <2>1, <2>10, <2>11, <2>14, <2>12, <2>13, <1>1, <1>8, <1>9 DEF ButtonsInv, NoBounce
<1>13. QED
  BY <1>10, <1>11, <1>12

LEMMA EndRingKeeps == ASSUME ButtonsInv, EndRing PROVE ButtonsInv'
<1>1. /\ ButtonsTypeOK /\ ring = <<>> /\ check.at = "ring" /\ UNCHANGED <<pin, stood, ring, pressed, history>>
      /\ source' = [source EXCEPT !.dropped = FALSE]
  BY DEF ButtonsInv, EndRing, RingEmpty, NoEvent
<1>2. PICK at \in {"resample", "sweep"} : at = IF source.dropped THEN "resample" ELSE "sweep"
  OBVIOUS
<1>3. PICK key : key = IF source.dropped THEN 1 ELSE source.sweep
  OBVIOUS
<1>4. key \in 1..(KeyCount + 1) /\ (at = "resample" => key \in Pins)
  BY <1>1, <1>2, <1>3, ButtonsConstants DEF ButtonsTypeOK
<1>5. check' = [check EXCEPT !.at = at, !.key = key]
  BY <1>2, <1>3 DEF EndRing, RingEmpty
<1>6. check' \in Point
  BY <1>1, <1>4, <1>5 DEF ButtonsTypeOK, Point
<1>7. check'.at = at /\ check'.key = key
  BY <1>1, <1>5 DEF ButtonsTypeOK, Point
<1>8. source' \in [dropped : BOOLEAN, believed : [Pins -> BOOLEAN],
                   pending : [Pins -> BOOLEAN], change : [Pins -> 0..OldAge],
                   sweep : 1..(KeyCount + 1)]
  BY <1>1 DEF ButtonsTypeOK
<1>9. /\ source'.pending = source.pending /\ source'.believed = source.believed
      /\ source'.change = source.change /\ source'.dropped = FALSE
  BY <1>1 DEF ButtonsTypeOK
<1>10. ButtonsTypeOK'
  BY <1>1, <1>4, <1>6, <1>7, <1>8 DEF ButtonsTypeOK
<1>11. at = "resample" => history.dropped
  BY <1>2 DEF ButtonsInv
<1>12. Fresh(ring', check')
  BY <1>1 DEF Fresh
<1>13. /\ Unsure(history', check') = Unsure(history, check)
       /\ Recorded(ring', check') /\ Steady(history', check', source', stood')
  BY <1>1, <1>2, <1>7, Running
<1>14. Story(ring, source, pin, stood, Unsure(history, check)) =>
         Story(ring', source', pin', stood', Unsure(history', check'))
  BY <1>1, <1>9, <1>13 DEF Story, StartsAt, Alternates, EndsAt, Stands, IsFirst, IsNext, IsLast,
     Quiet, Waiting
<1>15. QED
  BY <1>1, <1>7, <1>9, <1>10, <1>11, <1>12, <1>13, <1>14 DEF ButtonsInv, NoBounce

LEMMA ResampleKeeps == ASSUME ButtonsInv, Resample PROVE ButtonsInv'
<1>1. /\ ButtonsTypeOK /\ UNCHANGED <<pin, stood, ring, pressed>>
      /\ check.at = "resample" /\ history.dropped
  BY DEF ButtonsInv, Resample
<1>2. PICK k \in Pins : k = check.key
  BY <1>1 DEF ButtonsTypeOK
<1>3. source' \in [dropped : BOOLEAN, believed : [Pins -> BOOLEAN],
                   pending : [Pins -> BOOLEAN], change : [Pins -> 0..OldAge],
                   sweep : 1..(KeyCount + 1)] /\ source'.dropped = source.dropped
  <2>1. CASE pin[k] = source.pending[k]
    BY <2>1, <1>1, <1>2 DEF Resample, ButtonsTypeOK
  <2>2. CASE pin[k] # source.pending[k]
    <3>1. PICK age : age = IF pin[k] # source.believed[k] THEN check.lag ELSE source.change[k]
      OBVIOUS
    <3>2. age \in 0..OldAge
      <4>1. check.lag \in 0..OldAge
        BY <1>1, ButtonsConstants DEF ButtonsTypeOK, Point
      <4>2. source.change[k] \in 0..OldAge
        BY <1>1 DEF ButtonsTypeOK
      <4>3. QED
        BY <4>1, <4>2, <3>1
    <3>3. PICK pending : pending = [source.pending EXCEPT ![k] = pin[k]]
      OBVIOUS
    <3>4. PICK change : change = [source.change EXCEPT ![k] = age]
      OBVIOUS
    <3>5. pending \in [Pins -> BOOLEAN] /\ change \in [Pins -> 0..OldAge]
      BY <3>2, <3>3, <3>4, <1>1 DEF ButtonsTypeOK
    <3>6. source' = [source EXCEPT !.pending = pending, !.change = change]
      BY <3>1, <3>3, <3>4, <2>2, <1>2 DEF Resample
    <3>7. QED
      BY <3>5, <3>6, <1>1 DEF ButtonsTypeOK
  <2>3. QED
    BY <2>1, <2>2
<1>4. /\ check' \in Point /\ check'.at \in {"resample", "sweep"}
      /\ check'.at = "resample" => check'.key \in Pins
  <2>1. CASE k < KeyCount
    <3>1. k + 1 \in Pins /\ k + 1 \in 1..(KeyCount + 1)
      BY <2>1, ButtonsConstants
    <3>2. check' = [check EXCEPT !.key = k + 1]
      BY <2>1, <1>2 DEF Resample
    <3>3. QED
      BY <3>1, <3>2, <1>1 DEF ButtonsTypeOK, Point
  <2>2. CASE ~(k < KeyCount)
    BY <2>2, <1>1, <1>2 DEF Resample, ButtonsTypeOK, Point
  <2>3. QED
    BY <2>1, <2>2
<1>5. history' = [history EXCEPT !.reading[k] = "good"]
  BY <1>2 DEF Resample
<1>6. history' \in Annals /\ history'.dropped
  BY <1>1, <1>5, ReadingKept
<1>7. ButtonsTypeOK'
  BY <1>1, <1>3, <1>4, <1>6 DEF ButtonsTypeOK
<1>8. Recorded(ring', check') /\ Steady(history', check', source', stood')
  BY <1>4, Running
<1>9. QED
  BY <1>6, <1>7, <1>8 DEF ButtonsInv, NoBounce

LEMMA SweepKeeps == ASSUME ButtonsInv, Sweep PROVE ButtonsInv'
<1>1. /\ ButtonsTypeOK /\ UNCHANGED <<pin, stood, ring>> /\ check.at = "sweep"
      /\ check.key <= KeyCount
  BY DEF ButtonsInv, Sweep
<1>2. PICK k \in Pins : k = check.key
  BY <1>1, ButtonsConstants DEF ButtonsTypeOK, Point
<1>3. k + 1 \in 1..(KeyCount + 1)
  BY ButtonsConstants
<1>4. SourceType(source) /\ pin \in [Pins -> BOOLEAN] /\ stood \in [Pins -> 0..OldAge]
  BY <1>1 DEF ButtonsTypeOK, SourceType
<1>5. PICK m : m = Unsure(history, check)
  OBVIOUS
<1>6. history \in Annals /\ \A j \in Pins : j \in m <=> history.reading[j] # "good"
  BY <1>1, <1>5 DEF ButtonsTypeOK, Unsure
<1>7. CASE ~Settled(k)
  <2>1. check' = [check EXCEPT !.key = k + 1] /\ UNCHANGED <<source, pressed, history>>
    BY <1>2, <1>7 DEF Sweep, NoEvent
  <2>2. check' \in Point
    BY <2>1, <1>1, <1>3 DEF ButtonsTypeOK, Point
  <2>3. check'.at = "sweep" /\ check'.lag = check.lag
    BY <2>1, <1>1 DEF ButtonsTypeOK, Point
  <2>4. ButtonsTypeOK'
    BY <2>1, <2>2, <2>3, <1>1 DEF ButtonsTypeOK
  <2>5. Fresh(ring, check) => Fresh(ring', check')
    BY <2>3, <1>1 DEF Fresh
  <2>6. /\ Unsure(history', check') = Unsure(history, check)
        /\ Recorded(ring', check') /\ Steady(history', check', source', stood')
    BY <2>1, <2>3, <1>1, Running
  <2>7. Story(ring, source, pin, stood, Unsure(history, check)) =>
          Story(ring', source', pin', stood', Unsure(history', check'))
    BY <2>1, <2>6, <1>1
  <2>8. QED
    BY <2>1, <2>3, <2>4, <2>5, <2>6, <2>7, <1>1 DEF ButtonsInv, NoBounce
<1>8. CASE Settled(k)
  <2>1. /\ source' = [source EXCEPT !.believed[k] = source.pending[k], !.sweep = k + 1]
        /\ Event(k, source.pending[k], Real(k), history.reading[k])
        /\ check' = [check EXCEPT !.at = "ring"]
    BY <1>2, <1>8 DEF Sweep
  <2>2. source.pending[k] \in BOOLEAN /\ history.reading[k] \in Readings
    BY <1>4, <1>6 DEF SourceType, Annals
  <2>3. PICK believed : believed = [source.believed EXCEPT ![k] = source.pending[k]]
    OBVIOUS
  <2>4. believed \in [Pins -> BOOLEAN]
    BY <2>3, <1>4 DEF SourceType
  <2>5. source' = [source EXCEPT !.believed = believed, !.sweep = k + 1]
    BY <2>1, <2>3
  <2>6. source' \in [dropped : BOOLEAN, believed : [Pins -> BOOLEAN],
                     pending : [Pins -> BOOLEAN], change : [Pins -> 0..OldAge],
                     sweep : 1..(KeyCount + 1)]
    BY <2>4, <2>5, <1>1, <1>3 DEF ButtonsTypeOK
  <2>7. /\ source'.pending = source.pending /\ source'.believed = believed
        /\ source'.change = source.change /\ source'.dropped = source.dropped
    BY <2>5, <1>1 DEF ButtonsTypeOK
  <2>8. PICK real \in BOOLEAN : real = Real(k)
    BY DEF Real
  <2>9. Event(k, source.pending[k], real, history.reading[k])
    BY <2>1, <2>8
  <2>10. /\ pressed' \in [Pins -> BOOLEAN] /\ history' \in Annals
         /\ history'.dropped = history.dropped
         /\ history'.reading = [history.reading EXCEPT ![k] = history.reading[k]]
         /\ history.reading[k] # "good" \/ real => (history'.phantom <=> history.phantom)
    BY <2>2, <2>9, <1>1, EventKept
  <2>11. Story(ring, source, pin, stood, m) /\ Fresh(ring, check) =>
           history.reading[k] # "good" \/ real
    <3>1. Story(ring, source, pin, stood, m) /\ Fresh(ring, check) /\ k \notin m => Real(k)
      BY <1>1, <1>8, SettledIsReal
    <3>2. QED
      BY <3>1, <2>8, <1>6
  <2>12. check' \in Point /\ check'.at = "ring"
    BY <2>1, <1>1 DEF ButtonsTypeOK, Point
  <2>13. ButtonsTypeOK'
    BY <2>6, <2>10, <2>12, <1>1 DEF ButtonsTypeOK
  <2>14. history'.reading = history.reading
    BY <2>10, <1>6 DEF Annals
  <2>15. /\ Unsure(history', check') = m /\ Fresh(ring', check')
         /\ Recorded(ring', check') /\ Steady(history', check', source', stood')
    <3>1. Recorded(ring', check') /\ Steady(history', check', source', stood') /\ Fresh(ring', check')
      BY <2>12, Running DEF Fresh
    <3>2. Unsure(history', check') = m
      BY <2>12, <2>14, <1>1, <1>5 DEF Unsure
    <3>3. QED
      BY <3>1, <3>2
  <2>16. Story(ring, source, pin, stood, m) => Story(ring', source', pin', stood', m)
    <3>1. PICK u : u = source'
      OBVIOUS
    <3>2. /\ u.pending = source.pending /\ u.change = source.change
          /\ u.believed = [source.believed EXCEPT ![k] = source.pending[k]]
      BY <3>1, <2>3, <2>7
    <3>3. ring \in Seq(EdgeRecord)
      BY <1>1 DEF ButtonsTypeOK
    <3>4. Story(ring, source, pin, stood, m) => Story(ring, u, pin, stood, m)
      BY <3>2, <3>3, <1>4, StoryBelieves
    <3>5. QED
      BY <3>1, <3>4, <1>1
  <2>17. QED
    BY <2>7, <2>10, <2>11, <2>12, <2>13, <2>15, <2>16, <1>5 DEF ButtonsInv, NoBounce
<1>9. QED
  BY <1>7, <1>8

LEMMA EndSweepKeeps == ASSUME ButtonsInv, EndSweep PROVE ButtonsInv'
<1>1. /\ ButtonsTypeOK /\ UNCHANGED <<pin, stood, ring, pressed, history>>
      /\ check.at = "sweep" /\ source' = [source EXCEPT !.sweep = 1]
      /\ check' = [at |-> "idle", key |-> 1, lag |-> 0]
  BY DEF ButtonsInv, EndSweep, NoEvent
<1>2. 1 \in 1..(KeyCount + 1) /\ 0 \in 0..MaxLag
  BY ButtonsConstants
<1>3. source' \in [dropped : BOOLEAN, believed : [Pins -> BOOLEAN],
                   pending : [Pins -> BOOLEAN], change : [Pins -> 0..OldAge],
                   sweep : 1..(KeyCount + 1)]
  BY <1>1, <1>2 DEF ButtonsTypeOK
<1>4. /\ source'.pending = source.pending /\ source'.believed = source.believed
      /\ source'.change = source.change /\ source'.dropped = source.dropped
  BY <1>1 DEF ButtonsTypeOK
<1>5. check' \in Point
  BY <1>1, <1>2 DEF Point
<1>6. ButtonsTypeOK'
  BY <1>1, <1>3, <1>5 DEF ButtonsTypeOK
<1>7. /\ Unsure(history', check') = Unsure(history, check) /\ Fresh(ring', check')
      /\ Recorded(ring', check') /\ Steady(history', check', source', stood')
  BY <1>1, Running DEF Fresh
<1>8. Story(ring, source, pin, stood, Unsure(history, check)) =>
        Story(ring', source', pin', stood', Unsure(history', check'))
  BY <1>1, <1>4, <1>7 DEF Story, StartsAt, Alternates, EndsAt, Stands, IsFirst, IsNext, IsLast,
     Quiet, Waiting
<1>9. QED
  BY <1>1, <1>4, <1>6, <1>7, <1>8 DEF ButtonsInv, NoBounce

LEMMA ButtonsStep == ButtonsInv /\ [ButtonsNext]_buttonVars => ButtonsInv'
<1> SUFFICES ASSUME ButtonsInv, [ButtonsNext]_buttonVars PROVE ButtonsInv'
  OBVIOUS
<1>0. CASE ConstructSource
  BY <1>0, SamplePinKeeps, InstallIrqKeeps DEF ConstructSource
<1>1. CASE Check
  BY <1>1, PollKeeps, TakeEdgeKeeps, EndRingKeeps, ResampleKeeps, SweepKeeps, EndSweepKeeps
  DEF Check
<1>2. CASE ButtonsElapse
  BY <1>2, ElapseKeeps
<1>3. CASE \E k \in Pins : Edge(k)
  BY <1>3, EdgeKeeps
<1>4. CASE UNCHANGED buttonVars
  BY <1>4 DEF buttonVars, ButtonsInv, ButtonsTypeOK, NoBounce
<1>5. QED
  BY <1>0, <1>1, <1>2, <1>3, <1>4 DEF ButtonsNext

(* While no edge is dropped, an event of a button is a level its pin really *)
(* had for settle_ms, except of a key that changed before its interrupt was *)
(* installed, until check() takes an edge away from the level read then: for*)
(* any number of keys, any depth of the ring, any settle time, however late *)
(* check() is, and wherever the interrupt comes in its steps and the        *)
(* constructor's.                                                           *)
THEOREM ButtonsReal == ButtonsSpec => []NoBounce
<1>1. ButtonsSpec => []ButtonsInv
  BY ButtonsBegin, ButtonsStep, PTL DEF ButtonsSpec
<1>2. ButtonsInv => NoBounce
  BY DEF ButtonsInv
<1>3. QED
  BY <1>1, <1>2, PTL

=============================================================================

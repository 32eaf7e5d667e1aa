--------------------------- MODULE Runner_proofs ---------------------------
(***************************************************************************)
(* Invariants of the runner for any tasks, sockets, descriptors, periods   *)
(* and delays: foreign code may add, remove and reschedule tasks, open,    *)
(* share and close sockets, raise, and take any time.                      *)
(***************************************************************************)
EXTENDS Runner, SequenceTheorems, FiniteSetTheorems, TLAPS

-----------------------------------------------------------------------------
(* Arithmetic of deadlines: what is left of one after whole periods.        *)

LEMMA DivMod ==
  ASSUME NEW a \in Int, NEW p \in Nat \ {0}
  PROVE  /\ a \div p \in Int /\ a % p \in 0..(p - 1)
         /\ a = p * (a \div p) + (a % p)
<1>1. a \div p \in Int /\ a % p \in 0..(p - 1)
  BY SMT
<1>2. a = p * (a \div p) + (a % p)
  BY SMT
<1> QED BY <1>1, <1>2

(* A multiple of p smaller than p is none.                                  *)
LEMMA SmallMultiple ==
  ASSUME NEW k \in Int, NEW p \in Nat \ {0}, -p < p * k, p * k < p
  PROVE  k = 0
<1>1. k >= 1 => p * k >= p  BY Z3
<1>2. k <= -1 => p * k <= -p BY Z3
<1> QED BY <1>1, <1>2

(* A quotient and a remainder in range are the quotient and the remainder.  *)
LEMMA ModUnique ==
  ASSUME NEW a \in Int, NEW p \in Nat \ {0}, NEW q \in Int, NEW r \in 0..(p - 1),
         a = p * q + r
  PROVE  a % p = r
<1> DEFINE d == a \div p
           m == a % p
           k == d - q
<1>1. d \in Int /\ m \in 0..(p - 1) /\ a = p * d + m
  BY DivMod
<1> HIDE DEF d, m
<1>2. k \in Int /\ p * k = p * d - p * q
  BY <1>1, Z3
<1> HIDE DEF k
<1>3. p * k = r - m /\ -p < p * k /\ p * k < p
  BY <1>1, <1>2
<1>4. k = 0
  BY <1>2, <1>3, SmallMultiple
<1>5. r = m
  BY <1>1, <1>3, <1>4
<1> QED BY <1>5 DEF m

(* A remainder can be taken before a subtraction.                           *)
LEMMA ModShift ==
  ASSUME NEW a \in Int, NEW l \in Int, NEW p \in Nat \ {0}
  PROVE  (a - l) % p = ((a % p) - l) % p
<1> DEFINE b == (a % p) - l
           q == a \div p
           d == b \div p
           r == b % p
<1>1. b \in Int /\ q \in Int /\ d \in Int /\ r \in 0..(p - 1)
  BY DivMod
<1>2. a - l = p * q + b
  BY DivMod
<1>3. b = p * d + r
  BY <1>1, DivMod
<1> HIDE DEF b, q, d, r
<1>4. p * (q + d) = p * q + p * d
  BY <1>1, Z3
<1>5. a - l = p * (q + d) + r
  BY <1>1, <1>2, <1>3, <1>4
<1>6. a - l \in Int /\ q + d \in Int
  BY <1>1
<1>7. (a - l) % p = r
  BY <1>1, <1>5, <1>6, ModUnique
<1> QED BY <1>7 DEF r, b

(* Whole periods do not change a remainder.                                 *)
LEMMA ModPeriod ==
  ASSUME NEW a \in Int, NEW k \in Int, NEW p \in Nat \ {0}
  PROVE  (a + k * p) % p = a % p
<1> DEFINE q == a \div p
           r == a % p
<1>1. q \in Int /\ r \in 0..(p - 1) /\ a = p * q + r
  BY DivMod
<1> HIDE DEF q, r
<1>2. p * (q + k) = p * q + k * p
  BY <1>1, Z3
<1>3. a + k * p \in Int /\ q + k \in Int /\ a + k * p = p * (q + k) + r
  BY <1>1, <1>2
<1>4. (a + k * p) % p = r
  BY <1>1, <1>3, ModUnique
<1> QED BY <1>4 DEF r

(* The deadline an overdue entry is moved to is after now (NextDue).        *)
LEMMA NextWholePeriod ==
  ASSUME NEW a \in Int, NEW p \in Nat \ {0}
  PROVE  LET k == (-a) \div p + 1
         IN  k \in Int /\ a + k * p \in Int /\ a + k * p > 0
<1> DEFINE q == (-a) \div p
<1>1. q \in Int /\ p * q <= -a /\ -a < p * q + p
  BY DivMod
<1> HIDE DEF q
<1>2. (q + 1) * p = p * q + p /\ (q + 1) * p \in Int
  BY <1>1, Z3
<1>3. q + 1 \in Int /\ a + (q + 1) * p \in Int /\ a + (q + 1) * p > 0
  BY <1>1, <1>2
<1> QED BY <1>3 DEF q

(* A finite set of integers has a smallest element, by the well-            *)
(* foundedness of strict inclusion between finite sets.                     *)
LEMMA FiniteMinimum ==
  ASSUME NEW S \in SUBSET Int, IsFiniteSet(S), S # {}
  PROVE  \E m \in S : \A e \in S : m <= e
<1> DEFINE HasMin(U) == \E m \in U : \A e \in U : m <= e
           Bad == {U \in FiniteSubsetsOf(S) : U # {} /\ ~HasMin(U)}
<1>1. SUFFICES ASSUME Bad # {} PROVE FALSE
  BY DEF FiniteSubsetsOf
<1>2. PICK U \in Bad : \A V \in Bad : <<V, U>> \notin StrictSubsetOrdering(S)
  <2>1. Bad \subseteq FiniteSubsetsOf(S)
    OBVIOUS
  <2> HIDE DEF Bad
  <2> QED BY <1>1, <2>1, FS_StrictSubsetOrderingWellFounded, WFMin
<1>3. PICK x \in U : TRUE
  OBVIOUS
<1> DEFINE V == U \ {x}
<1>4. V \in FiniteSubsetsOf(S)
  BY FS_RemoveElement DEF FiniteSubsetsOf
<1>5. <<V, U>> \in StrictSubsetOrdering(S)
  BY <1>3 DEF StrictSubsetOrdering, FiniteSubsetsOf
<1>6. V = {} \/ HasMin(V)
  BY <1>2, <1>4, <1>5
<1>7. U \subseteq Int
  BY DEF FiniteSubsetsOf
<1> QED BY <1>3, <1>6, <1>7

-----------------------------------------------------------------------------
(* No entry is in a list twice.                                             *)
Distinct(q) == \A i, j \in DOMAIN q : q[i] = q[j] => i = j

(* Where the walk stands: the lists hold added tasks, each once, and an     *)
(* entry the walk has still to reach is not pending yet, whatever a check() *)
(* added or removed under it.                                               *)
Walk ==
  /\ Distinct(entries) /\ Active \subseteq added
  /\ Distinct(pending) /\ \A i \in DOMAIN pending : pending[i] \in added
  /\ ix >= 1
  /\ pc = "asking"   => ix <= Len(entries)
  /\ pc = "counting" => ix <= Len(pending)
  /\ pc \in {"checking", "asking"} =>
       \A i \in DOMAIN pending, j \in DOMAIN entries :
         j >= ix => entries[j] # pending[i]

(* A task that may still fire has runs left: one not yet added, one in the  *)
(* list, and a pending one whose turn has not come, even if it was removed. *)
RunsLeft ==
  \A t \in Tasks :
    (/\ run_count[t] # None
     /\ \/ t \notin added \/ t \in Active
        \/ \E i \in DOMAIN pending :
             pending[i] = t /\ (pc \in {"firing", "counting"} => i >= ix))
      => run_count[t] >= 1

(* No pending task is due, nor is the one being asked.                      *)
Later(t) == next_due[t] # None => next_due[t] > 0
DueLater ==
  /\ \A i \in DOMAIN pending : Later(pending[i])
  /\ pc = "asking" => Later(entries[ix])

(* A task not yet added has the period it will be added with; one in the    *)
(* list that preserves its phase has a deadline, on its grid.               *)
OnGrid(t) == Options[t].preserve /\ period[t] # None
               => next_due[t] # None /\ next_due[t] % period[t] = phase[t]
Aligned ==
  /\ \A t \in Tasks : t \notin added => period[t] = Options[t].period
  /\ \A t \in Active : OnGrid(t)

(* A service reports an open socket or none, and no two open sockets have   *)
(* one descriptor.                                                          *)
SocketsOpen ==
  /\ \A t \in Services : sock[t] # None => IsOpen(sock[t])
  /\ \A s, x \in Sockets : IsOpen(s) /\ fd[s] = fd[x] => s = x

(* The books of _sync_poll_set between two waits: a slot records the        *)
(* descriptor its socket has or had, no two slots the same, and the poll    *)
(* object holds the slots' descriptors and masks and nothing else.          *)
HasSlot(s) == registered[s] # None
Registered ==
  /\ \A s \in Sockets : HasSlot(s) => fd[s] \in {registered[s].fd, "closed"}
  /\ \A s, x \in Sockets :
       HasSlot(s) /\ HasSlot(x) /\ registered[s].fd = registered[x].fd => s = x
  /\ poller => /\ DOMAIN poll_set = {registered[s].fd : s \in {x \in Sockets : HasSlot(x)}}
               /\ \A s \in Sockets :
                    HasSlot(s) => poll_set[registered[s].fd] = registered[s].mask
  /\ PollSetMatches

(* wait() blocks for a positive time, or for ever.                          *)
Blocks == pc \in {"polling", "sleeping"} => timeout = None \/ timeout > 0

IInv == /\ TypeOK /\ Walk /\ RunsLeft /\ DueLater /\ Aligned
        /\ SocketsOpen /\ Registered /\ Blocks

-----------------------------------------------------------------------------
(* Removing an entry shifts those behind it by one place and keeps the rest.*)
LEMMA WithoutEntry ==
  ASSUME NEW q \in Seq(Tasks), NEW t, Distinct(q)
  PROVE  /\ Without(q, t) \in Seq(Tasks)
         /\ Distinct(Without(q, t))
         /\ \A j \in DOMAIN Without(q, t) :
              /\ Without(q, t)[j] # t
              /\ \/ j \in DOMAIN q /\ Without(q, t)[j] = q[j]
                 \/ j + 1 \in DOMAIN q /\ Without(q, t)[j] = q[j + 1]
<1>1. CASE ~\E i \in DOMAIN q : q[i] = t
  BY <1>1 DEF Without
<1>2. CASE \E i \in DOMAIN q : q[i] = t
  <2> DEFINE at == CHOOSE i \in DOMAIN q : q[i] = t
             front == SubSeq(q, 1, at - 1)
             back  == SubSeq(q, at + 1, Len(q))
             w     == front \o back
  <2>1. at \in DOMAIN q /\ q[at] = t
    BY <1>2
  <2>2. Without(q, t) = w
    BY <1>2 DEF Without
  <2> HIDE DEF at
  <2>3. /\ Len(q) \in Nat /\ DOMAIN q = 1..Len(q) /\ at \in 1..Len(q)
        /\ \A i \in 1..Len(q) : q[i] \in Tasks
    BY <2>1, LenProperties
  <2>4. /\ front \in Seq(Tasks) /\ Len(front) = at - 1
        /\ \A i \in 1..(at - 1) : front[i] = q[i]
    BY <2>3, SubSeqProperties
  <2>5. /\ back \in Seq(Tasks) /\ Len(back) = Len(q) - at
        /\ \A i \in 1..(Len(q) - at) : back[i] = q[i + at]
    <3>1. at + 1 \in Int /\ Len(q) \in Int /\ \A i \in (at + 1)..Len(q) : q[i] \in Tasks
      BY <2>3
    <3>2. /\ back \in Seq(Tasks)
          /\ Len(back) = IF at + 1 <= Len(q) THEN Len(q) - (at + 1) + 1 ELSE 0
          /\ \A i \in 1..(Len(q) - (at + 1) + 1) : back[i] = q[at + 1 + i - 1]
      BY <3>1, SubSeqProperties
    <3> HIDE DEF back
    <3> DEFINE n == Len(q)
    <3>0. n \in Nat /\ at \in 1..n
      BY <2>3
    <3>5. Len(back) = IF at + 1 <= n THEN n - (at + 1) + 1 ELSE 0
      BY <3>2
    <3> HIDE DEF n
    <3>6. n - (at + 1) + 1 = n - at /\ (~(at + 1 <= n) => n - at = 0)
      BY <3>0
    <3>7. Len(back) = n - at
      BY <3>5, <3>6
    <3>3. Len(back) = Len(q) - at /\ Len(q) - (at + 1) + 1 = Len(q) - at
      BY <3>6, <3>7 DEF n
    <3>4. ASSUME NEW i \in 1..(Len(q) - at) PROVE back[i] = q[i + at]
      <4>1. at + 1 + i - 1 = i + at
        BY <2>3
      <4>2. back[i] = q[at + 1 + i - 1]
        BY <3>2, <3>3
      <4> QED BY <4>1, <4>2
    <3> QED BY <3>2, <3>3, <3>4
  <2> HIDE DEF front, back
  <2>6. /\ w \in Seq(Tasks) /\ Len(w) = Len(q) - 1 /\ DOMAIN w = 1..(Len(q) - 1)
        /\ \A i \in 1..(Len(q) - 1) : w[i] = IF i < at THEN q[i] ELSE q[i + 1]
    <3>1. /\ w \in Seq(Tasks) /\ Len(w) = Len(front) + Len(back)
          /\ \A i \in 1..(Len(front) + Len(back)) :
               w[i] = IF i <= Len(front) THEN front[i] ELSE back[i - Len(front)]
      BY <2>4, <2>5, ConcatProperties
    <3>5. /\ Len(front) + Len(back) = Len(q) - 1
          /\ \A i \in 1..(Len(q) - 1) : i <= Len(front) <=> i < at
      BY <2>3, <2>4, <2>5
    <3> HIDE DEF w
    <3>2. Len(w) = Len(q) - 1 /\ DOMAIN w = 1..(Len(q) - 1)
      BY <2>3, <2>4, <2>5, <3>1, LenProperties
    <3>3. ASSUME NEW i \in 1..(Len(q) - 1), i < at PROVE w[i] = q[i]
      <4>1. w[i] = front[i]
        BY <3>1, <3>3, <3>5
      <4> QED BY <2>3, <2>4, <3>3, <4>1
    <3>4. ASSUME NEW i \in 1..(Len(q) - 1), ~(i < at) PROVE w[i] = q[i + 1]
      <4>1. i - (at - 1) \in 1..(Len(q) - at) /\ i - (at - 1) + at = i + 1
        BY <2>3, <3>4
      <4>2. w[i] = back[i - (at - 1)]
        BY <2>4, <3>1, <3>4, <3>5
      <4> QED BY <2>5, <4>1, <4>2
    <3> QED BY <3>1, <3>2, <3>3, <3>4
  <2> HIDE DEF w
  <2>7. \A j \in DOMAIN w : w[j] # t
    BY <2>1, <2>3, <2>6 DEF Distinct
  <2>8. Distinct(w)
    <3> SUFFICES ASSUME NEW i \in DOMAIN w, NEW j \in DOMAIN w, w[i] = w[j] PROVE i = j
      BY DEF Distinct
    <3> DEFINE Was(k) == IF k < at THEN k ELSE k + 1
    <3>1. Was(i) \in DOMAIN q /\ Was(j) \in DOMAIN q /\ q[Was(i)] = q[Was(j)]
      BY <2>3, <2>6
    <3>2. Was(i) = Was(j)
      BY <3>1 DEF Distinct
    <3> QED BY <2>3, <2>6, <3>2
  <2> QED BY <2>2, <2>3, <2>6, <2>7, <2>8
<1> QED BY <1>1, <1>2

-----------------------------------------------------------------------------
(* What foreign code may do to the runner, a step at a time.                *)
ForeignStep == \/ Effect \/ UNCHANGED foreign
               \/ \E t \in Tasks : RecordHandlerFault(t)

(* An entry of the new list is a new task, or was in the old one at its     *)
(* place or the next.                                                       *)
Moved(j) == \/ entries'[j] \notin added
            \/ j \in DOMAIN entries /\ entries'[j] = entries[j]
            \/ j + 1 \in DOMAIN entries /\ entries'[j] = entries[j + 1]

(* What removing a task does to the list.                                   *)
LEMMA ForeignWithout ==
  ASSUME TypeOK, Walk, NEW t \in Tasks, entries' = Without(entries, t), added' = added
  PROVE  /\ entries' \in Seq(Tasks) /\ Distinct(entries') /\ Active' \subseteq Active
         /\ t \notin Active'
         /\ \A j \in DOMAIN entries' : Moved(j)
<1>1. entries \in Seq(Tasks) /\ Distinct(entries)
  BY DEF TypeOK, Walk
<1>2. /\ entries' \in Seq(Tasks) /\ Distinct(entries')
      /\ \A j \in DOMAIN entries' :
              /\ entries'[j] # t
              /\ \/ j \in DOMAIN entries /\ entries'[j] = entries[j]
                 \/ j + 1 \in DOMAIN entries /\ entries'[j] = entries[j + 1]
  BY <1>1, WithoutEntry
<1> QED BY <1>2 DEF Active, Moved

(* What foreign code may do to the list: it loses entries, and gains only   *)
(* tasks that were never in it.                                             *)
LEMMA ForeignLists ==
  ASSUME TypeOK, Walk, ForeignStep
  PROVE  /\ entries' \in Seq(Tasks) /\ Distinct(entries')
         /\ added \subseteq added' /\ added' \subseteq Tasks /\ Active' \subseteq added'
         /\ Active' \subseteq Active \cup (added' \ added)
         /\ \A j \in DOMAIN entries' : Moved(j)
         /\ run_count' = run_count
<1> USE DEF TypeOK, Walk
<1>2. CASE \E t \in Tasks : Add(t)
  <2>1. PICK t \in Tasks : Add(t)
    BY <1>2
  <2>2. /\ t \notin added /\ added' = added \cup {t} /\ run_count' = run_count
        /\ entries' = Append(entries, t)
    BY <2>1 DEF Add
  <2>3. /\ entries' \in Seq(Tasks) /\ DOMAIN entries' = 1..(Len(entries) + 1)
        /\ DOMAIN entries = 1..Len(entries) /\ Len(entries) \in Nat
        /\ \A j \in 1..Len(entries) : entries'[j] = entries[j]
        /\ entries'[Len(entries) + 1] = t
    BY <2>2, AppendProperties, LenProperties
  <2>4. \A j \in DOMAIN entries : entries[j] \in added
    BY DEF Active
  <2>5. Distinct(entries')
    BY <2>2, <2>3, <2>4 DEF Distinct
  <2>6. Active' \subseteq Active \cup {t}
    <3>1. ASSUME NEW i \in DOMAIN entries' PROVE entries'[i] \in Active \cup {t}
      <4>1. i \in DOMAIN entries \/ i = Len(entries) + 1
        BY <2>3
      <4> QED BY <2>3, <4>1 DEF Active
    <3> QED BY <3>1 DEF Active
  <2>7. \A j \in DOMAIN entries' : Moved(j)
    BY <2>2, <2>3 DEF Moved
  <2> QED BY <2>2, <2>3, <2>5, <2>6, <2>7
<1>3. CASE \E t \in Tasks : entries' = Without(entries, t) /\ added' = added
                              /\ run_count' = run_count
  BY <1>3, ForeignWithout
<1>4. CASE UNCHANGED <<entries, added, run_count>>
  BY <1>4 DEF Moved, Active
<1>5. \/ \E t \in Tasks : Add(t)
      \/ \E t \in Tasks : entries' = Without(entries, t) /\ added' = added
                            /\ run_count' = run_count
      \/ UNCHANGED <<entries, added, run_count>>
  <2>1. CASE Effect
    BY <2>1 DEF Effect, Remove, SetPeriod, UseSockets, tasks, Services
  <2>2. CASE UNCHANGED foreign
    BY <2>2 DEF foreign, tasks
  <2>3. CASE \E t \in Tasks : RecordHandlerFault(t)
    BY <2>3 DEF RecordHandlerFault, tasks
  <2> QED BY <2>1, <2>2, <2>3 DEF ForeignStep
<1> QED BY <1>2, <1>3, <1>4, <1>5


(* The recorded phase is a natural number.                                  *)
LEMMA PhaseType ==
  ASSUME NEW t \in Tasks, NEW d, NEW p \in (Nat \ {0}) \cup {None},
         Options[t].preserve => d \in Int
  PROVE  Phase(t, d, p) \in Nat
<1>1. CASE Options[t].preserve /\ p # None
  <2>1. d \in Int /\ p \in Nat \ {0}
    BY <1>1
  <2>2. d % p \in 0..(p - 1)
    BY <2>1, DivMod
  <2>3. d % p \in Nat
    BY <2>1, <2>2
  <2> QED BY <1>1, <2>3 DEF Phase
<1>2. CASE ~(Options[t].preserve /\ p # None)
  BY <1>2 DEF Phase
<1> QED BY <1>1, <1>2

(* Foreign code keeps the types of what it changes.                         *)
LEMMA ForeignTypes ==
  ASSUME TypeOK, ForeignStep
  PROVE  /\ disturbed' \in 0..MaxDisturbed
         /\ next_due' \in [Tasks -> Int \cup {None}]
         /\ period' \in [Tasks -> (Nat \ {0}) \cup {None}]
         /\ phase' \in [Tasks -> Nat]
         /\ sock' \in [Services -> Sockets \cup {None}]
         /\ interest' \in [Services -> SUBSET {"read", "write"}]
         /\ fd' \in [Sockets -> Descriptors \cup {"fresh", "closed"}]
<1> USE RunnerAssumption
<1> USE DEF TypeOK
<1>2. ASSUME NEW t \in Tasks, Add(t)
      PROVE  next_due' \in [Tasks -> Int \cup {None}] /\ phase' \in [Tasks -> Nat]
  <2>1. FirstDue(t) \in Int \cup {None}
    BY DEF FirstDue, FirstDelay, Arguments
  <2>2. Options[t].preserve => FirstDue(t) \in Int
    BY DEF FirstDue, FirstDelay, Arguments
  <2>3. Phase(t, FirstDue(t), period[t]) \in Nat
    BY <2>1, <2>2, PhaseType
  <2> QED BY <1>2, <2>1, <2>3 DEF Add
<1>3. ASSUME NEW t \in Tasks, NEW p \in NewPeriods[t], SetPeriod(t, p)
      PROVE  /\ next_due' \in [Tasks -> Int \cup {None}] /\ phase' \in [Tasks -> Nat]
             /\ period' \in [Tasks -> (Nat \ {0}) \cup {None}]
             /\ disturbed' \in 0..MaxDisturbed
  <2>1. p \in (Nat \ {0}) \cup {None}
    OBVIOUS
  <2>2. p # None => late + p \in Int /\ Phase(t, late + p, p) \in Nat
    BY <2>1, PhaseType
  <2>3. disturbed' \in 0..MaxDisturbed
    BY <1>3 DEF SetPeriod
  <2> QED BY <1>3, <2>1, <2>2, <2>3 DEF SetPeriod
<1>4. ASSUME NEW t \in Services, UseSockets(t)
      PROVE  /\ sock' \in [Services -> Sockets \cup {None}]
             /\ interest' \in [Services -> SUBSET {"read", "write"}]
             /\ fd' \in [Sockets -> Descriptors \cup {"fresh", "closed"}]
  <2>1. CASE \E s \in Sockets : Open(t, s)
    BY <2>1 DEF Open
  <2>2. CASE \E s \in Sockets : Take(t, s)
    BY <2>2 DEF Take
  <2>3. CASE Close(t)
    BY <2>3 DEF Close
  <2>4. CASE \E mask \in Interests : Want(t, mask)
    BY <2>4 DEF Want
  <2> QED BY <1>4, <2>1, <2>2, <2>3, <2>4 DEF UseSockets
<1>5. CASE \E t \in Tasks : Add(t)
  <2>1. PICK t \in Tasks : Add(t)
    BY <1>5
  <2>2. next_due' \in [Tasks -> Int \cup {None}] /\ phase' \in [Tasks -> Nat]
    BY <1>2, <2>1
  <2> QED BY <2>1, <2>2 DEF Add, sockets
<1>6. CASE \E t \in Tasks : Remove(t) \/ RecordHandlerFault(t)
  BY <1>6 DEF Remove, RecordHandlerFault, tasks, sockets
<1>7. CASE \E t \in Tasks : \E p \in NewPeriods[t] : SetPeriod(t, p)
  <2>1. PICK t \in Tasks : \E p \in NewPeriods[t] : SetPeriod(t, p)
    BY <1>7
  <2>2. PICK p \in NewPeriods[t] : SetPeriod(t, p)
    BY <2>1
  <2>3. /\ next_due' \in [Tasks -> Int \cup {None}] /\ phase' \in [Tasks -> Nat]
        /\ period' \in [Tasks -> (Nat \ {0}) \cup {None}] /\ disturbed' \in 0..MaxDisturbed
    BY <1>3, <2>2
  <2> QED BY <2>2, <2>3 DEF SetPeriod, sockets
<1>8. CASE \E t \in Services : UseSockets(t)
  BY <1>4, <1>8 DEF UseSockets, tasks
<1>9. CASE UNCHANGED foreign
  BY <1>9 DEF foreign, tasks, sockets
<1> QED BY <1>5, <1>6, <1>7, <1>8, <1>9 DEF ForeignStep, Effect


(* The smallest of the deadlines is one of them.                            *)
LEMMA NearestType ==
  ASSUME NEW S \in SUBSET (Int \cup {None}), IsFiniteSet(S), None \notin Int
  PROVE  Nearest(S \ {None}) \in Int \cup {None}
<1> DEFINE D == S \ {None}
<1>1. D \in SUBSET Int /\ IsFiniteSet(D)
  BY FS_RemoveElement
<1> HIDE DEF D
<1>2. CASE D = {}
  BY <1>2 DEF Nearest, D
<1>3. CASE D # {}
  <2>1. \E m \in D : \A e \in D : m <= e
    BY <1>1, <1>3, FiniteMinimum
  <2>2. Nearest(D) \in D
    BY <1>3, <2>1 DEF Nearest
  <2> QED BY <1>1, <2>2 DEF D
<1> QED BY <1>2, <1>3

(* _compute_timeout returns a delay or None.                                *)
LEMMA TimeoutType ==
  ASSUME TypeOK, timeout' \in Timeouts
  PROVE  timeout' \in Int \cup {None}
<1> USE RunnerAssumption
<1> DEFINE dues == {next_due[t] : t \in Active}
           due == [i \in 1..Len(entries) |-> next_due[entries[i]]]
<1>1. /\ Len(entries) \in Nat /\ DOMAIN entries = 1..Len(entries)
      /\ \A i \in 1..Len(entries) : entries[i] \in Tasks
  BY LenProperties, ElementOfSeq DEF TypeOK
<1>2. dues \in SUBSET (Int \cup {None})
  BY <1>1 DEF TypeOK, Active
<1>3. due \in Surjection(1..Len(entries), dues)
  BY <1>1 DEF Surjection, Active
<1>4. IsFiniteSet(dues)
  BY <1>1, <1>3, FS_NatSurjection DEF ExistsSurjection
<1> HIDE DEF dues, due
<1>5. PICK d \in Deadlines \cup {None} : timeout' = Nearest((dues \cup {d}) \ {None})
  BY DEF Timeouts, dues
<1>6. IsFiniteSet(dues \cup {d}) /\ dues \cup {d} \in SUBSET (Int \cup {None})
  BY <1>2, <1>4, FS_AddElement
<1> QED BY <1>5, <1>6, NearestType


(* A socket that is wanted is open, and its slot names its descriptor.      *)
LEMMA WantedOpen ==
  ASSUME TypeOK, SocketsOpen, NEW s \in Sockets, Wanted(s) # {}
  PROVE  IsOpen(s)
<1>1. PICK t \in Services \cap Active : sock[t] = s
  BY DEF Wanted, Sharing
<1>2. sock[t] # None
  BY <1>1, RunnerAssumption
<1> QED BY <1>1, <1>2 DEF SocketsOpen

(* The slot a sweep leaves for a socket: none if nobody wants it, else its  *)
(* wanted mask and its present descriptor, which is that of the slot it     *)
(* had.                                                                     *)
LEMMA SlotOf ==
  ASSUME TypeOK, SocketsOpen, Registered, NEW s \in Sockets
  PROVE  /\ Wanted(s) \in SUBSET {"read", "write"}
         /\ Wanted(s) = {} => Slots[s] = None
         /\ Wanted(s) # {} => /\ Slots[s] # None /\ Slots[s] \in Slot
                              /\ Slots[s].mask = Wanted(s) /\ Slots[s].fd = fd[s]
<1> USE RunnerAssumption
<1>1. Wanted(s) \in SUBSET {"read", "write"}
  BY DEF Wanted, Sharing, TypeOK
<1>2. CASE Wanted(s) = {}
  BY <1>1, <1>2 DEF Slots
<1>3. CASE Wanted(s) # {}
  <2>1. IsOpen(s)
    BY <1>3, WantedOpen
  <2>2. registered[s] # None => registered[s].fd = fd[s] /\ "closed" \notin Descriptors
    BY <2>1 DEF Registered, HasSlot, IsOpen
  <2>3. Slots[s] = [mask |-> Wanted(s), fd |-> fd[s]]
    BY <1>3, <2>2 DEF Slots
  <2>4. Slots[s] \in Slot
    BY <1>1, <2>1, <2>3 DEF Slot, IsOpen
  <2> QED BY <1>1, <1>3, <2>3, <2>4
<1> QED BY <1>1, <1>2, <1>3


(* The actions in which foreign code runs.                                  *)
LEMMA DispatchIsForeign ==
  ASSUME TypeOK, DispatchIoError
  PROVE  ForeignStep
<1>1. ASSUME NEW d \in events, NEW t \in Owner(d)
      PROVE  t \in Tasks /\ t \in Services \cap Active
  BY LenProperties DEF Owner, Reports, TypeOK, Active, Services
<1> QED BY <1>1 DEF DispatchIoError, ForeignStep, Effect

(* The types, one action at a time.                                         *)
LEMMA TypeStep ==
  ASSUME IInv, Next
  PROVE  TypeOK'
<1> USE RunnerAssumption
<1>1. TypeOK /\ Walk /\ RunsLeft /\ SocketsOpen /\ Registered /\ Blocks
  BY DEF IInv
<1>2. CASE Application
  <2>1. ForeignStep /\ UNCHANGED <<pc, walk, handler_errors, clock, polls>>
    BY <1>2 DEF Application, ForeignStep
  <2> QED BY <1>1, <2>1, ForeignLists, ForeignTypes DEF TypeOK, walk, clock, polls
<1>3. CASE Elapse
  BY <1>1, <1>3 DEF Elapse, TypeOK, walk, faults, tasks, sockets, polls
<1>4. CASE BeginTick
  <2>1. next_due' \in [Tasks -> Int \cup {None}]
    BY <1>1, <1>4 DEF BeginTick, Since, TypeOK
  <2>2. ASSUME NEW t \in Tasks
        PROVE  Phase(t, phase[t] - late, period[t]) \in Nat
    <3>1. phase[t] - late \in Int /\ period[t] \in (Nat \ {0}) \cup {None}
      BY <1>1 DEF TypeOK
    <3> QED BY <3>1, PhaseType
  <2>3. phase' \in [Tasks -> Nat]
    BY <1>1, <1>4, <2>2 DEF BeginTick
  <2>4. <<>> \in Seq(Tasks)
    BY EmptySeq
  <2> QED BY <1>1, <1>4, <2>1, <2>3, <2>4 DEF BeginTick, TypeOK, faults, sockets, polls
<1>5. CASE CheckEntry
  <2> DEFINE t == entries[ix]
  <2>1. t \in Tasks
    BY <1>1, <1>5, ElementOfSeq DEF CheckEntry, TypeOK, Walk
  <2>2. pending' \in Seq(Tasks)
    <3>1. pending \in Seq(Tasks) /\ Append(pending, t) \in Seq(Tasks)
      BY <1>1, <2>1, AppendProperties DEF TypeOK
    <3> QED BY <1>5, <3>1 DEF CheckEntry
  <2>3. next_due[t] # None => NextDue(t) \in Int \cup {None}
    <3>1. /\ next_due[t] # None => next_due[t] \in Int
          /\ period[t] # None => period[t] \in Nat \ {0}
      BY <1>1, <2>1 DEF TypeOK
    <3> HIDE DEF t
    <3> QED BY <3>1, NextWholePeriod DEF NextDue
  <2>4. next_due' \in [Tasks -> Int \cup {None}]
    <3>1. next_due \in [Tasks -> Int \cup {None}]
      BY <1>1 DEF TypeOK
    <3>2. \/ next_due' = next_due
          \/ next_due[t] # None /\ next_due' = [next_due EXCEPT ![t] = NextDue(t)]
      BY <1>5 DEF CheckEntry
    <3> HIDE DEF t
    <3> QED BY <2>3, <3>1, <3>2
  <2>5. ix' \in Nat /\ pc' \in {"checking", "asking"}
    BY <1>1, <1>5 DEF CheckEntry, TypeOK
  <2> QED BY <1>1, <1>5, <2>2, <2>4, <2>5 DEF CheckEntry, TypeOK, faults, clock, sockets, polls
<1>6. CASE Answer
  <2>1. ForeignStep /\ UNCHANGED <<ticking, handler_errors, clock, polls>>
    BY <1>6 DEF Answer, ForeignStep
  <2>2. entries[ix] \in Tasks
    BY <1>1, <1>6, ElementOfSeq DEF Answer, TypeOK, Walk
  <2>3. pending' \in Seq(Tasks)
    <3>1. pending \in Seq(Tasks) /\ Append(pending, entries[ix]) \in Seq(Tasks)
      BY <1>1, <2>2, AppendProperties DEF TypeOK
    <3> QED BY <1>6, <3>1 DEF Answer
  <2>4. ix' \in Nat /\ pc' = "checking"
    BY <1>1, <1>6 DEF Answer, TypeOK
  <2> QED BY <1>1, <2>1, <2>3, <2>4, ForeignLists, ForeignTypes DEF TypeOK, clock, polls
<1>7. CASE Escape
  <2>1. disturbed' \in 0..MaxDisturbed
    BY <1>1, <1>7 DEF Escape, TypeOK
  <2>2. pending' \in Seq(Tasks) /\ ticking' \in BOOLEAN /\ pc' = "idle"
    BY <1>7, EmptySeq DEF Escape, LeaveTick
  <2> QED BY <1>1, <1>7, <2>1, <2>2 DEF Escape, TypeOK, clock, tasks, sockets, polls
<1>8. CASE ChecksDone
  BY <1>1, <1>8 DEF ChecksDone, TypeOK, faults, clock, tasks, sockets, polls
<1>9. ASSUME NEW t \in Tasks, Fire(t) PROVE TypeOK'
  <2>1. ForeignStep /\ pc' = "counting" /\ UNCHANGED <<walk, clock, polls>>
    BY <1>9 DEF Fire, ForeignStep
  <2>2. handler_errors' \in 0..MaxErrors
    BY <1>1, <1>9 DEF Fire, RecordHandlerFault, TypeOK
  <2> QED BY <1>1, <2>1, <2>2, ForeignLists, ForeignTypes DEF TypeOK, walk, clock, polls
<1>10. CASE CountRun
  <2> DEFINE t == pending[ix]
  <2>1. t \in Tasks /\ ix \in DOMAIN pending
    BY <1>1, <1>10, ElementOfSeq, LenProperties DEF CountRun, TypeOK, Walk
  <2>2. run_count[t] # None => run_count[t] \in Nat /\ run_count[t] >= 1
    BY <1>1, <1>10, <2>1 DEF CountRun, RunsLeft, TypeOK
  <2>3. run_count' \in [Tasks -> Nat \cup {None}]
    <3>1. run_count \in [Tasks -> Nat \cup {None}]
      BY <1>1 DEF TypeOK
    <3>2. \/ run_count' = run_count
          \/ run_count[t] # None /\ run_count' = [run_count EXCEPT ![t] = run_count[t] - 1]
      BY <1>10 DEF CountRun
    <3> HIDE DEF t
    <3> QED BY <2>1, <2>2, <3>1, <3>2
  <2>4. entries' \in Seq(Tasks)
    BY <1>1, <1>10, <2>1, WithoutEntry DEF CountRun, TypeOK, Walk
  <2> QED BY <1>1, <1>10, <2>3, <2>4 DEF CountRun, TypeOK, faults, clock, tasks, sockets, polls
<1>11. CASE TickReturns
  BY <1>1, <1>11, EmptySeq DEF TickReturns, LeaveTick, TypeOK, faults, clock, tasks, sockets, polls
<1>12. CASE Wait
  <2>1. timeout' \in Int \cup {None} /\ poller' \in BOOLEAN
        /\ pc' \in {"polling", "sleeping", "idle"}
    BY <1>1, <1>12, TimeoutType DEF Wait, TypeOK
  <2>2. registered' \in [Sockets -> Slot \cup {None}]
    <3>1. \A s \in Sockets : Slots[s] \in Slot \cup {None}
      BY <1>1, SlotOf
    <3> QED BY <1>12, <3>1 DEF Wait, Slots
  <2> DEFINE Masked(f) == /\ DOMAIN f \subseteq Descriptors
                          /\ \A d \in DOMAIN f : f[d] \in (SUBSET {"read", "write"}) \ {{}}
  <2>3. ASSUME NEW S \in SUBSET {s \in Sockets : Wanted(s) # {}}
        PROVE  Masked(MaskOf(Slots, S))
    <3>1. \A s \in S : /\ Slots[s].fd \in Descriptors
                       /\ Slots[s].mask \in (SUBSET {"read", "write"}) \ {{}}
      <4> TAKE s \in S
      <4>1. s \in Sockets /\ Wanted(s) # {}
        BY <2>3
      <4> QED BY <1>1, <4>1, SlotOf DEF Slot
    <3>2. ASSUME NEW d \in {Slots[s].fd : s \in S}
          PROVE  (CHOOSE s \in S : Slots[s].fd = d) \in S
      OBVIOUS
    <3> DEFINE f == MaskOf(Slots, S)
    <3>3. DOMAIN f = {Slots[s].fd : s \in S}
      BY DEF MaskOf
    <3>4. \A d \in DOMAIN f : f[d] = Slots[CHOOSE s \in S : Slots[s].fd = d].mask
      BY DEF MaskOf
    <3> HIDE DEF f
    <3>5. DOMAIN f \subseteq Descriptors
      BY <3>1, <3>3
    <3>6. \A d \in DOMAIN f : f[d] \in (SUBSET {"read", "write"}) \ {{}}
      BY <3>1, <3>2, <3>3, <3>4
    <3> QED BY <3>5, <3>6 DEF f
  <2>4. Masked(Replay) /\ Masked(MaskOf(Slots, {s \in Sockets : Changed(s)}))
    BY <1>1, <2>3, SlotOf DEF Replay, Changed
  <2>5. Masked(poll_set)
    BY <1>1 DEF TypeOK
  <2>6. Masked(Synced)
    BY <2>4, <2>5 DEF Synced
  <2>7. Masked(poll_set')
    BY <1>12, <2>4, <2>5, <2>6 DEF Wait
  <2> QED BY <1>1, <1>12, <2>1, <2>2, <2>7 DEF Wait, TypeOK, walk, faults, tasks, sockets
<1>13. CASE Wake
  <2>1. late' \in Nat
    BY <1>1, <1>13 DEF Wake, Blocks, TypeOK
  <2> QED BY <1>1, <1>13, <2>1 DEF Wake, TypeOK, walk, faults, tasks, sockets, polls
<1>14. CASE Ready
  BY <1>1, <1>14 DEF Ready, TypeOK, walk, faults, clock, tasks, sockets
<1>15. CASE DispatchIoError
  <2>1. ForeignStep /\ UNCHANGED <<pc, walk, clock, registered, poller, poll_set>>
    BY <1>1, <1>15, DispatchIsForeign DEF DispatchIoError
  <2>2. handler_errors' \in 0..MaxErrors
    BY <1>1, <1>15 DEF DispatchIoError, RecordHandlerFault, TypeOK
  <2>3. events' \subseteq Descriptors
    BY <1>1, <1>15 DEF DispatchIoError, TypeOK
  <2> QED BY <1>1, <2>1, <2>2, <2>3, ForeignLists, ForeignTypes DEF TypeOK, walk, clock
<1>16. CASE WaitReturns
  BY <1>1, <1>16 DEF WaitReturns, TypeOK, walk, faults, clock, tasks, sockets, polls
<1> QED BY <1>2, <1>3, <1>4, <1>5, <1>6, <1>7, <1>8, <1>9, <1>10, <1>11, <1>12,
           <1>13, <1>14, <1>15, <1>16 DEF Next, Loop


(* Appending to a list without duplicates what is not in it.                *)
LEMMA DistinctAppend ==
  ASSUME NEW q \in Seq(Tasks), NEW t \in Tasks, Distinct(q),
         \A i \in DOMAIN q : q[i] # t
  PROVE  Distinct(Append(q, t))
<1>1. /\ Len(q) \in Nat /\ DOMAIN q = 1..Len(q)
      /\ DOMAIN Append(q, t) = 1..(Len(q) + 1)
      /\ \A i \in 1..Len(q) : Append(q, t)[i] = q[i]
      /\ Append(q, t)[Len(q) + 1] = t
  BY AppendProperties, LenProperties
<1> DEFINE r == Append(q, t)
<1> HIDE DEF r
<1>2. ASSUME NEW i \in DOMAIN r, NEW j \in DOMAIN r, r[i] = r[j] PROVE i = j
  BY <1>1, <1>2 DEF Distinct, r
<1> QED BY <1>2 DEF Distinct, r

(* What foreign code leaves of the walk: an entry it added is not pending,  *)
(* and one it moved came from at most one place further on.                 *)
LEMMA ForeignUnreached ==
  ASSUME TypeOK, Walk, ForeignStep, NEW n \in Nat,
         NEW t \in added, \A j \in DOMAIN entries : j >= n => entries[j] # t
  PROVE  \A j \in DOMAIN entries' : j >= n => entries'[j] # t
<1> SUFFICES ASSUME NEW j \in DOMAIN entries', j >= n, entries'[j] = t
             PROVE  FALSE
  OBVIOUS
<1>1. Moved(j) /\ entries' \in Seq(Tasks)
  BY ForeignLists
<1>2. j \in Nat
  BY <1>1, LenProperties
<1> QED BY <1>1, <1>2 DEF Moved

(* The walk over the entries, one action at a time.                         *)
LEMMA WalkStep ==
  ASSUME IInv, Next
  PROVE  Walk'
<1>1. TypeOK /\ Walk
  BY DEF IInv
<1> DEFINE Unreached == \A i \in DOMAIN pending, j \in DOMAIN entries :
                           j >= ix => entries[j] # pending[i]
<1>2. ASSUME ForeignStep, UNCHANGED walk, pc' = pc \/ pc' = "counting",
             pc \notin {"asking", "counting"}, pc' = "counting" => ix <= Len(pending),
             pc # "checking"
      PROVE  Walk'
  BY <1>1, <1>2, ForeignLists DEF Walk, walk
<1>3. CASE Application
  BY <1>1, <1>2, <1>3 DEF Application, ForeignStep
<1>4. CASE DispatchIoError
  BY <1>1, <1>2, <1>4, DispatchIsForeign DEF DispatchIoError
<1>5. CASE \E t \in Tasks : Fire(t)
  BY <1>1, <1>2, <1>5 DEF Fire, ForeignStep
<1>6. CASE BeginTick
  <2>1. pending' = <<>> /\ ix' = 1 /\ UNCHANGED <<entries, added>> /\ pc' = "checking"
    BY <1>6 DEF BeginTick
  <2> QED BY <1>1, <2>1 DEF Walk, Active, Distinct
<1>7. CASE CheckEntry
  <2> DEFINE t == entries[ix]
  <2>1. /\ pc = "checking" /\ ix <= Len(entries) /\ UNCHANGED <<entries, added>>
        /\ \/ pending' = pending /\ ix' = ix + 1 /\ pc' = pc
           \/ pending' = pending /\ ix' = ix /\ pc' = "asking"
           \/ pending' = Append(pending, t) /\ ix' = ix + 1 /\ pc' = pc
    BY <1>7 DEF CheckEntry
  <2>2. Walk' \/ pending' # pending
    BY <1>1, <2>1 DEF Walk, Active, TypeOK
  <2>3. CASE pending' = Append(pending, t) /\ ix' = ix + 1 /\ pc' = pc
    <3>1. ix \in DOMAIN entries /\ t \in Tasks /\ t \in added
      BY <1>1, <2>1, LenProperties DEF Walk, Active, TypeOK
    <3>2. \A i \in DOMAIN pending : pending[i] # t
      BY <1>1, <2>1, <3>1 DEF Walk, TypeOK
    <3>3. Distinct(pending')
      BY <1>1, <2>3, <3>1, <3>2, DistinctAppend DEF Walk, TypeOK
    <3>4. /\ \A i \in DOMAIN pending' :
               pending'[i] = t \/ (i \in DOMAIN pending /\ pending'[i] = pending[i])
      BY <1>1, <2>3, <3>1, AppendProperties, LenProperties DEF TypeOK
    <3>5. \A j \in DOMAIN entries : j >= ix + 1 => entries[j] # t
      BY <1>1, <3>1, LenProperties DEF Walk, Distinct, TypeOK
    <3>6. \A i \in DOMAIN pending', j \in DOMAIN entries :
             j >= ix + 1 => entries[j] # pending'[i]
      BY <1>1, <2>1, <3>4, <3>5, LenProperties DEF Walk, TypeOK
    <3> HIDE DEF t
    <3> QED BY <1>1, <2>1, <2>3, <3>1, <3>3, <3>4, <3>6 DEF Walk, Active, TypeOK
  <2> QED BY <2>1, <2>2, <2>3
<1>8. CASE Answer
  <2> DEFINE t == entries[ix]
  <2>1. /\ ForeignStep /\ pc = "asking" /\ pc' = "checking" /\ ix' = ix + 1
        /\ pending' \in {pending, Append(pending, t)}
    BY <1>8 DEF Answer, ForeignStep
  <2>2. ix \in DOMAIN entries /\ t \in Tasks /\ t \in added
    BY <1>1, <2>1, LenProperties DEF Walk, Active, TypeOK
  <2>3. \A i \in DOMAIN pending : pending[i] # t
    BY <1>1, <2>1, <2>2 DEF Walk, TypeOK
  <2> DEFINE longer == Append(pending, t)
  <2>10. Distinct(pending) /\ Distinct(longer)
    BY <1>1, <2>2, <2>3, DistinctAppend DEF Walk, TypeOK
  <2>11. \A i \in DOMAIN longer :
            longer[i] = t \/ (i \in DOMAIN pending /\ longer[i] = pending[i])
    BY <1>1, <2>2, AppendProperties, LenProperties DEF TypeOK
  <2> HIDE DEF longer
  <2>4. Distinct(pending')
    BY <2>1, <2>10 DEF longer
  <2>5. \A i \in DOMAIN pending' :
           pending'[i] = t \/ (i \in DOMAIN pending /\ pending'[i] = pending[i])
    BY <2>1, <2>11 DEF longer
  <2>6. \A j \in DOMAIN entries : j >= ix + 1 => entries[j] # t
    BY <1>1, <2>2, LenProperties DEF Walk, Distinct, TypeOK
  <2>7. \A i \in DOMAIN pending' :
           /\ pending'[i] \in added
           /\ \A j \in DOMAIN entries : j >= ix + 1 => entries[j] # pending'[i]
    BY <1>1, <2>1, <2>2, <2>5, <2>6, LenProperties DEF Walk, TypeOK
  <2>8. ix + 1 \in Nat
    BY <1>1 DEF TypeOK
  <2>9. \A i \in DOMAIN pending' :
           \A j \in DOMAIN entries' : j >= ix + 1 => entries'[j] # pending'[i]
    BY <1>1, <2>1, <2>7, <2>8, ForeignUnreached
  <2> HIDE DEF t
  <2> QED BY <1>1, <2>1, <2>4, <2>7, <2>9, ForeignLists DEF Walk, TypeOK
<1>9. CASE ChecksDone
  BY <1>1, <1>9 DEF ChecksDone, Walk, Active, tasks
<1>10. CASE Escape \/ TickReturns
  BY <1>1, <1>10 DEF Escape, TickReturns, LeaveTick, Walk, Active, Distinct, tasks
<1>11. CASE CountRun
  <2> DEFINE t == pending[ix]
  <2>1. entries' = entries \/ entries' = Without(entries, t)
    BY <1>11 DEF CountRun
  <2>2. t \in Tasks
    BY <1>1, <1>11, ElementOfSeq DEF CountRun, Walk, TypeOK
  <2>3. added' = added
    BY <1>11 DEF CountRun, tasks
  <2>4. Distinct(entries') /\ Active' \subseteq Active
    BY <1>1, <2>1, <2>2, <2>3, ForeignWithout DEF Walk, Active
  <2> QED BY <1>1, <1>11, <2>3, <2>4 DEF CountRun, Walk, TypeOK
<1>12. CASE Elapse \/ Wait \/ Wake \/ Ready \/ WaitReturns
  BY <1>1, <1>12 DEF Elapse, Wait, Wake, Ready, WaitReturns, Walk, Active, walk, tasks
<1> QED BY <1>3, <1>4, <1>5, <1>6, <1>7, <1>8, <1>9, <1>10, <1>11, <1>12 DEF Next, Loop


(* CountRun takes the last run of a task together with its entry.           *)
LEMMA RunsLeftStep ==
  ASSUME IInv, Next
  PROVE  RunsLeft'
<1>1. TypeOK /\ Walk /\ RunsLeft
  BY DEF IInv
<1> DEFINE Pending(t) == \E i \in DOMAIN pending :
                           pending[i] = t /\ (pc \in {"firing", "counting"} => i >= ix)
           MayFire(t) == t \notin added \/ t \in Active \/ Pending(t)
(* Most steps add nothing to the tasks that may fire.                       *)
<1>2. ASSUME run_count' = run_count, \A t \in Tasks : MayFire(t)' => MayFire(t)
      PROVE  RunsLeft'
  BY <1>1, <1>2 DEF RunsLeft
<1>3. ASSUME ForeignStep, UNCHANGED <<pending, ix>>,
             pc' = pc \/ (pc = "firing" /\ pc' = "counting")
      PROVE  RunsLeft'
  <2>1. \A t \in Tasks : MayFire(t)' => MayFire(t)
    BY <1>1, <1>3, ForeignLists
  <2> QED BY <1>1, <1>2, <1>3, <2>1, ForeignLists
<1>4. CASE Application
  BY <1>3, <1>4 DEF Application, ForeignStep, walk
<1>5. CASE DispatchIoError
  BY <1>1, <1>3, <1>5, DispatchIsForeign DEF DispatchIoError, walk
<1>6. CASE \E t \in Tasks : Fire(t)
  BY <1>3, <1>6 DEF Fire, ForeignStep, walk
<1>7. CASE BeginTick \/ Escape \/ TickReturns
  <2>1. pending' = <<>> /\ UNCHANGED <<entries, added, run_count>>
    BY <1>7 DEF BeginTick, Escape, TickReturns, LeaveTick, tasks
  <2> QED BY <1>2, <2>1 DEF Active
<1>8. CASE CheckEntry \/ Answer
  <2> DEFINE t == entries[ix]
  <2>1. /\ pc \in {"checking", "asking"} /\ pc' \in {"checking", "asking"}
        /\ pending' \in {pending, Append(pending, t)}
        /\ ForeignStep \/ UNCHANGED <<entries, added, run_count>>
        /\ ix \in DOMAIN entries
    BY <1>1, <1>8, LenProperties DEF CheckEntry, Answer, ForeignStep, Walk, TypeOK
  <2>2. t \in Active /\ t \in Tasks
    BY <1>1, <2>1, ElementOfSeq DEF Active, TypeOK
  <2>3. /\ run_count' = run_count /\ added \subseteq added'
        /\ Active' \subseteq Active \cup (added' \ added)
    BY <1>1, <2>1, ForeignLists DEF Active
  <2> DEFINE longer == Append(pending, t)
  <2>4. \A i \in DOMAIN longer :
           longer[i] = t \/ (i \in DOMAIN pending /\ longer[i] = pending[i])
    BY <1>1, <2>2, AppendProperties, LenProperties DEF TypeOK
  <2> HIDE DEF longer
  <2>5. \A i \in DOMAIN pending' :
           pending'[i] = t \/ (i \in DOMAIN pending /\ pending'[i] = pending[i])
    BY <2>1, <2>4 DEF longer
  <2> HIDE DEF t
  <2>6. \A u \in Tasks : MayFire(u)' => MayFire(u)
    BY <2>1, <2>2, <2>3, <2>5
  <2> QED BY <1>2, <2>3, <2>6
<1>9. CASE ChecksDone
  <2>1. \A t \in Tasks : MayFire(t)' => MayFire(t)
    BY <1>9 DEF ChecksDone, Active, tasks
  <2> QED BY <1>2, <1>9, <2>1 DEF ChecksDone
<1>10. CASE CountRun
  <2>1. /\ pc = "counting" /\ pc' = "firing" /\ ix' = ix + 1
        /\ UNCHANGED <<pending, added>>
        /\ ix \in DOMAIN pending /\ ix \in Nat /\ DOMAIN pending = 1..Len(pending)
    BY <1>1, <1>10, LenProperties DEF CountRun, Walk, TypeOK, tasks
  <2>2. PICK t \in Tasks : t = pending[ix] /\ t \in added
    BY <1>1, <2>1, ElementOfSeq DEF Walk, TypeOK
  <2>3. \A i \in DOMAIN pending : i >= ix + 1 => pending[i] # t
    BY <1>1, <2>1, <2>2 DEF Walk, Distinct
  <2>4. \/ UNCHANGED <<run_count, entries>> /\ run_count[t] = None
        \/ /\ run_count[t] # None
           /\ run_count' = [run_count EXCEPT ![t] = run_count[t] - 1]
           /\ entries' = IF run_count[t] - 1 <= 0 THEN Without(entries, t) ELSE entries
    BY <1>10, <2>2 DEF CountRun, Exhausted
  <2>5. Active' \subseteq Active
    BY <1>1, <2>1, <2>2, <2>4, ForeignWithout DEF Active
  <2>6. run_count[t] # None /\ run_count[t] - 1 <= 0 => t \notin Active'
    BY <1>1, <2>1, <2>2, <2>4, ForeignWithout
  <2>7. \A u \in Tasks : MayFire(u)' => MayFire(u)
    BY <2>1, <2>5
  <2>8. \A u \in Tasks : u # t => run_count'[u] = run_count[u]
    BY <1>1, <2>2, <2>4 DEF TypeOK
  <2>9. MayFire(t)' => t \in Active'
    BY <2>1, <2>2, <2>3
  <2>10. run_count[t] # None => run_count[t] \in Nat /\ run_count'[t] = run_count[t] - 1
    BY <1>1, <2>2, <2>4 DEF TypeOK
  <2>11. ASSUME NEW u \in Tasks, run_count'[u] # None, MayFire(u)'
         PROVE  run_count'[u] >= 1
    <3>1. CASE u # t
      BY <1>1, <2>7, <2>8, <2>11, <3>1 DEF RunsLeft
    <3>2. CASE u = t
      BY <2>4, <2>6, <2>9, <2>10, <2>11, <3>2
    <3> QED BY <3>1, <3>2
  <2> QED BY <2>11 DEF RunsLeft
<1>11. CASE Elapse \/ Wait \/ Wake \/ Ready \/ WaitReturns
  <2>1. /\ UNCHANGED <<entries, pending, ix, added, run_count>>
        /\ pc' \in {"firing", "counting"} => pc' = pc
    BY <1>11 DEF Elapse, Wait, Wake, Ready, WaitReturns, walk, tasks
  <2>2. \A t \in Tasks : MayFire(t)' => MayFire(t)
    <3>1. \A t \in Tasks : Pending(t)' => Pending(t)
      BY <1>11, <2>1 DEF Elapse, Wait, Wake, Ready, WaitReturns
    <3> QED BY <2>1, <3>1 DEF Active
  <2> QED BY <1>2, <2>1, <2>2
<1> QED BY <1>4, <1>5, <1>6, <1>7, <1>8, <1>9, <1>10, <1>11 DEF Next, Loop


(* Foreign code makes no added task due: set_period() counts from its own   *)
(* reading of the clock, which is not before now_ms.                        *)
LEMMA ForeignDues ==
  ASSUME TypeOK, Walk, ForeignStep, NEW t \in added, Later(t)
  PROVE  Later(t)'
<1> USE RunnerAssumption
<1>1. CASE \E u \in Tasks : Add(u)
  <2>1. PICK u \in Tasks : Add(u)
    BY <1>1
  <2>2. u # t /\ next_due' = [next_due EXCEPT ![u] = FirstDue(u)]
    BY <2>1 DEF Add
  <2>3. next_due'[t] = next_due[t]
    BY <2>2 DEF TypeOK
  <2> QED BY <2>3 DEF Later
<1>2. CASE \E u \in Tasks : \E p \in NewPeriods[u] : SetPeriod(u, p)
  <2>1. PICK u \in Tasks : \E p \in NewPeriods[u] : SetPeriod(u, p)
    BY <1>2
  <2>2. PICK p \in NewPeriods[u] : SetPeriod(u, p)
    BY <2>1
  <2>3. p \in (Nat \ {0}) \cup {None}
    OBVIOUS
  <2>4. next_due' = [next_due EXCEPT ![u] = IF p = None THEN None ELSE late + p]
    BY <2>2 DEF SetPeriod
  <2>5. late \in Nat /\ next_due \in [Tasks -> Int \cup {None}] /\ t \in Tasks
    BY DEF TypeOK
  <2>6. next_due'[t] = IF t # u THEN next_due[t] ELSE IF p = None THEN None ELSE late + p
    BY <2>4, <2>5
  <2>7. p # None => late + p > 0
    BY <2>3, <2>5
  <2> QED BY <2>6, <2>7 DEF Later
<1>3. CASE UNCHANGED next_due
  BY <1>3 DEF Later
<1>4. \/ \E u \in Tasks : Add(u)
      \/ \E u \in Tasks : \E p \in NewPeriods[u] : SetPeriod(u, p)
      \/ UNCHANGED next_due
  BY DEF ForeignStep, Effect, foreign, Remove, UseSockets, RecordHandlerFault, tasks, Services
<1> QED BY <1>1, <1>2, <1>3, <1>4

(* CheckEntry moves a deadline before its task is asked or pending.         *)
LEMMA DueLaterStep ==
  ASSUME IInv, Next
  PROVE  DueLater'
<1> USE RunnerAssumption
<1>1. TypeOK /\ Walk /\ DueLater
  BY DEF IInv
<1>2. ASSUME ForeignStep, UNCHANGED pending, pc' # "asking"
      PROVE  DueLater'
  <2>1. \A i \in DOMAIN pending : pending[i] \in added /\ Later(pending[i])
    BY <1>1 DEF Walk, DueLater
  <2>2. ASSUME NEW i \in DOMAIN pending PROVE Later(pending[i])'
    <3>1. PICK t \in added : t = pending[i] /\ Later(t)
      BY <2>1
    <3>2. Later(t)'
      BY <1>1, <1>2, <3>1, ForeignDues
    <3> QED BY <1>2, <3>1, <3>2 DEF Later
  <2> QED BY <1>2, <2>2 DEF DueLater
<1>3. CASE Application
  BY <1>2, <1>3 DEF Application, ForeignStep, walk
<1>4. CASE DispatchIoError
  BY <1>1, <1>2, <1>4, DispatchIsForeign DEF DispatchIoError, walk
<1>5. CASE \E t \in Tasks : Fire(t)
  BY <1>2, <1>5 DEF Fire, ForeignStep, walk
<1>6. CASE BeginTick \/ Escape \/ TickReturns
  BY <1>6 DEF BeginTick, Escape, TickReturns, LeaveTick, DueLater
<1>7. CASE CheckEntry
  <2>1. PICK t \in Tasks : t = entries[ix]
    BY <1>1, <1>7, ElementOfSeq DEF CheckEntry, Walk, TypeOK
  <2>2. /\ pc' \in {"checking", "asking"} /\ UNCHANGED <<entries, period>>
        /\ \/ pc' = "checking" /\ UNCHANGED <<pending, next_due>>
           \/ /\ Due(t)
              /\ next_due' = IF next_due[t] = None THEN next_due
                             ELSE [next_due EXCEPT ![t] = NextDue(t)]
              /\ \/ pending' = pending /\ ix' = ix
                 \/ pending' = Append(pending, t) /\ pc' = "checking"
    BY <1>7, <2>1 DEF CheckEntry
  <2>3. CASE pc' = "checking" /\ UNCHANGED <<pending, next_due>>
    BY <1>1, <2>3 DEF DueLater, Later
  <2>4. CASE pc' # "checking" \/ ~UNCHANGED <<pending, next_due>>
    <3>1. next_due[t] # None => next_due[t] \in Int
      BY <1>1, <2>1 DEF TypeOK
    <3>2. period[t] # None => period[t] \in Nat \ {0}
      BY <1>1, <2>1 DEF TypeOK
    <3>3. next_due[t] # None => NextDue(t) = None \/ NextDue(t) > 0
      <4>1. ASSUME next_due[t] # None, period[t] # None
            PROVE  next_due[t] + ((-next_due[t]) \div period[t] + 1) * period[t] > 0
        BY <3>1, <3>2, <4>1, NextWholePeriod
      <4>2. period[t] # None => period[t] > 0
        BY <3>2
      <4> QED BY <4>1, <4>2 DEF NextDue
    <3>4. next_due \in [Tasks -> Int \cup {None}]
      BY <1>1 DEF TypeOK
    <3>5. /\ next_due'[t] # None => next_due'[t] > 0
          /\ \A u \in Tasks : u # t => next_due'[u] = next_due[u]
      BY <2>1, <2>2, <2>4, <3>3, <3>4
    <3>6. \A u \in Tasks : Later(u) => Later(u)'
      BY <3>5 DEF Later
    <3>7. Later(t)'
      BY <3>5 DEF Later
    <3>8. \A i \in DOMAIN pending : pending[i] \in Tasks /\ Later(pending[i])
      BY <1>1, ElementOfSeq, LenProperties DEF DueLater, TypeOK
    <3>9. \A i \in DOMAIN pending' :
            pending'[i] = t \/ (i \in DOMAIN pending /\ pending'[i] = pending[i])
      <4>1. \A i \in DOMAIN Append(pending, t) :
              \/ Append(pending, t)[i] = t
              \/ i \in DOMAIN pending /\ Append(pending, t)[i] = pending[i]
        BY <1>1, <2>1, AppendProperties, LenProperties DEF TypeOK
      <4> QED BY <2>2, <2>4, <4>1
    <3>10. \A i \in DOMAIN pending' : Later(pending[i])'
      BY <3>6, <3>7, <3>8, <3>9 DEF Later
    <3>11. pc' = "asking" => entries'[ix'] = t
      BY <2>1, <2>2
    <3> QED BY <3>7, <3>10, <3>11 DEF DueLater, Later
  <2> QED BY <2>3, <2>4
<1>8. CASE Answer
  <2>1. PICK t \in Tasks : t = entries[ix] /\ t \in added /\ Later(t)
    BY <1>1, <1>8, LenProperties, ElementOfSeq DEF Answer, Walk, Active, DueLater, TypeOK
  <2>2. ForeignStep /\ pc' = "checking" /\ pending' \in {pending, Append(pending, t)}
    BY <1>8, <2>1 DEF Answer, ForeignStep
  <2>3. \A i \in DOMAIN pending : pending[i] \in added /\ Later(pending[i])
    BY <1>1 DEF Walk, DueLater
  <2>4. \A i \in DOMAIN Append(pending, t) :
              \/ Append(pending, t)[i] = t
              \/ i \in DOMAIN pending /\ Append(pending, t)[i] = pending[i]
    BY <1>1, <2>1, AppendProperties, LenProperties DEF TypeOK
  <2>5. ASSUME NEW i \in DOMAIN pending' PROVE Later(pending[i])'
    <3>1. PICK u \in added : u = pending'[i] /\ Later(u)
      BY <2>1, <2>2, <2>3, <2>4, <2>5
    <3>2. Later(u)'
      BY <1>1, <2>2, <3>1, ForeignDues
    <3> QED BY <3>1, <3>2 DEF Later
  <2> QED BY <2>2, <2>5 DEF DueLater
<1>9. CASE ChecksDone \/ CountRun \/ Elapse \/ Wait \/ Wake \/ Ready \/ WaitReturns
  BY <1>1, <1>9 DEF ChecksDone, CountRun, Elapse, Wait, Wake, Ready, WaitReturns, DueLater,
                    Later, walk, tasks
<1> QED BY <1>3, <1>4, <1>5, <1>6, <1>7, <1>8, <1>9 DEF Next, Loop


(* A task is added on its grid; set_period() starts a new one.              *)
LEMMA ForeignAligned ==
  ASSUME TypeOK, Walk, Aligned, ForeignStep
  PROVE  Aligned'
<1> USE RunnerAssumption
<1>1. /\ Active' \subseteq Active \cup (added' \ added) /\ added \subseteq added'
      /\ Active \subseteq added /\ added \subseteq Tasks
  BY ForeignLists DEF Walk, TypeOK
<1>2. CASE \E t \in Tasks : Add(t)
  <2>1. PICK t \in Tasks : Add(t)
    BY <1>2
  <2>2. /\ t \notin added /\ added' = added \cup {t} /\ period' = period
        /\ next_due' = [next_due EXCEPT ![t] = FirstDue(t)]
        /\ phase' = [phase EXCEPT ![t] = Phase(t, FirstDue(t), period[t])]
    BY <2>1 DEF Add
  <2>3. /\ \A u \in Tasks : u # t => next_due'[u] = next_due[u] /\ phase'[u] = phase[u]
        /\ next_due'[t] = FirstDue(t) /\ phase'[t] = Phase(t, FirstDue(t), period[t])
    BY <2>2 DEF TypeOK
  <2>4. OnGrid(t)'
    <3>1. CASE Options[t].preserve /\ period[t] # None
      <4>1. FirstDue(t) # None
        BY <3>1, <2>2 DEF Aligned, FirstDue, FirstDelay, Arguments, TypeOK
      <4> QED BY <2>2, <2>3, <3>1, <4>1 DEF OnGrid, Phase
    <3> QED BY <2>2, <3>1 DEF OnGrid
  <2>5. ASSUME NEW u \in Active, u # t PROVE OnGrid(u)'
    BY <1>1, <2>2, <2>3, <2>5 DEF Aligned, OnGrid
  <2> QED BY <1>1, <2>2, <2>4, <2>5 DEF Aligned
<1>3. CASE \E t \in Tasks : \E p \in NewPeriods[t] : SetPeriod(t, p)
  <2>1. PICK t \in Tasks : \E p \in NewPeriods[t] : SetPeriod(t, p)
    BY <1>3
  <2>2. PICK p \in NewPeriods[t] : SetPeriod(t, p)
    BY <2>1
  <2>3. /\ t \in Active /\ UNCHANGED <<entries, added>>
        /\ period' = [period EXCEPT ![t] = p]
        /\ next_due' = [next_due EXCEPT ![t] = IF p = None THEN None ELSE late + p]
        /\ phase' = [phase EXCEPT ![t] = IF p = None THEN 0 ELSE Phase(t, late + p, p)]
    BY <2>2 DEF SetPeriod
  <2>4. /\ \A u \in Tasks : u # t => /\ next_due'[u] = next_due[u] /\ phase'[u] = phase[u]
                                     /\ period'[u] = period[u]
        /\ next_due'[t] = (IF p = None THEN None ELSE late + p) /\ period'[t] = p
        /\ phase'[t] = IF p = None THEN 0 ELSE Phase(t, late + p, p)
    BY <2>3 DEF TypeOK
  <2>5. OnGrid(t)'
    <3>1. p # None => late + p # None
      BY DEF TypeOK
    <3> QED BY <2>4, <3>1 DEF OnGrid, Phase
  <2>6. ASSUME NEW u \in Active, u # t PROVE OnGrid(u)'
    BY <1>1, <2>4, <2>6 DEF Aligned, OnGrid
  <2> QED BY <1>1, <2>3, <2>4, <2>5, <2>6 DEF Aligned, Active
<1>4. CASE UNCHANGED <<next_due, period, phase, added>>
  <2>1. ASSUME NEW u \in Active PROVE OnGrid(u)'
    BY <1>4 DEF Aligned, OnGrid
  <2> QED BY <1>1, <1>4, <2>1 DEF Aligned
<1>5. \/ \E t \in Tasks : Add(t)
      \/ \E t \in Tasks : \E p \in NewPeriods[t] : SetPeriod(t, p)
      \/ UNCHANGED <<next_due, period, phase, added>>
  BY DEF ForeignStep, Effect, foreign, Remove, UseSockets, RecordHandlerFault, tasks, Services
<1> QED BY <1>2, <1>3, <1>4, <1>5

(* Moving now_ms, or a deadline by whole periods, keeps it on the grid.     *)
Residue(d, p, r) == d % p = r

LEMMA GridShift ==
  ASSUME NEW d \in Int, NEW l \in Int, NEW p \in Nat \ {0}, NEW c, NEW r,
         Residue(d, p, c), Residue(c - l, p, r)
  PROVE  Residue(d - l, p, r)
BY ModShift, Zenon DEF Residue

LEMMA GridPeriod ==
  ASSUME NEW d \in Int, NEW k \in Int, NEW p \in Nat \ {0}, NEW r, Residue(d, p, r)
  PROVE  Residue(d + k * p, p, r)
BY ModPeriod, Zenon DEF Residue

(* The tick moves now_ms and the walk moves deadlines: neither leaves a     *)
(* grid.                                                                    *)
LEMMA AlignedStep ==
  ASSUME IInv, Next
  PROVE  Aligned'
<1> USE RunnerAssumption
<1>1. TypeOK /\ Walk /\ Aligned /\ Active \subseteq Tasks
  BY DEF IInv, Walk, TypeOK
<1>2. CASE Application \/ DispatchIoError \/ Answer \/ \E t \in Tasks : Fire(t)
  <2>1. ForeignStep
    BY <1>1, <1>2, DispatchIsForeign DEF Application, Answer, Fire, ForeignStep
  <2> QED BY <1>1, <2>1, ForeignAligned
<1>3. CASE BeginTick
  <2>1. /\ UNCHANGED <<entries, added, period>>
        /\ next_due' = [t \in Tasks |-> Since(t, next_due)]
        /\ phase' = [t \in Tasks |-> IF Options[t].preserve /\ t \in Active
                                       THEN Phase(t, phase[t] - late, period[t]) ELSE 0]
    BY <1>3 DEF BeginTick
  <2>2. ASSUME NEW t \in Active, Options[t].preserve, period[t] # None
        PROVE  next_due'[t] # None /\ next_due'[t] % period[t] = phase'[t]
    <3>1. /\ next_due[t] # None /\ next_due[t] % period[t] = phase[t]
          /\ next_due[t] \in Int /\ period[t] \in Nat \ {0} /\ late \in Int
      BY <1>1, <2>2 DEF Aligned, OnGrid, TypeOK
    <3>2. next_due'[t] = next_due[t] - late
      BY <1>1, <2>1, <3>1 DEF Since
    <3>3. phase'[t] = (phase[t] - late) % period[t]
      BY <1>1, <2>1, <2>2 DEF Phase
    <3>4. Residue(next_due[t], period[t], phase[t])
      BY <3>1 DEF Residue
    <3>5. Residue(phase[t] - late, period[t], phase'[t])
      BY <3>3 DEF Residue
    <3>6. Residue(next_due[t] - late, period[t], phase'[t])
      BY <3>1, <3>4, <3>5, GridShift
    <3>7. next_due[t] - late \in Int
      BY <3>1
    <3> QED BY <3>2, <3>6, <3>7 DEF Residue
  <2>3. \A t \in Active : OnGrid(t)'
    BY <2>1, <2>2 DEF OnGrid
  <2> QED BY <1>1, <2>1, <2>3 DEF Aligned, Active
<1>4. CASE CheckEntry
  <2>1. PICK t \in Tasks : t = entries[ix] /\ t \in Active
    BY <1>1, <1>4, ElementOfSeq, LenProperties DEF CheckEntry, Walk, TypeOK, Active
  <2>2. /\ UNCHANGED <<entries, added, period, phase>>
        /\ \/ next_due' = next_due
           \/ next_due[t] # None /\ next_due' = [next_due EXCEPT ![t] = NextDue(t)]
    BY <1>4, <2>1 DEF CheckEntry
  <2>3. \A u \in Tasks : u # t => next_due'[u] = next_due[u]
    BY <1>1, <2>1, <2>2 DEF TypeOK
  <2>4. OnGrid(t)'
    <3>1. CASE next_due' = next_due
      BY <1>1, <2>1, <2>2, <3>1 DEF Aligned, OnGrid
    <3>2. CASE next_due' # next_due /\ Options[t].preserve /\ period[t] # None
      <4> DEFINE k == (-next_due[t]) \div period[t] + 1
      <4>1. /\ next_due[t] % period[t] = phase[t]
            /\ next_due[t] \in Int /\ period[t] \in Nat \ {0}
        BY <1>1, <2>1, <2>2, <3>2 DEF Aligned, OnGrid, TypeOK
      <4>2. k \in Int /\ next_due[t] + k * period[t] \in Int
        BY <4>1, NextWholePeriod
      <4>4. next_due'[t] = NextDue(t)
        BY <1>1, <2>1, <2>2, <3>2 DEF TypeOK
      <4>5. NextDue(t) = next_due[t] + k * period[t]
        BY <3>2 DEF NextDue
      <4> HIDE DEF k
      <4>6. Residue(next_due[t], period[t], phase[t])
        BY <4>1 DEF Residue
      <4>7. Residue(next_due[t] + k * period[t], period[t], phase[t])
        BY <4>1, <4>2, <4>6, GridPeriod
      <4>8. next_due'[t] # None /\ Residue(next_due'[t], period[t], phase[t])
        BY <4>2, <4>4, <4>5, <4>7
      <4> QED BY <2>2, <4>8 DEF OnGrid, Residue
    <3> QED BY <2>2, <3>1, <3>2 DEF OnGrid
  <2>5. ASSUME NEW u \in Active, u # t PROVE OnGrid(u)'
    BY <1>1, <2>2, <2>3, <2>5 DEF Aligned, OnGrid
  <2> QED BY <1>1, <2>2, <2>4, <2>5 DEF Aligned, Active
<1>5. CASE CountRun
  <2>1. PICK t \in Tasks : t = pending[ix]
    BY <1>1, <1>5, ElementOfSeq DEF CountRun, Walk, TypeOK
  <2>2. /\ UNCHANGED <<added, next_due, period, phase>>
        /\ entries' = entries \/ entries' = Without(entries, t)
    BY <1>5, <2>1 DEF CountRun, tasks
  <2>3. Active' \subseteq Active
    BY <1>1, <2>2, ForeignWithout DEF Active
  <2> QED BY <1>1, <2>2, <2>3 DEF Aligned, OnGrid
<1>6. CASE \/ Escape \/ ChecksDone \/ TickReturns
           \/ Elapse \/ Wait \/ Wake \/ Ready \/ WaitReturns
  <2>1. UNCHANGED <<entries, added, next_due, period, phase>>
    BY <1>6 DEF Escape, ChecksDone, TickReturns, Elapse, Wait, Wake, Ready, WaitReturns, tasks
  <2> QED BY <1>1, <2>1 DEF Aligned, OnGrid, Active
<1> QED BY <1>2, <1>3, <1>4, <1>5, <1>6 DEF Next, Loop


(* Sockets are opened on free descriptors and never reopened.               *)
LEMMA ForeignSockets ==
  ASSUME TypeOK, SocketsOpen, ForeignStep
  PROVE  /\ SocketsOpen'
         /\ \A s \in Sockets : fd'[s] = fd[s] \/ fd[s] = "fresh" \/ fd'[s] = "closed"
<1> USE RunnerAssumption
<1> USE DEF TypeOK, SocketsOpen, IsOpen
<1>1. ASSUME NEW t \in Services, UseSockets(t)
      PROVE  /\ SocketsOpen'
             /\ \A s \in Sockets : fd'[s] = fd[s] \/ fd[s] = "fresh" \/ fd'[s] = "closed"
  <2>1. CASE \E s \in Sockets : Open(t, s)
    <3>1. PICK s \in Sockets : Open(t, s)
      BY <2>1
    <3>2. PICK d \in Descriptors : /\ \A x \in Sockets : fd[x] # d
                                   /\ fd' = [fd EXCEPT ![s] = d]
      BY <3>1 DEF Open
    <3>3. fd[s] = "fresh" /\ sock' = [sock EXCEPT ![t] = s]
      BY <3>1 DEF Open
    <3>4. fd'[s] = d /\ \A x \in Sockets : x # s => fd'[x] = fd[x]
      BY <3>2
    <3>5. sock'[t] = s /\ \A u \in Services : u # t => sock'[u] = sock[u]
      BY <3>3
    <3>6. \A u \in Services : sock'[u] # None => fd'[sock'[u]] \in Descriptors
      <4> TAKE u \in Services
      <4>1. CASE u = t
        BY <3>4, <3>5, <4>1
      <4>2. CASE u # t /\ sock[u] # None
        <5>1. sock[u] \in Sockets /\ fd[sock[u]] \in Descriptors /\ sock'[u] = sock[u]
          BY <3>5, <4>2
        <5>2. sock[u] # s
          BY <3>3, <5>1
        <5> QED BY <3>4, <5>1, <5>2
      <4> QED BY <3>5, <4>1, <4>2
    <3> QED BY <3>2, <3>3, <3>4, <3>6
  <2>2. CASE \E s \in Sockets : Take(t, s)
    BY <2>2 DEF Take
  <2>3. CASE Close(t)
    <3>1. /\ sock[t] \in Sockets
          /\ fd' = [fd EXCEPT ![sock[t]] = "closed"]
          /\ sock' = [u \in Services |-> IF sock[u] = sock[t] THEN None ELSE sock[u]]
      BY <2>3 DEF Close
    <3>2. fd'[sock[t]] = "closed" /\ \A x \in Sockets : x # sock[t] => fd'[x] = fd[x]
      BY <3>1
    <3>3. \A u \in Services : sock'[u] # None => sock'[u] = sock[u] /\ sock[u] # sock[t]
      BY <3>1
    <3>4. \A u \in Services : sock'[u] # None => fd'[sock'[u]] \in Descriptors
      BY <3>2, <3>3
    <3>5. \A s, x \in Sockets : fd'[s] \in Descriptors /\ fd'[s] = fd'[x] => s = x
      <4> SUFFICES ASSUME NEW s \in Sockets, NEW x \in Sockets,
                          fd'[s] \in Descriptors, fd'[s] = fd'[x]
                   PROVE  s = x
        OBVIOUS
      <4>1. s # sock[t] /\ x # sock[t]
        BY <3>2
      <4>2. fd'[s] = fd[s] /\ fd'[x] = fd[x]
        BY <3>2, <4>1
      <4> QED BY <4>2
    <3> QED BY <3>2, <3>4, <3>5
  <2>4. CASE \E mask \in Interests : Want(t, mask)
    BY <2>4 DEF Want
  <2> QED BY <1>1, <2>1, <2>2, <2>3, <2>4 DEF UseSockets
<1>2. CASE UNCHANGED <<sock, fd>>
  BY <1>2
<1>3. (\E t \in Services : UseSockets(t)) \/ UNCHANGED <<sock, fd>>
  BY DEF ForeignStep, Effect, Add, Remove, SetPeriod, RecordHandlerFault, foreign, sockets
<1> QED BY <1>1, <1>2, <1>3

(* Only foreign code touches sockets.                                       *)
LEMMA SocketsOpenStep ==
  ASSUME IInv, Next
  PROVE  SocketsOpen'
<1>1. TypeOK /\ SocketsOpen
  BY DEF IInv
<1>2. CASE Application \/ DispatchIoError \/ Answer \/ \E t \in Tasks : Fire(t)
  BY <1>1, <1>2, DispatchIsForeign, ForeignSockets DEF Application, Answer, Fire, ForeignStep
<1>3. CASE ~(Application \/ DispatchIoError \/ Answer \/ \E t \in Tasks : Fire(t))
  <2>1. UNCHANGED sockets
    BY <1>3 DEF Next, Loop, BeginTick, CheckEntry, Escape, ChecksDone, CountRun, TickReturns,
                Wait, Wake, WaitReturns, Ready, Elapse
  <2> QED BY <1>1, <2>1 DEF SocketsOpen, IsOpen, sockets
<1> QED BY <1>2, <1>3

(* What the wanted sockets have in common: a descriptor says which socket   *)
(* it belongs to, so the masks of slots and of descriptors agree.           *)
Watched == {s \in Sockets : Wanted(s) # {}}
Mask(d) == Wanted(CHOOSE s \in Sockets : fd[s] = d)

(* The mask of the descriptor of a watched socket.                          *)
LEMMA MaskOfSocket ==
  ASSUME TypeOK, SocketsOpen, NEW s \in Watched
  PROVE  Mask(fd[s]) = Wanted(s)
<1>1. s \in Sockets /\ IsOpen(s)
  BY WantedOpen DEF Watched
<1>2. (CHOOSE x \in Sockets : fd[x] = fd[s]) = s
  BY <1>1 DEF SocketsOpen
<1> QED BY <1>2 DEF Mask

(* Slots of watched sockets give their descriptors the right masks.         *)
LEMMA MaskOfWatched ==
  ASSUME TypeOK, SocketsOpen, Registered, NEW S \in SUBSET Watched
  PROVE  MaskOf(Slots, S) = [d \in {fd[s] : s \in S} |-> Mask(d)]
<1>1. \A s \in S : Slots[s].fd = fd[s] /\ Slots[s].mask = Wanted(s)
  BY SlotOf DEF Watched
<1>2. {Slots[s].fd : s \in S} = {fd[s] : s \in S}
  BY <1>1
<1>3. ASSUME NEW d \in {fd[s] : s \in S}
      PROVE  Slots[CHOOSE s \in S : Slots[s].fd = d].mask = Mask(d)
  <2>1. PICK s \in S : s = CHOOSE x \in S : Slots[x].fd = d
    BY <1>1, <1>3
  <2>2. Slots[s].fd = d
    BY <1>1, <1>3, <2>1
  <2>3. Mask(d) = Wanted(s)
    BY <1>1, <2>2, MaskOfSocket
  <2> QED BY <1>1, <2>1, <2>3
<1> DEFINE f == [d \in {Slots[s].fd : s \in S} |->
                   Slots[CHOOSE s \in S : Slots[s].fd = d].mask]
           g == [d \in {fd[s] : s \in S} |-> Mask(d)]
<1>4. DOMAIN f = DOMAIN g /\ \A d \in DOMAIN g : f[d] = g[d]
  BY <1>2, <1>3
<1>5. f = g
  BY <1>4
<1> QED BY <1>5 DEF MaskOf


(* What the poll object ought to hold.                                      *)
Right == [d \in {fd[s] : s \in Watched} |-> Mask(d)]

(* A poll object that is created holds what it ought to.                    *)
LEMMA ReplayIsRight ==
  ASSUME TypeOK, SocketsOpen, Registered
  PROVE  Replay = Right
<1>1. {s \in Sockets : Slots[s] # None} = Watched
  BY SlotOf DEF Watched
<1> QED BY <1>1, MaskOfWatched DEF Replay, Right

(* The sweep: what was right before and has not changed, and what changed,  *)
(* less what is stale, is right; a closed socket takes nobody's descriptor. *)
LEMMA SyncedIsRight ==
  ASSUME TypeOK, SocketsOpen, Registered, poller
  PROVE  Synced = Right
<1> USE RunnerAssumption
<1> DEFINE Touched == {s \in Sockets : Changed(s)}
           touched == MaskOf(Slots, Touched)
           gone    == UNION {Dropped(s) : s \in {x \in Sockets : Stale(x)}}
           kept    == (DOMAIN poll_set \cup DOMAIN touched) \ gone
           all     == {fd[s] : s \in Watched}
<1>1. touched = [d \in {fd[s] : s \in Touched} |-> Mask(d)]
  <2>1. Touched \in SUBSET Watched
    BY DEF Changed, Watched
  <2> QED BY <2>1, MaskOfWatched
<1>2. /\ DOMAIN poll_set = {registered[s].fd : s \in {x \in Sockets : HasSlot(x)}}
      /\ \A s \in Sockets : HasSlot(s) => poll_set[registered[s].fd] = registered[s].mask
      /\ \A s \in Sockets : HasSlot(s) => fd[s] \in {registered[s].fd, "closed"}
  BY DEF Registered
<1>3. ASSUME NEW s \in Watched
      PROVE  /\ s \in Sockets /\ IsOpen(s) /\ fd[s] # "closed"
             /\ Slots[s] # None /\ Slots[s].fd = fd[s]
             /\ HasSlot(s) => registered[s].fd = fd[s]
             /\ Mask(fd[s]) = Wanted(s)
  <2>1. s \in Sockets /\ IsOpen(s) /\ fd[s] # "closed"
    BY WantedOpen DEF Watched, IsOpen
  <2>2. Slots[s] # None /\ Slots[s].fd = fd[s]
    BY <2>1, SlotOf DEF Watched
  <2> QED BY <1>2, <2>1, <2>2, MaskOfSocket
<1>4. ASSUME NEW s \in Watched PROVE fd[s] \in kept
  <2>1. fd[s] \in DOMAIN poll_set \cup DOMAIN touched
    <3>1. CASE Changed(s)
      BY <1>1, <1>3, <3>1
    <3>2. CASE ~Changed(s)
      <4>1. HasSlot(s)
        BY <1>3, <3>2 DEF Changed, Watched, HasSlot
      <4> QED BY <1>2, <1>3, <4>1
    <3> QED BY <3>1, <3>2
  <2>2. ASSUME NEW x \in Sockets, Stale(x) PROVE fd[s] \notin Dropped(x)
    <3>1. x # s
      BY <2>2 DEF Stale, Watched
    <3>2. IsOpen(x) => fd[x] # fd[s]
      BY <1>3, <3>1 DEF SocketsOpen
    <3> QED BY <1>3, <3>2 DEF Dropped
  <2> QED BY <2>1, <2>2
<1>5. ASSUME NEW d \in kept PROVE d \in all
  <2>1. CASE d \in DOMAIN touched
    BY <1>1, <2>1 DEF Changed, Watched
  <2>2. CASE d \in DOMAIN poll_set
    <3>1. PICK x \in Sockets : HasSlot(x) /\ registered[x].fd = d
      BY <1>2, <2>2
    <3>2. CASE Wanted(x) # {}
      BY <1>3, <3>1, <3>2 DEF Watched
    <3>3. CASE Wanted(x) = {}
      <4>1. Stale(x)
        BY <3>1, <3>3 DEF Stale, HasSlot
      <4>2. d \notin Dropped(x)
        BY <1>5, <4>1
      <4>3. ~IsOpen(x)
        <5>1. d \in Descriptors
          BY <2>2 DEF TypeOK
        <5> QED BY <1>2, <3>1, <4>2 DEF Dropped, IsOpen
      <4>4. PICK s \in Sockets : Slots[s] # None /\ Slots[s].fd = d
        BY <3>1, <4>2, <4>3 DEF Dropped
      <4>5. s \in Watched
        BY <4>4, SlotOf DEF Watched
      <4> QED BY <1>3, <4>4, <4>5
    <3> QED BY <3>2, <3>3
  <2> QED BY <2>1, <2>2
<1>6. kept = all
  <2>1. all \subseteq kept
    BY <1>4
  <2>2. kept \subseteq all
    BY <1>5
  <2> HIDE DEF kept, all
  <2> QED BY <2>1, <2>2
<1>7. ASSUME NEW d \in all
      PROVE  (IF d \in DOMAIN touched THEN touched[d] ELSE poll_set[d]) = Mask(d)
  <2>1. CASE d \in DOMAIN touched
    BY <1>1, <2>1
  <2>2. CASE d \notin DOMAIN touched
    <3>1. PICK s \in Watched : d = fd[s]
      OBVIOUS
    <3>2. s \in Sockets /\ Wanted(s) # {} /\ ~Changed(s)
      BY <1>1, <2>2, <3>1 DEF Watched
    <3>3. HasSlot(s) /\ registered[s].mask = Wanted(s)
      BY <3>2 DEF Changed, HasSlot
    <3> QED BY <1>2, <1>3, <2>2, <3>1, <3>2, <3>3
  <2> QED BY <2>1, <2>2
<1> HIDE DEF Touched, touched, gone, all
<1>8. [d \in kept |-> IF d \in DOMAIN touched THEN touched[d] ELSE poll_set[d]] = Right
  BY <1>6, <1>7 DEF Right, all
<1> QED BY <1>8 DEF Synced, touched, gone, Touched

(* Between two waits sockets are only opened and closed; a wait leaves the  *)
(* poll object right.                                                       *)
LEMMA RegisteredStep ==
  ASSUME IInv, Next
  PROVE  Registered'
<1> USE RunnerAssumption
<1>1. TypeOK /\ SocketsOpen /\ Registered
  BY DEF IInv
<1>2. ASSUME UNCHANGED <<registered, poller, poll_set>>, pc' # "polling",
             \A s \in Sockets : fd'[s] = fd[s] \/ fd[s] = "fresh" \/ fd'[s] = "closed"
      PROVE  Registered'
  <2>1. \A s \in Sockets : HasSlot(s)' => HasSlot(s)
    BY <1>2 DEF HasSlot
  <2>2. \A s \in Sockets : HasSlot(s) => registered[s].fd \in Descriptors
    BY <1>1 DEF TypeOK, HasSlot, Slot
  <2>3. \A s \in Sockets : HasSlot(s)' => fd'[s] \in {registered'[s].fd, "closed"}
    BY <1>1, <1>2, <2>1, <2>2 DEF Registered
  <2> QED BY <1>1, <1>2, <2>3 DEF Registered, HasSlot, PollSetMatches
<1>3. CASE Application \/ DispatchIoError \/ Answer \/ \E t \in Tasks : Fire(t)
  <2>1. ForeignStep
    BY <1>1, <1>3, DispatchIsForeign DEF Application, Answer, Fire, ForeignStep
  <2>2. UNCHANGED <<registered, poller, poll_set>> /\ pc' # "polling"
    BY <1>3 DEF Application, DispatchIoError, Answer, Fire, polls
  <2> QED BY <1>1, <1>2, <2>1, <2>2, ForeignSockets
<1>4. CASE Wait
  <2>1. /\ registered' = Slots /\ UNCHANGED <<entries, sockets>>
        /\ \/ poll_set' = Right
           \/ ~poller' /\ pc' # "polling"
    BY <1>1, <1>4, ReplayIsRight, SyncedIsRight DEF Wait
  <2>2. ASSUME NEW s \in Sockets
        PROVE  /\ HasSlot(s)' <=> s \in Watched
               /\ HasSlot(s)' => /\ registered'[s].fd = fd[s] /\ registered'[s].mask = Wanted(s)
                                 /\ IsOpen(s) /\ fd'[s] = fd[s]
    BY <1>1, <2>1, SlotOf, WantedOpen DEF HasSlot, Watched, sockets
  <2>3. \A s \in Sockets : HasSlot(s)' => fd'[s] \in {registered'[s].fd, "closed"}
    BY <2>2
  <2>4. \A s, x \in Sockets :
          HasSlot(s)' /\ HasSlot(x)' /\ registered'[s].fd = registered'[x].fd => s = x
    BY <1>1, <2>2 DEF SocketsOpen
  <2>5. CASE poll_set' = Right
    <3>1. DOMAIN poll_set' = {registered'[s].fd : s \in {x \in Sockets : HasSlot(x)'}}
      <4>1. DOMAIN poll_set' = {fd[s] : s \in Watched}
        BY <2>5 DEF Right
      <4>2. Watched = {x \in Sockets : HasSlot(x)'}
        BY <2>2 DEF Watched
      <4> QED BY <2>2, <4>1, <4>2
    <3>2. ASSUME NEW s \in Sockets, HasSlot(s)'
          PROVE  poll_set'[registered'[s].fd] = registered'[s].mask
      <4>1. poll_set'[fd[s]] = Mask(fd[s])
        BY <2>2, <2>5, <3>2 DEF Right
      <4> QED BY <1>1, <2>2, <3>2, <4>1, MaskOfSocket
    <3>3. Right = [d \in {fd[s] : s \in {x \in Sockets : Wanted(x) # {}}} |->
                     Wanted(CHOOSE s \in Sockets : fd[s] = d)]
      BY DEF Right, Watched, Mask
    <3>4. PollSetMatches'
      BY <2>1, <2>5, <3>3 DEF PollSetMatches, Wanted, Sharing, Active, sockets
    <3> QED BY <2>3, <2>4, <3>1, <3>2, <3>4 DEF Registered
  <2>6. CASE ~poller' /\ pc' # "polling"
    BY <2>3, <2>4, <2>6 DEF Registered, PollSetMatches
  <2> QED BY <2>1, <2>5, <2>6
<1>5. CASE \/ BeginTick \/ CheckEntry \/ Escape \/ ChecksDone \/ CountRun \/ TickReturns
           \/ Elapse \/ Wake \/ Ready \/ WaitReturns
  <2>1. UNCHANGED <<registered, poller, poll_set, fd>> /\ pc' # "polling"
    BY <1>5 DEF BeginTick, CheckEntry, Escape, ChecksDone, CountRun, TickReturns, Elapse,
                Wake, Ready, WaitReturns, polls, sockets
  <2> QED BY <1>2, <2>1
<1> QED BY <1>3, <1>4, <1>5 DEF Next, Loop

(* Only wait() sets a timeout to block for.                                 *)
LEMMA BlocksStep ==
  ASSUME IInv, Next
  PROVE  Blocks'
<1>1. Blocks
  BY DEF IInv
<1>2. CASE Wait
  BY <1>2 DEF Wait, Blocks
<1>3. CASE ~Wait
  BY <1>1, <1>3 DEF Next, Loop, BeginTick, CheckEntry, Answer, Escape, ChecksDone, Fire,
                    CountRun, TickReturns, Wake, DispatchIoError, WaitReturns, Ready,
                    Application, Elapse, Blocks, clock
<1> QED BY <1>2, <1>3

-----------------------------------------------------------------------------
(* The inductive invariant.                                                 *)
LEMMA InitIInv == Init => IInv
<1> SUFFICES ASSUME Init PROVE IInv
  OBVIOUS
<1> USE RunnerAssumption
<1>1. TypeOK
  <2>1. /\ period \in [Tasks -> (Nat \ {0}) \cup {None}]
        /\ run_count \in [Tasks -> Nat \cup {None}]
    BY DEF Init, Arguments
  <2>2. <<>> \in Seq(Tasks)
    BY EmptySeq
  <2>3. entries \in Seq(Tasks) /\ pending \in Seq(Tasks)
    BY <2>2 DEF Init
  <2>4. DOMAIN poll_set = {}
    BY DEF Init
  <2>5. /\ next_due \in [Tasks -> Int \cup {None}] /\ phase \in [Tasks -> Nat]
        /\ sock \in [Services -> Sockets \cup {None}]
        /\ interest \in [Services -> SUBSET {"read", "write"}]
        /\ fd \in [Sockets -> Descriptors \cup {"fresh", "closed"}]
        /\ registered \in [Sockets -> Slot \cup {None}]
    BY DEF Init
  <2>6. /\ pc = "idle" /\ ix \in Nat /\ ticking \in BOOLEAN
        /\ late \in Nat /\ timeout \in Int \cup {None} /\ added \subseteq Tasks
        /\ poller \in BOOLEAN /\ events \subseteq Descriptors
    BY DEF Init
  <2>7. handler_errors \in 0..MaxErrors /\ disturbed \in 0..MaxDisturbed
    BY DEF Init
  <2> QED BY <2>1, <2>3, <2>4, <2>5, <2>6, <2>7 DEF TypeOK
<1>2. Walk
  BY DEF Init, Walk, Distinct, Active
<1>3. RunsLeft
  <2>1. \A t \in Tasks : run_count[t] \in (Nat \ {0}) \cup {None}
    BY DEF Init, Arguments
  <2> QED BY <2>1 DEF RunsLeft
<1>4. DueLater /\ Aligned
  BY DEF Init, DueLater, Aligned, Active
<1>5. SocketsOpen /\ Registered /\ Blocks
  BY DEF Init, SocketsOpen, IsOpen, Registered, HasSlot, PollSetMatches, Blocks
<1> QED BY <1>1, <1>2, <1>3, <1>4, <1>5 DEF IInv

LEMMA NextIInv == IInv /\ [Next]_vars => IInv'
<1> SUFFICES ASSUME IInv, [Next]_vars PROVE IInv'
  OBVIOUS
<1>1. CASE Next
  BY <1>1, TypeStep, WalkStep, RunsLeftStep, DueLaterStep, AlignedStep, SocketsOpenStep,
     RegisteredStep, BlocksStep DEF IInv
<1>2. CASE UNCHANGED vars
  <2> USE DEF vars, walk, faults, clock, tasks, sockets, polls, IInv, Active
  <2>1. TypeOK'
    BY <1>2 DEF TypeOK
  <2>2. Walk' /\ RunsLeft'
    BY <1>2 DEF Walk, RunsLeft
  <2>3. DueLater' /\ Aligned'
    BY <1>2 DEF DueLater, Later, Aligned, OnGrid
  <2>4. SocketsOpen' /\ Blocks'
    BY <1>2 DEF SocketsOpen, IsOpen, Blocks
  <2>5. Registered'
    BY <1>2 DEF Registered, HasSlot, PollSetMatches, Wanted, Sharing
  <2> QED BY <2>1, <2>2, <2>3, <2>4, <2>5
<1> QED BY <1>1, <1>2

LEMMA InductiveInvariant == Spec => []IInv
BY InitIInv, NextIInv, PTL DEF Spec

(* Runner.tick, Runner.wait: every variable keeps its type, whatever the    *)
(* tasks, checks, handlers and services do; no run_count goes below zero.   *)
THEOREM TypeCorrect == Spec => []TypeOK
<1>1. IInv => TypeOK
  BY DEF IInv
<1> QED BY <1>1, InductiveInvariant, PTL

(* preserve_phase in Runner.tick: for every period and every delay, the     *)
(* deadline of such a task never leaves the grid its first deadline set.    *)
THEOREM PhasePreserved == Spec => []StaysAligned
<1>1. IInv => StaysAligned
  BY DEF IInv, Aligned, OnGrid, StaysAligned
<1> QED BY <1>1, InductiveInvariant, PTL

(* Runner.tick: when handlers run no pending task is due again, however     *)
(* long the stall before the tick was.                                      *)
THEOREM NoCatchUpBurst == Spec => []NoBurst
<1>1. IInv => NoBurst
  BY DEF IInv, DueLater, Later, NoBurst
<1> QED BY <1>1, InductiveInvariant, PTL

(* Runner._sync_poll_set: when wait() blocks on the poll object, it holds   *)
(* the descriptors of the sockets the services in the list want watched,    *)
(* each with the events they want together, and nothing else, for any       *)
(* number of services and sockets and any reuse of descriptors.             *)
THEOREM PollSetCorrect == Spec => []PollSetMatches
<1>1. IInv => PollSetMatches
  BY DEF IInv, Registered
<1> QED BY <1>1, InductiveInvariant, PTL


=============================================================================

------------------------------- MODULE Runner -------------------------------
(***************************************************************************)
(* The cooperative scheduler of chumicro_runner/core.py (class Runner) in  *)
(* the loop every application runs: now = tick(), wait(now), and again.    *)
(*                                                                         *)
(* tick() walks _entries and asks the entries that are due whether they    *)
(* have work, then fires the handlers of those that do; wait() reconciles  *)
(* the poll set and blocks.  pc names the place in the loop:               *)
(*                                                                         *)
(*   idle -> checking (-> asking) -> firing -> counting -> firing          *)
(*        -> ticked -> polling -> dispatching -> idle, or sleeping -> idle *)
(*                                                                         *)
(* Foreign code (a check(), a handler, an io_error, the application) runs  *)
(* in asking, firing, dispatching and idle.                                  *)
(*                                                                         *)
(* Times are relative to now_ms, the timestamp of the last tick: next_due  *)
(* of an overdue entry is negative, and late is how far the clock has run  *)
(* past now_ms.                                                            *)
(***************************************************************************)
EXTENDS Integers, Sequences, FiniteSets

CONSTANTS
  Tasks,        \* every task the application may add()
  Apps,         \* the sets of tasks of the applications considered
  Options,      \* task -> the arguments of its add()
  NewPeriods,   \* task -> the arguments of set_period
  Sockets,      \* socket objects
  Descriptors,  \* the descriptors the system hands out
  Interests,    \* what io_interest may return
  Deadlines,    \* what next_deadline may return, less now_ms
  OnError,      \* the on_handler_error callback: "none", "remove", "reraise"
  MaxLate,      \* bound on the time the foreign code of one pass takes
  MaxErrors,    \* where the count handler_errors stops; faults do not
  MaxDisturbed, \* bound on raising checks, nested ticks and set_period
  None

(* checks: the task has a check(), which may decline; io: it is a service   *)
(* with io_socket, io_interest, io_error and next_deadline.                 *)
Arguments == [period : Nat \cup {None}, start : Nat \cup {None},
              run_count : Nat \cup {None}, preserve : BOOLEAN,
              checks : BOOLEAN, io : BOOLEAN]

(* A slot of _registered_interest, or the absence of one.                   *)
Slot == [mask : SUBSET {"read", "write"}, fd : Descriptors]

ASSUME RunnerAssumption ==
  /\ None \notin Int \cup Sockets \cup Descriptors \cup Slot
  /\ {"fresh", "closed"} \cap Descriptors = {}
  /\ Apps \subseteq SUBSET Tasks
  /\ Options \in [Tasks -> Arguments]
  /\ \A t \in Tasks : /\ Options[t].period # 0 /\ Options[t].run_count # 0
                      /\ Options[t].preserve => Options[t].period # None
                      /\ Options[t].io => Options[t].checks
  /\ NewPeriods \in [Tasks -> SUBSET ((Nat \ {0}) \cup {None})]
  /\ Interests \subseteq SUBSET {"read", "write"}
  /\ Deadlines \subseteq Int \cup {None} /\ Deadlines # {}
  /\ OnError \in {"none", "remove", "reraise"}
  /\ MaxLate \in Nat /\ MaxErrors \in Nat /\ MaxDisturbed \in Nat

VARIABLES
  pc,
  entries,          \* _entries
  pending,          \* the first pending_count slots of _pending
  ix,               \* position in entries, then in pending
  ticking,          \* _ticking
  handler_errors, disturbed,
  late, timeout,
  added,            \* the tasks add() has been called for
  next_due, period, run_count,
  phase,            \* the first next_due of a preserve_phase task, modulo its period
  sock, interest,   \* io_socket and io_interest of each service
  fd,               \* socket -> "fresh", its descriptor, "closed"
  registered,       \* _registered_interest: socket -> its slot, or None
  poller,           \* _poller is not None
  poll_set,         \* what the poll object holds: descriptor -> event mask
  events            \* descriptors of the error events ipoll still has to yield

walk    == <<pending, ix, ticking>>
faults  == <<handler_errors, disturbed>>
clock   == <<late, timeout>>
tasks   == <<added, next_due, period, phase>>
sockets == <<sock, interest, fd>>
polls   == <<registered, poller, poll_set, events>>

(* What foreign code may change: add, remove, set_period, its own sockets.  *)
foreign == <<entries, tasks, sockets, disturbed, run_count>>

vars == <<pc, entries, walk, faults, clock, tasks, run_count, sockets, polls>>

Services  == {t \in Tasks : Options[t].io}
Active    == {entries[i] : i \in DOMAIN entries}
IsOpen(s) == fd[s] \in Descriptors

(* list.remove of an entry, if it is in the list; entries are distinct.     *)
Without(q, t) ==
  IF \E i \in DOMAIN q : q[i] = t
    THEN LET at == CHOOSE i \in DOMAIN q : q[i] = t
         IN  SubSeq(q, 1, at - 1) \o SubSeq(q, at + 1, Len(q))
    ELSE q

-----------------------------------------------------------------------------
(* What foreign code may do.                                                *)

Phase(t, due, p) == IF Options[t].preserve /\ p # None THEN due % p ELSE 0

(* add(): the entry goes to the end; the clock is read afresh.              *)
FirstDelay(t) == IF Options[t].start # None THEN Options[t].start
                                            ELSE Options[t].period
FirstDue(t) == IF FirstDelay(t) = None THEN None ELSE late + FirstDelay(t)

Add(t) == /\ t \notin added
          /\ \E app \in Apps : added \cup {t} \subseteq app
          /\ added' = added \cup {t}
          /\ entries' = Append(entries, t)
          /\ next_due' = [next_due EXCEPT ![t] = FirstDue(t)]
          /\ phase' = [phase EXCEPT ![t] = Phase(t, FirstDue(t), period[t])]
          /\ UNCHANGED <<period, sockets, disturbed, run_count>>

Remove(t) == /\ t \in Active
             /\ entries' = Without(entries, t)
             /\ UNCHANGED <<tasks, sockets, disturbed, run_count>>

(* set_period() without an anchor: the clock is read afresh.                *)
SetPeriod(t, p) ==
  /\ t \in Active /\ disturbed < MaxDisturbed
  /\ disturbed' = disturbed + 1
  /\ period' = [period EXCEPT ![t] = p]
  /\ next_due' = [next_due EXCEPT ![t] = IF p = None THEN None ELSE late + p]
  /\ phase' = [phase EXCEPT ![t] = IF p = None THEN 0 ELSE Phase(t, late + p, p)]
  /\ UNCHANGED <<entries, added, sockets, run_count>>

(* A service opens a socket, takes one that is open, perhaps shared, closes *)
(* the one it has, or changes its interest; nobody reports a closed socket. *)
Open(t, s) == /\ fd[s] = "fresh"
              /\ \E d \in Descriptors : /\ \A x \in Sockets : fd[x] # d
                                        /\ fd' = [fd EXCEPT ![s] = d]
              /\ sock' = [sock EXCEPT ![t] = s]
              /\ UNCHANGED interest
Take(t, s) == /\ IsOpen(s) /\ sock[t] # s
              /\ sock' = [sock EXCEPT ![t] = s]
              /\ UNCHANGED <<interest, fd>>
Close(t) == /\ sock[t] # None
            /\ fd' = [fd EXCEPT ![sock[t]] = "closed"]
            /\ sock' = [u \in Services |-> IF sock[u] = sock[t] THEN None
                                                               ELSE sock[u]]
            /\ UNCHANGED interest
Want(t, mask) == /\ interest[t] # mask
                 /\ interest' = [interest EXCEPT ![t] = mask]
                 /\ UNCHANGED <<sock, fd>>
UseSockets(t) == /\ \/ \E s \in Sockets : Open(t, s) \/ Take(t, s)
                    \/ Close(t)
                    \/ \E mask \in Interests : Want(t, mask)
                 /\ UNCHANGED <<entries, tasks, disturbed, run_count>>

Effect == \/ \E t \in Tasks : \/ Add(t) \/ Remove(t)
                              \/ \E p \in NewPeriods[t] : SetPeriod(t, p)
          \/ \E t \in Services \cap Active : UseSockets(t)

(* _record_handler_fault: the callback's own exception is counted too, and  *)
(* goes no further; "remove" is a callback that removes the faulting task.  *)
RecordHandlerFault(t) ==
  /\ \E n \in {IF OnError = "reraise" THEN 2 ELSE 1} :
       handler_errors' = IF handler_errors + n <= MaxErrors THEN handler_errors + n
                                                            ELSE handler_errors
  /\ entries' = IF OnError = "remove" THEN Without(entries, t) ELSE entries
  /\ UNCHANGED <<tasks, sockets, disturbed, run_count>>

Init ==
  /\ pc = "idle" /\ entries = <<>> /\ pending = <<>> /\ ix = 1 /\ ticking = FALSE
  /\ handler_errors = 0 /\ disturbed = 0 /\ late = 0 /\ timeout = None
  /\ added = {} /\ next_due = [t \in Tasks |-> None]
  /\ period = [t \in Tasks |-> Options[t].period]
  /\ run_count = [t \in Tasks |-> Options[t].run_count]
  /\ phase = [t \in Tasks |-> 0]
  /\ sock = [t \in Services |-> None] /\ interest = [t \in Services |-> {}]
  /\ fd = [s \in Sockets |-> "fresh"]
  /\ registered = [s \in Sockets |-> None]
  /\ poller = FALSE /\ poll_set = <<>> /\ events = {}

(* The application's own code, between two passes of the loop.              *)
Application ==
  /\ pc = "idle"
  /\ Effect
  /\ UNCHANGED <<pc, walk, handler_errors, clock, polls>>

(* Foreign code takes time.                                                 *)
Elapse ==
  /\ pc \in {"idle", "asking", "firing"} /\ late < MaxLate
  /\ late' = late + 1
  /\ UNCHANGED <<pc, entries, walk, faults, timeout, tasks, run_count, sockets,
                 polls>>

-----------------------------------------------------------------------------
(* tick(): the walk over the entries.  All times become relative to the new *)
(* timestamp; what an entry no longer in the list says is forgotten.        *)
Since(t, at) == IF t \in Active /\ at[t] # None THEN at[t] - late ELSE None

BeginTick ==
  /\ pc = "idle" /\ ~ticking
  /\ ticking' = TRUE /\ pending' = <<>> /\ ix' = 1
  /\ late' = 0 /\ timeout' = None
  /\ next_due' = [t \in Tasks |-> Since(t, next_due)]
  /\ phase' = [t \in Tasks |-> IF Options[t].preserve /\ t \in Active
                                 THEN Phase(t, phase[t] - late, period[t]) ELSE 0]
  /\ pc' = "checking"
  /\ UNCHANGED <<entries, faults, added, period, run_count, sockets, polls>>

(* next_due_ms of an entry found due: the next whole period after now for   *)
(* preserve_phase, else a period from now.                                  *)
NextDue_FromNow(t) == IF period[t] = None THEN None ELSE period[t]
NextDue_OnePeriod(t) == IF period[t] = None THEN None
                        ELSE IF Options[t].preserve THEN next_due[t] + period[t]
                        ELSE period[t]
NextDue(t) ==
  IF period[t] = None THEN None
  ELSE IF Options[t].preserve
         THEN next_due[t] + ((-next_due[t]) \div period[t] + 1) * period[t]
         ELSE period[t]

Due(t) == next_due[t] # None => next_due[t] <= 0

(* One turn of the loop: an entry that is not due is passed over; one that  *)
(* is has its deadline moved before its check() is asked.                   *)
CheckEntry ==
  /\ pc = "checking" /\ ix <= Len(entries)
  /\ LET t == entries[ix] IN
       \/ /\ ~Due(t)
          /\ ix' = ix + 1 /\ UNCHANGED <<pc, pending, next_due>>
       \/ /\ Due(t)
          /\ next_due' = IF next_due[t] = None THEN next_due
                         ELSE [next_due EXCEPT ![t] = NextDue(t)]
          /\ IF Options[t].checks
               THEN pc' = "asking" /\ UNCHANGED <<ix, pending>>
               ELSE pending' = Append(pending, t) /\ ix' = ix + 1 /\ UNCHANGED pc
  /\ UNCHANGED <<entries, ticking, faults, clock, added, period, run_count, phase,
                 sockets, polls>>

(* check() answers, having done what it liked with the runner: a removal    *)
(* shifts the list under the loop.                                          *)
Answer ==
  /\ pc = "asking"
  /\ Effect \/ UNCHANGED foreign
  /\ pending' \in {pending, Append(pending, entries[ix])}
  /\ ix' = ix + 1 /\ pc' = "checking"
  /\ UNCHANGED <<ticking, handler_errors, clock, polls>>

(* finally: of tick(), on its way out with or without an exception.         *)
LeaveTick == pending' = <<>> /\ ticking' = FALSE

(* A check() raises, or a check() or handler calls tick(), which raises     *)
(* ReentrantTickError through it: nothing catches either inside tick().     *)
Escape ==
  /\ pc \in {"asking", "firing"} /\ disturbed < MaxDisturbed
  /\ pc = "firing" => ix <= Len(pending)
  /\ disturbed' = disturbed + 1
  /\ LeaveTick
  /\ pc' = "idle"
  /\ UNCHANGED <<entries, ix, handler_errors, clock, tasks, run_count, sockets,
                 polls>>

ChecksDone ==
  /\ pc = "checking" /\ ix > Len(entries)
  /\ pc' = "firing" /\ ix' = 1
  /\ UNCHANGED <<entries, pending, ticking, faults, clock, tasks, run_count,
                 sockets, polls>>

-----------------------------------------------------------------------------
(* tick(): the handlers of the pending entries, those included that another *)
(* handler removed meanwhile.                                               *)
Fire(t) ==
  /\ pc = "firing" /\ ix <= Len(pending) /\ t = pending[ix]
  /\ \/ (Effect \/ UNCHANGED foreign) /\ UNCHANGED handler_errors
     \/ RecordHandlerFault(t)
  /\ pc' = "counting"
  /\ UNCHANGED <<walk, clock, polls>>

(* run_count goes down with every fire; at zero the task is removed.        *)
Exhausted_Below(n) == n < 0
Exhausted(n) == n <= 0
CountRun ==
  /\ pc = "counting"
  /\ LET t == pending[ix] IN
       IF run_count[t] = None THEN UNCHANGED <<run_count, entries>>
       ELSE /\ run_count' = [run_count EXCEPT ![t] = @ - 1]
            /\ entries' = IF Exhausted(run_count[t] - 1) THEN Without(entries, t)
                                                         ELSE entries
  /\ pc' = "firing" /\ ix' = ix + 1
  /\ UNCHANGED <<pending, ticking, faults, clock, tasks, sockets, polls>>

TickReturns ==
  /\ pc = "firing" /\ ix > Len(pending)
  /\ LeaveTick
  /\ pc' = "ticked"
  /\ UNCHANGED <<entries, ix, faults, clock, tasks, run_count, sockets, polls>>

-----------------------------------------------------------------------------
(* wait(): _sync_poll_set, _compute_timeout and the block.                  *)

(* The masks of all services that share a socket, together.                 *)
Sharing(s) == {t \in Services \cap Active : sock[t] = s}
Wanted(s) == UNION {interest[t] : t \in Sharing(s)}

(* A slot keeps the descriptor its socket had when it was first registered. *)
Slots == [s \in Sockets |->
            IF Wanted(s) = {} THEN None
            ELSE [mask |-> Wanted(s),
                  fd   |-> IF registered[s] = None THEN fd[s]
                                                   ELSE registered[s].fd]]

Changed(s) == /\ Wanted(s) # {}
              /\ registered[s] = None \/ registered[s].mask # Wanted(s)
Stale(s) == registered[s] # None /\ Wanted(s) = {}

(* What unregistering a stale socket takes out of the poll object.  A closed*)
(* socket cannot name its descriptor: the recorded one is used, unless a    *)
(* socket of this sweep has been given it.                                  *)
Dropped_Recorded(s) == {registered[s].fd}
Dropped(s) ==
  IF IsOpen(s) THEN {fd[s]}
  ELSE {d \in {registered[s].fd} :
          \A x \in Sockets : Slots[x] # None => Slots[x].fd # d}

(* The masks slots give to descriptors.                                     *)
MaskOf(slots, S) ==
  [d \in {slots[s].fd : s \in S} |-> slots[CHOOSE s \in S : slots[s].fd = d].mask]
Replay == MaskOf(Slots, {s \in Sockets : Slots[s] # None})

Synced ==
  LET touched == MaskOf(Slots, {s \in Sockets : Changed(s)})
      gone    == UNION {Dropped(s) : s \in {x \in Sockets : Stale(x)}}
  IN  [d \in (DOMAIN poll_set \cup DOMAIN touched) \ gone |->
         IF d \in DOMAIN touched THEN touched[d] ELSE poll_set[d]]

Nearest(delays) == IF delays = {} THEN None
                   ELSE CHOOSE d \in delays : \A e \in delays : d <= e
Timeouts_Services ==
  {Nearest({d} \ {None}) :
     d \in IF Services \cap Active = {} THEN {None} ELSE Deadlines}
Timeouts ==
  {Nearest(({next_due[t] : t \in Active} \cup {d}) \ {None}) :
     d \in IF Services \cap Active = {} THEN {None} ELSE Deadlines}

Wait ==
  /\ pc = "ticked"
  /\ registered' = Slots
  /\ timeout' \in Timeouts
  /\ LET blocks  == timeout' = None \/ timeout' > 0
         watches == \E s \in Sockets : Slots[s] # None
     IN  /\ poller' = (poller \/ (blocks /\ watches))
         /\ poll_set' = IF poller THEN Synced
                        ELSE IF blocks /\ watches THEN Replay ELSE poll_set
         /\ pc' = IF blocks /\ watches THEN "polling"
                  ELSE IF blocks /\ timeout' # None THEN "sleeping" ELSE "idle"
  /\ UNCHANGED <<entries, walk, faults, late, tasks, run_count, sockets, events>>

(* The block ends after timeout, counted from now and not from now_ms.      *)
Wake ==
  /\ pc \in {"polling", "sleeping"} /\ timeout # None
  /\ late' = late + timeout
  /\ pc' = "idle"
  /\ UNCHANGED <<entries, walk, faults, timeout, tasks, run_count, sockets,
                 polls>>

(* A polled descriptor is ready first: with plain events only (none to      *)
(* dispatch) or with error events.                                          *)
Ready ==
  /\ pc = "polling"
  /\ events' \in SUBSET DOMAIN poll_set
  /\ pc' = "dispatching"
  /\ UNCHANGED <<entries, walk, faults, clock, tasks, run_count, sockets,
                 registered, poller, poll_set>>

(* _dispatch_io_error: the first service that reports the socket gets it.   *)
Reports(t, d) == t \in Services /\ sock[t] # None /\ fd[sock[t]] = d
Owner(d) == {entries[i] : i \in {j \in DOMAIN entries :
               /\ Reports(entries[j], d)
               /\ \A k \in 1..(j - 1) : ~Reports(entries[k], d)}}

DispatchIoError ==
  /\ pc = "dispatching"
  /\ \E d \in events :
       /\ events' = events \ {d}
       /\ \/ UNCHANGED <<foreign, handler_errors>>
          \/ \E t \in Owner(d) : \/ /\ UseSockets(t) \/ Remove(t)
                                    /\ UNCHANGED handler_errors
                                 \/ RecordHandlerFault(t)
  /\ UNCHANGED <<pc, walk, clock, registered, poller, poll_set>>

WaitReturns ==
  /\ pc = "dispatching" /\ events = {}
  /\ pc' = "idle"
  /\ UNCHANGED <<entries, walk, faults, clock, tasks, run_count, sockets, polls>>

-----------------------------------------------------------------------------
Loop == \/ BeginTick \/ CheckEntry \/ Answer \/ Escape \/ ChecksDone
        \/ \E t \in Tasks : Fire(t)
        \/ CountRun \/ TickReturns \/ Wait \/ Wake
        \/ DispatchIoError \/ WaitReturns

Next == Loop \/ Ready \/ Application \/ Elapse

Spec == Init /\ [][Next]_vars

(* The loop runs on, foreign code returns and time passes; no socket need   *)
(* ever be ready.                                                           *)
FairSpec == Spec /\ WF_vars(Loop) /\ SF_vars(Elapse)

-----------------------------------------------------------------------------
(* Every variable keeps its type: in particular a run_count never goes      *)
(* below zero, however often its task fires, faults, or is removed while it *)
(* is pending (Runner.tick, the run_count branch).                          *)
TypeOK ==
  /\ pc \in {"idle", "checking", "asking", "firing", "counting", "ticked",
             "polling", "sleeping", "dispatching"}
  /\ entries \in Seq(Tasks) /\ pending \in Seq(Tasks)
  /\ ix \in Nat /\ ticking \in BOOLEAN
  /\ handler_errors \in 0..MaxErrors /\ disturbed \in 0..MaxDisturbed
  /\ late \in Nat /\ timeout \in Int \cup {None}
  /\ added \subseteq Tasks
  /\ next_due \in [Tasks -> Int \cup {None}]
  /\ period \in [Tasks -> (Nat \ {0}) \cup {None}]
  /\ run_count \in [Tasks -> Nat \cup {None}]
  /\ phase \in [Tasks -> Nat]
  /\ sock \in [Services -> Sockets \cup {None}]
  /\ interest \in [Services -> SUBSET {"read", "write"}]
  /\ fd \in [Sockets -> Descriptors \cup {"fresh", "closed"}]
  /\ registered \in [Sockets -> Slot \cup {None}]
  /\ poller \in BOOLEAN
  /\ DOMAIN poll_set \subseteq Descriptors
  /\ \A d \in DOMAIN poll_set : poll_set[d] \in (SUBSET {"read", "write"}) \ {{}}
  /\ events \subseteq Descriptors

(* The deadline of a preserve_phase task stays on the grid of whole periods *)
(* its first deadline set, through late ticks, declined checks, faults and  *)
(* ticks cut short; only set_period starts a new grid.                      *)
StaysAligned ==
  \A t \in Active : Options[t].preserve /\ period[t] # None
                      => next_due[t] % period[t] = phase[t]

(* No burst: when the handlers run, the next deadline of every task about to*)
(* fire is in the future, however many periods a stall swallowed.           *)
NoBurst ==
  pc = "firing" => \A i \in DOMAIN pending : \/ next_due[pending[i]] = None
                                             \/ next_due[pending[i]] > 0

(* When wait() blocks, the poll object watches exactly the sockets that the *)
(* services in the list want watched, for exactly the events they want: no  *)
(* descriptor of a closed socket is left in it to end every wait at once,   *)
(* and no live socket is missing because it was given a closed one's        *)
(* descriptor (_sync_poll_set, _unregister_descriptor).                     *)
PollSetMatches ==
  pc = "polling" =>
    poll_set = [d \in {fd[s] : s \in {x \in Sockets : Wanted(x) # {}}} |->
                  Wanted(CHOOSE s \in Sockets : fd[s] = d)]

(* A periodic task that stays in the list fires again and again: no service *)
(* that faults, even at every tick, no exception that leaves tick() and no  *)
(* socket that is never ready stops the others.                             *)
PeriodicServed ==
  \A t \in Tasks :
    <>[](t \in Active /\ period[t] # None /\ ~Options[t].checks)
      => []<>(pc = "counting" /\ pending[ix] = t)

(* What the README promises of on_handler_error: a callback that re-raises  *)
(* makes the runner fail fast, so the fault leaves tick().                  *)
FailFast ==
  [][OnError = "reraise" /\ pc = "firing" /\ handler_errors' # handler_errors
       => pc' = "idle"]_vars
=============================================================================

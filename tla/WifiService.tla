----------------------------- MODULE WifiService -----------------------------
(***************************************************************************)
(* WifiService of chumicro_wifi, the reconnect supervisor, over the radio   *)
(* its adapter drives: one that blocks until it is joined (CircuitPython),  *)
(* or one that joins while the service polls it (MicroPython).  An action   *)
(* is one outcome of handle(); callbacks of on_state_change only look.      *)
(***************************************************************************)
EXTENDS Integers

CONSTANTS
  Budgets,      \* the values of reconnect_max, Unset among them or not
  BackoffStart, BackoffMax,  \* reconnect_backoff_start_ms, reconnect_backoff_max_ms
  FirstJoinTime, JoinTime,   \* first_connect_timeout_ms, connect_timeout_ms
  MaxFailures,  \* bound on what is counted of consecutive failures
  Unset

ASSUME WifiAssumption ==
  /\ MaxFailures \in Nat \ {0} /\ Budgets \subseteq 1..MaxFailures \cup {Unset}
  /\ BackoffStart \in Nat \ {0} /\ BackoffMax \in Nat /\ BackoffStart <= BackoffMax
  /\ FirstJoinTime \in Nat \ {0} /\ JoinTime \in Nat \ {0}
  /\ Unset \notin Nat
  (* Counting stops only when the pause is the longest one already.         *)
  /\ BackoffMax <= BackoffStart * 2^(MaxFailures - 1)

(* Arithmetic the provers do not know.                                      *)
ASSUME PowersOfTwo == \A n \in 0..MaxFailures : 2^n \in Nat /\ 2^(n + 1) = 2 * 2^n

VARIABLES
  wifi,   \* the attributes of the service; due, deadline: the time left until then
  radio,  \* "down", "joining" or "linked"
  ap,     \* the access point can be joined
  past    \* history: failures since the last link, and the time since the last one

wifiVars == <<wifi, radio, ap, past>>

WifiInit ==
  /\ \E blocks \in BOOLEAN, budget \in Budgets :
       wifi = [state |-> "disconnected", due |-> 0, backoff |-> BackoffStart,
               attempts |-> 0, deadline |-> Unset, configured |-> FALSE,
               blocks |-> blocks, budget |-> budget]
  /\ radio = "down" /\ ap \in BOOLEAN
  /\ past = [failures |-> 0, rest |-> 0]

Least(a, b) == IF a < b THEN a ELSE b
Linked      == radio = "linked"

-----------------------------------------------------------------------------
MarkConnected(w) ==
  /\ wifi' = [w EXCEPT !.state = "connected", !.backoff = BackoffStart,
                       !.attempts = 0, !.deadline = Unset]
  /\ past' = [failures |-> 0, rest |-> 0]

(* _register_failed_attempt: the budget, or the next attempt after a pause  *)
(* measured from the clock, which a blocking attempt has moved on.          *)
RegisterFailed_Final(w) ==                    \* mutant: one attempt too many
  IF w.budget # Unset /\ w.attempts >= w.budget
  THEN [w EXCEPT !.state = "failed", !.attempts = Least(@ + 1, MaxFailures)]
  ELSE [w EXCEPT !.attempts = Least(@ + 1, MaxFailures), !.due = w.backoff,
                 !.backoff = Least(@ * 2, BackoffMax)]
RegisterFailed(w) ==
  IF w.budget # Unset /\ w.attempts + 1 >= w.budget
  THEN [w EXCEPT !.state = "failed", !.attempts = Least(@ + 1, MaxFailures)]
  ELSE [w EXCEPT !.attempts = Least(@ + 1, MaxFailures), !.due = w.backoff,
                 !.backoff = Least(@ * 2, BackoffMax)]

Fails(w) ==
  /\ wifi' = RegisterFailed(w)
  /\ past' = [failures |-> Least(past.failures + 1, MaxFailures), rest |-> 0]

-----------------------------------------------------------------------------
(* handle() of a service that is connected: the link is gone.               *)
LinkLost ==
  /\ wifi.state = "connected" /\ ~Linked
  /\ wifi' = [wifi EXCEPT !.state = "reconnecting", !.backoff = BackoffStart,
                          !.due = 0, !.deadline = Unset]
  /\ UNCHANGED <<radio, ap, past>>

Trying == wifi.state \notin {"connected", "failed"}

(* The first handle() goes through CONNECTING.                              *)
Entered ==
  IF wifi.state = "disconnected" THEN [wifi EXCEPT !.state = "connecting"] ELSE wifi

(* _attempt_connect *)
Attempts == Trying /\ wifi.deadline = Unset /\ wifi.due = 0

ConfigureRaises ==
  /\ Attempts /\ ~wifi.configured
  /\ Fails(Entered) /\ UNCHANGED <<radio, ap>>

Dialling == [Entered EXCEPT !.configured = TRUE]

AlreadyLinked == Attempts /\ Linked /\ MarkConnected(Dialling) /\ UNCHANGED <<radio, ap>>

(* CpWifiAdapter.connect: the station is stopped first; the call returns    *)
(* joined or not, or raises.  Also MpWifiAdapter.connect may find it joined. *)
JoinsAtOnce ==
  /\ Attempts /\ ~Linked /\ ap
  /\ radio' = "linked" /\ MarkConnected(Dialling) /\ UNCHANGED ap

JoinRefused ==
  /\ Attempts /\ wifi.blocks /\ ~Linked
  /\ radio' = "down" /\ Fails(Dialling) /\ UNCHANGED ap

(* _attempt_timeout_ms: the first join, which warms the radio, has longer.  *)
AttemptTime == IF wifi.configured THEN JoinTime ELSE FirstJoinTime

(* MpWifiAdapter.connect: dispatched, or refused by an exception.           *)
JoinDispatched ==
  /\ Attempts /\ ~wifi.blocks /\ ~Linked
  /\ radio' = "joining" /\ wifi' = [Dialling EXCEPT !.deadline = AttemptTime]
  /\ UNCHANGED <<ap, past>>

JoinRaises ==
  /\ Attempts /\ ~wifi.blocks /\ ~Linked
  /\ Fails(Dialling) /\ UNCHANGED <<radio, ap>>

(* _poll_in_flight *)
PollLinked ==
  /\ Trying /\ wifi.deadline # Unset /\ Linked
  /\ MarkConnected(wifi) /\ UNCHANGED <<radio, ap>>

TimedOut_KeepsDeadline(w) == w                \* mutant: the join stays in flight for ever
TimedOut(w) == [w EXCEPT !.deadline = Unset]

PollTimeout ==
  /\ Trying /\ wifi.deadline = 0 /\ ~Linked
  /\ Fails(TimedOut(wifi)) /\ UNCHANGED <<radio, ap>>

Attempt == ConfigureRaises \/ AlreadyLinked \/ JoinsAtOnce \/ JoinRefused
             \/ JoinDispatched \/ JoinRaises
WifiHandle == LinkLost \/ Attempt \/ PollLinked \/ PollTimeout

-----------------------------------------------------------------------------
(* The clock, and the radio.  A join may come off after its time is up, and *)
(* firmware may join again by itself after a link is lost; links are lost   *)
(* while the access point cannot be reached.                                *)
Counted(t) == IF t = Unset \/ t = 0 THEN t ELSE t - 1

WifiElapse ==
  /\ Trying /\ (wifi.due > 0 \/ wifi.deadline \notin {Unset, 0})
  /\ wifi' = [wifi EXCEPT !.due = Counted(@), !.deadline = Counted(@)]
  /\ past' = [past EXCEPT !.rest = Least(@ + 1, BackoffMax)]
  /\ UNCHANGED <<radio, ap>>

Joined    == radio = "joining" /\ ap /\ radio' = "linked" /\ UNCHANGED <<wifi, ap, past>>
LinkDrops == Linked /\ ~ap /\ radio' \in {"down", "joining"} /\ UNCHANGED <<wifi, ap, past>>
ApChanges == ap' = ~ap /\ UNCHANGED <<wifi, radio, past>>

Radio == Joined \/ LinkDrops \/ ApChanges

WifiNext == WifiHandle \/ WifiElapse \/ Radio

WifiSpec == WifiInit /\ [][WifiNext]_wifiVars

-----------------------------------------------------------------------------
(* Retries follow the configuration: the service gives up exactly when the  *)
(* budget of consecutive failures is spent, and between a failure and the   *)
(* next attempt it pauses for the start value, doubled for every failure    *)
(* since the last link, up to the cap.                                      *)
Pause(failures) == Least(BackoffStart * 2^(failures - 1), BackoffMax)

RetriesAsConfigured ==
  /\ wifi.state = "failed" <=> wifi.budget # Unset /\ past.failures = wifi.budget
  /\ Trying /\ wifi.deadline = Unset /\ past.failures > 0 =>
       IF wifi.due > 0 THEN wifi.due + past.rest = Pause(past.failures)
       ELSE past.rest >= Pause(past.failures)

(* A service that has not given up is connected again and again while the   *)
(* access point is there.                                                   *)
WifiReconnects == <>[]ap => []<>(wifi.state \in {"connected", "failed"})
=============================================================================

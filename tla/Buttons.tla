------------------------------- MODULE Buttons -------------------------------
(***************************************************************************)
(* Buttons over MpButtonSource of chumicro_buttons: the constructor, which  *)
(* reads the pins and then installs their interrupts, an interrupt handler  *)
(* that records edges in a ring, and check(), which takes them out,         *)
(* debounces them and resynchronises with the pins after edges were         *)
(* dropped.  A pin may change between any two steps of either.              *)
(* Times are ages, in units of which settle_ms is a few.                    *)
(***************************************************************************)
EXTENDS Integers, Sequences

CONSTANTS
  KeyCount,  \* key_count
  Settle,    \* settle_ms
  RingDepth,     \* ring_depth
  MaxLag,    \* bound on the age of an edge when check() takes it, and on the time
             \* a check() or the constructor takes
  MaxEdges   \* bound on the edges of a behaviour

ASSUME ButtonsAssumption ==
  /\ KeyCount \in Nat \ {0} /\ RingDepth \in Nat \ {0, 1}
  /\ Settle \in Nat /\ MaxLag \in Nat \ {0} /\ MaxEdges \in Nat

Pins == 1..KeyCount
OldAge == Settle + MaxLag  \* ages beyond it make no difference

VARIABLES
  pin,      \* key -> pressed
  stood,    \* key -> how long it has been so
  ring,     \* the edges recorded, the oldest first
  source,   \* the other attributes of the source
  check,    \* where the constructor or check() is: at; the key it looks at; lag: how
            \* old started_ms or now_ms is
  pressed,  \* key -> Button.pressed
  history   \* edges so far; whether one was dropped; whether an event was not real; reading

buttonVars == <<pin, stood, ring, source, check, pressed, history>>

(* reading: what the constructor read of a key is good, or the pin changed  *)
(* before its interrupt was installed: it is not the level read (stale), or *)
(* it is but was not all the time (doubtful).                               *)
ButtonsInit ==
  /\ pin \in [Pins -> BOOLEAN] /\ stood = [k \in Pins |-> 0]
  /\ ring = <<>>
  /\ source = [dropped |-> FALSE, believed |-> [k \in Pins |-> FALSE],
               pending |-> [k \in Pins |-> FALSE], change |-> [k \in Pins |-> 0], sweep |-> 1]
  /\ check = [at |-> "sample", key |-> 1, lag |-> 0]
  /\ pressed = [k \in Pins |-> FALSE]
  /\ history = [edges |-> 0, dropped |-> FALSE, phantom |-> FALSE,
                reading |-> [k \in Pins |-> "good"]]

-----------------------------------------------------------------------------
(* __init__: all pins are read, then the interrupts are installed, one by   *)
(* one; change_ms is when it began.                                         *)
Sampled(k)   == check.at # "sample" \/ k < check.key
Installed(k) == check.at # "sample" /\ (check.at = "install" => k < check.key)

SamplePin ==
  LET k == check.key IN
  /\ check.at = "sample" /\ source' = [source EXCEPT !.pending[k] = pin[k]]
  /\ check' = IF k < KeyCount THEN [check EXCEPT !.key = k + 1]
              ELSE [check EXCEPT !.at = "install", !.key = 1]
  /\ UNCHANGED <<pin, stood, ring, pressed, history>>

InstallIrq ==
  /\ check.at = "install"
  /\ check' = IF check.key < KeyCount THEN [check EXCEPT !.key = @ + 1]
              ELSE [at |-> "idle", key |-> 1, lag |-> 0]
  /\ UNCHANGED <<pin, stood, ring, source, pressed, history>>

ConstructSource == SamplePin \/ InstallIrq

-----------------------------------------------------------------------------
(* _capture_edge: one place of the ring stays free.                         *)
Full == Len(ring) = RingDepth - 1

Heard(k) == IF history.reading[k] = "stale" THEN "doubtful" ELSE history.reading[k]

CaptureEdge(k, level) ==
  IF Full
  THEN /\ source' = [source EXCEPT !.dropped = TRUE] /\ UNCHANGED ring
       /\ history' = [history EXCEPT !.edges = @ + 1, !.reading[k] = Heard(k), !.dropped = TRUE]
  ELSE /\ ring' = Append(ring, [key |-> k, level |-> level, age |-> 0, stood |-> stood[k]])
       /\ history' = [history EXCEPT !.edges = @ + 1, !.reading[k] = Heard(k)]
       /\ UNCHANGED source

MissEdge(k, level) ==
  /\ history' = [history EXCEPT !.edges = @ + 1,
                   !.reading[k] = IF Sampled(k) /\ level # source.pending[k] THEN "stale"
                                  ELSE "doubtful"]
  /\ UNCHANGED <<ring, source>>

Edge(k) ==
  /\ history.edges < MaxEdges
  /\ pin' = [pin EXCEPT ![k] = ~@] /\ stood' = [stood EXCEPT ![k] = 0]
  /\ IF Installed(k) THEN CaptureEdge(k, pin'[k]) ELSE MissEdge(k, pin'[k])
  /\ UNCHANGED <<check, pressed>>

Older(t) == IF t < OldAge THEN t + 1 ELSE t
OlderAll(f) == [k \in DOMAIN f |-> Older(f[k])]

ButtonsElapse ==
  /\ \A i \in DOMAIN ring : ring[i].age < MaxLag
  /\ check.at # "idle" => check.lag < MaxLag
  /\ stood' = OlderAll(stood)
  /\ ring' = [i \in DOMAIN ring |-> [ring[i] EXCEPT !.age = Older(@)]]
  /\ source' = [source EXCEPT !.change = OlderAll(@)]
  /\ check' = [check EXCEPT !.lag = IF check.at = "idle" THEN 0 ELSE @ + 1]
  /\ UNCHANGED <<pin, pressed, history>>

-----------------------------------------------------------------------------
(* check(): poll(), then next_event() until there is none.                  *)
Poll ==
  /\ check.at = "idle" /\ check' = [at |-> "ring", key |-> 1, lag |-> 0]
  /\ UNCHANGED <<pin, stood, ring, source, pressed, history>>

(* An event is real if the pin stood at its level for settle_ms; that of a  *)
(* key whose reading is not good may not be.                                *)
Event(k, level, real, reading) ==
  /\ pressed' = [pressed EXCEPT ![k] = level]
  /\ history' = [history EXCEPT !.phantom = @ \/ (history.reading[k] = "good" /\ ~real),
                                !.reading[k] = reading]

NoEvent == UNCHANGED <<pressed, history>>

(* The level an edge leaves is confirmed if it had settled.                 *)
Confirmed_Always(e) == source.pending[e.key] # source.believed[e.key]  \* mutant: no settling
Confirmed(e) ==
  /\ source.pending[e.key] # source.believed[e.key]
  /\ source.change[e.key] - e.age >= Settle

TakeEdge ==
  LET e == Head(ring)  k == e.key  departed == source.pending[k] IN
  /\ check.at = "ring" /\ ring # <<>> /\ ring' = Tail(ring)
  /\ IF e.level = departed THEN UNCHANGED source /\ NoEvent
     ELSE IF Confirmed(e)
     THEN /\ source' = [source EXCEPT !.pending[k] = e.level, !.believed[k] = departed,
                                      !.change[k] = e.age]
          /\ Event(k, departed, e.stood >= Settle, "good")
     ELSE /\ source' = [source EXCEPT !.pending[k] = e.level,
                          !.change[k] = IF e.level # source.believed[k] THEN e.age ELSE @]
          /\ UNCHANGED pressed /\ history' = [history EXCEPT !.reading[k] = "good"]
  /\ UNCHANGED <<pin, stood, check>>

(* The ring is empty: resample the pins if edges were dropped, then sweep.  *)
(* One step: a ring (of 32 places) does not fill up and overflow between    *)
(* its being found empty and the look at what was dropped.                  *)
RingEmpty_KeepsGoing ==                       \* mutant: no resynchronisation
  check' = [check EXCEPT !.at = "sweep", !.key = source.sweep] /\ UNCHANGED source
RingEmpty ==
  /\ check' = [check EXCEPT !.at = IF source.dropped THEN "resample" ELSE "sweep",
                            !.key = IF source.dropped THEN 1 ELSE source.sweep]
  /\ source' = [source EXCEPT !.dropped = FALSE]

EndRing ==
  /\ check.at = "ring" /\ ring = <<>> /\ RingEmpty
  /\ UNCHANGED <<pin, stood, ring>> /\ NoEvent

Resample ==
  LET k == check.key IN
  /\ check.at = "resample"
  /\ source' = IF pin[k] = source.pending[k] THEN source
               ELSE [source EXCEPT !.pending[k] = pin[k],
                       !.change[k] = IF pin[k] # source.believed[k] THEN check.lag ELSE @]
  /\ check' = IF k < KeyCount THEN [check EXCEPT !.key = k + 1]
              ELSE [check EXCEPT !.at = "sweep", !.key = source.sweep]
  /\ history' = [history EXCEPT !.reading[k] = "good"]
  /\ UNCHANGED <<pin, stood, ring, pressed>>

(* One key of the sweep; after an event the next call looks at the ring     *)
(* first and goes on behind the key.                                        *)
Settled(k) ==
  source.pending[k] # source.believed[k] /\ source.change[k] - check.lag >= Settle

Real(k) ==
  \/ pin[k] = source.pending[k] /\ stood[k] >= Settle
  \/ \E i \in DOMAIN ring : /\ ring[i].key = k /\ ring[i].stood >= Settle
                            /\ \A j \in 1..(i - 1) : ring[j].key # k

Sweep ==
  LET k == check.key IN
  /\ check.at = "sweep" /\ k <= KeyCount
  /\ IF Settled(k)
     THEN /\ source' = [source EXCEPT !.believed[k] = source.pending[k], !.sweep = k + 1]
          /\ Event(k, source.pending[k], Real(k), history.reading[k])
          /\ check' = [check EXCEPT !.at = "ring"]
     ELSE check' = [check EXCEPT !.key = k + 1] /\ UNCHANGED source /\ NoEvent
  /\ UNCHANGED <<pin, stood, ring>>

EndSweep ==
  /\ check.at = "sweep" /\ check.key > KeyCount
  /\ source' = [source EXCEPT !.sweep = 1]
  /\ check' = [at |-> "idle", key |-> 1, lag |-> 0]
  /\ UNCHANGED <<pin, stood, ring>> /\ NoEvent

Check == Poll \/ TakeEdge \/ EndRing \/ Resample \/ Sweep \/ EndSweep

ButtonsNext == ConstructSource \/ Check \/ ButtonsElapse \/ \E k \in Pins : Edge(k)

ButtonsSpec == ButtonsInit /\ [][ButtonsNext]_buttonVars

-----------------------------------------------------------------------------
(* While no edge is dropped, a press or release is only reported if the pin *)
(* really stood there for settle_ms: no bounce passes for a press, however  *)
(* late and interrupted the check() is.  Only a key that changed before its *)
(* interrupt was installed may be reported wrong, until check() takes an    *)
(* edge away from the level that was read.                                  *)
NoBounce == ~history.dropped => ~history.phantom

(* When the pins come to rest, every key is reported as its pin stands, no  *)
(* matter which edges the ring had no room for, unless its last edge went   *)
(* by between the reading of the pin and its interrupt's installation.      *)
LevelsAgree ==
  <>[](\A k \in Pins : pressed[k] = pin[k] \/ history.reading[k] = "stale")
=============================================================================

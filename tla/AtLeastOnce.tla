---------------------------- MODULE AtLeastOnce ----------------------------
(***************************************************************************)
(* What publish(qos=1) promises, whatever happens on the way: a            *)
(* publication the client accepted is confirmed to the application only    *)
(* after the broker has it, and its fate, once decided, is final.          *)
(***************************************************************************)
EXTENDS Naturals

CONSTANT Messages
VARIABLES fate, held_by_broker

vars == <<fate, held_by_broker>>

Init == /\ fate = [m \in Messages |-> "new"]
        /\ held_by_broker = {}

Accept(m) == /\ fate[m] = "new"
             /\ fate' = [fate EXCEPT ![m] = "accepted"]
             /\ UNCHANGED held_by_broker

(* The broker takes a copy, possibly another one, of an accepted message.   *)
Store(m) == /\ fate[m] # "new"
            /\ held_by_broker' = held_by_broker \cup {m}
            /\ UNCHANGED fate

Confirm(m) == /\ fate[m] = "accepted" /\ m \in held_by_broker
              /\ fate' = [fate EXCEPT ![m] = "acked"]
              /\ UNCHANGED held_by_broker

(* The client stops trying: some accepted messages are given up at once.    *)
GiveUp(S) == /\ \A m \in S : fate[m] = "accepted"
             /\ fate' = [m \in Messages |-> IF m \in S THEN "dropped" ELSE fate[m]]
             /\ UNCHANGED held_by_broker

Next == \/ \E m \in Messages : Accept(m) \/ Store(m) \/ Confirm(m)
        \/ \E S \in SUBSET Messages : GiveUp(S)

Spec == Init /\ [][Next]_vars
=============================================================================

----------------------------- MODULE MC_Runner -----------------------------
(* Instances of Runner: blink is an add_periodic with preserve_phase, sensor*)
(* a task with a check(), a start_after_ms and a run_count, svc and peer    *)
(* are network services.                                                    *)
EXTENDS Runner

CONSTANTS blink, sensor, svc, peer

Plain == [period |-> None, start |-> None, run_count |-> None,
          preserve |-> FALSE, checks |-> TRUE, io |-> FALSE]
MCOptions ==
  [t \in Tasks |->
     CASE t = blink  -> [Plain EXCEPT !.period = 2, !.start = 1, !.preserve = TRUE,
                                      !.checks = FALSE]
       [] t = sensor -> [Plain EXCEPT !.start = 1, !.run_count = 2]
       [] OTHER      -> [Plain EXCEPT !.io = TRUE]]
MCNewPeriods == [t \in Tasks |-> IF t = blink THEN {3, None} ELSE {}]
MCInterests  == {{"read"}, {"write"}}
=============================================================================

------------------------------- MODULE MainLoop -------------------------------
(***************************************************************************)
(* What the clusters promise together: one sequential loop                 *)
(* (src/opal/src_bare_async/cluster/main.c:175).  It runs the steps        *)
(* 0 .. Duration, and may stop early only after a step it has monitored.   *)
(***************************************************************************)
EXTENDS Integers

CONSTANTS Duration, Period

VARIABLES
  turn,     \* the step that is running, or that would be the next one
  running   \* the loop has not been left

Init == turn = 0 /\ running = TRUE

(* Step "turn" is followed by a monitoring.                                *)
Monitored == turn > 0 /\ turn % Period = 0

Turn ==
  /\ running = TRUE
  /\ turn' = turn + 1
  /\ \/ running' = (turn + 1 <= Duration)
     \/ Monitored /\ running' = FALSE

Next == Turn
Spec == Init /\ [][Next]_<<turn, running>>
=============================================================================

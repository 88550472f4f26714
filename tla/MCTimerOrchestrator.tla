------------------------ MODULE MCTimerOrchestrator ------------------------
(* The lifecycle with two idle reports in flight at a time, interchangeable, *)
(* beside a call from outside the queue and the queue itself.                *)
EXTENDS TimerOrchestrator, TLC

HandlersSymmetry == Permutations(Handlers)
=============================================================================

----------------------------- MODULE WorkClock -----------------------------
(***************************************************************************)
(* What the classes of workspace-timing that measure working time share:   *)
(* Date.now() and the two modes that time is counted under.                *)
(***************************************************************************)
EXTENDS Integers

CONSTANT MaxTime    \* bounds the clock
ASSUME MaxTimeAssumption == MaxTime \in Nat \ {0}

VARIABLE now        \* Date.now()

\* ActivityMode
Modes == {"manual", "ai"}
=============================================================================

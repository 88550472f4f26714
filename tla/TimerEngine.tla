---------------------------- MODULE TimerEngine ----------------------------
(***************************************************************************)
(* workspace-timing/src/domain/TimerEngine.ts: the state machine that      *)
(* attributes working time to the manual and the ai mode.                  *)
(*                                                                         *)
(* The engine is one record, timer, and every method a function from the   *)
(* record (and the clock) to the record, so that a caller that makes       *)
(* several calls in one handler composes them.  EngineSpec is the class    *)
(* used through its callers: any order of calls, with a present or past    *)
(* timestamp wherever a method takes one.  Timestamps start at 1, 0 means  *)
(* none.  The clock does not go back.                                      *)
(***************************************************************************)
EXTENDS WorkClock

VARIABLE timer    \* the TimerEngine

engineVars == <<now, timer>>

Later(a, b) == IF a >= b THEN a ELSE b

\* Math.max(0, b - a)
Elapsed(a, b) == IF b >= a THEN b - a ELSE 0

\* Math.round(x * (a / c))
RoundedShare(x, a, c) == (2 * x * a + c) \div (2 * c)

NewTimer ==
  [running |-> FALSE, pausedIdle |-> FALSE, idleStart |-> 0, mode |-> "manual",
   sessionStart |-> 0, segmentStart |-> 0, manualAcc |-> 0, aiAcc |-> 0,
   total |-> 0, manual |-> 0, ai |-> 0, idle |-> 0,
   sessions |-> {}, idles |-> {}]

\* What the session has collected per mode at the time end.
ManualAt(t, end) ==
  t.manualAcc + IF t.mode = "manual" THEN Elapsed(t.segmentStart, end) ELSE 0
AiAt(t, end) ==
  t.aiAcc + IF t.mode = "ai" THEN Elapsed(t.segmentStart, end) ELSE 0

\* The total the status bar shows: snapshot().currentTotalMs.
CurrentTotal(t, at) == t.total + IF t.running THEN ManualAt(t, at) + AiAt(t, at) ELSE 0

PointersReset(t, start) ==
  [t EXCEPT !.sessionStart = start, !.segmentStart = start, !.manualAcc = 0, !.aiAcc = 0]

\* Mutant: the segment goes on from where it was.
SwitchedWithoutNewSegment(t, mode, at) ==
  IF ~t.running THEN [t EXCEPT !.mode = mode]
  ELSE [t EXCEPT !.mode = mode, !.manualAcc = ManualAt(t, at), !.aiAcc = AiAt(t, at)]

\* switchMode: what the session collected is put away under the old mode.
Switched(t, mode, at) ==
  IF ~t.running \/ t.mode = mode THEN [t EXCEPT !.mode = mode]
  ELSE [t EXCEPT !.mode = mode, !.segmentStart = at,
                 !.manualAcc = ManualAt(t, at), !.aiAcc = AiAt(t, at)]

Started(t, at) ==
  IF t.running THEN t
  ELSE PointersReset([t EXCEPT !.running = TRUE, !.pausedIdle = FALSE, !.idleStart = 0], at)

\* A session that ends at end, with its time per mode, enters the totals.
Booked(t, end, manual, ai) ==
  [t EXCEPT !.total = @ + Elapsed(t.sessionStart, end),
            !.manual = @ + manual,
            !.ai = @ + ai,
            !.sessions = @ \union {[start |-> t.sessionStart, end |-> end]}]

\* stop: the time per mode is made to fit the elapsed time.
Stopped(t, at) ==
  LET elapsed == Elapsed(t.sessionStart, at)
      fits    == ManualAt(t, at) + AiAt(t, at) = elapsed
      manual  == IF fits \/ t.mode = "ai" THEN ManualAt(t, at) ELSE Elapsed(t.aiAcc, elapsed)
      ai      == IF fits \/ t.mode = "manual" THEN AiAt(t, at) ELSE Elapsed(t.manualAcc, elapsed)
      halted  == [t EXCEPT !.running = FALSE, !.pausedIdle = FALSE, !.idleStart = 0]
  IN  IF t.running THEN Booked(halted, at, manual, ai) ELSE halted

\* pauseForIdle: the session is cut back to idleStart; a cut before the running
\* segment shares the time out in the proportion of the accumulators.
PausedAt(t, idleStart) ==
  LET end     == Later(t.sessionStart, idleStart)
      elapsed == end - t.sessionStart
      manual  == IF end >= t.segmentStart THEN ManualAt(t, end)
                 ELSE RoundedShare(elapsed, t.manualAcc, Later(1, t.manualAcc + t.aiAcc))
      ai      == IF end >= t.segmentStart THEN AiAt(t, end) ELSE elapsed - manual
      paused  == [t EXCEPT !.running = FALSE, !.pausedIdle = TRUE, !.idleStart = idleStart]
  IN  IF ~t.running THEN t
      ELSE PointersReset(IF elapsed = 0
                           THEN [paused EXCEPT !.manual = @ + manual, !.ai = @ + ai]
                           ELSE Booked(paused, end, manual, ai), 0)

\* resumeFromIdle: does not look at running or pausedIdle.
ResumedAt(t, at) ==
  LET start == Later(1, t.idleStart)
      end   == Later(start, at)
      awake == [t EXCEPT !.running = TRUE, !.pausedIdle = FALSE, !.idleStart = 0]
  IN  PointersReset(IF end = start THEN awake
                    ELSE [awake EXCEPT !.idle = @ + (end - start),
                                       !.idles = @ \union {[start |-> start, end |-> end]}],
                    end)

\* Mutant: a cut that forgets what the accumulators hold.
CutAtSegmentOnly(t, boundary, resume) ==
  LET segment == Elapsed(t.segmentStart, boundary)
  IN  IF ~t.running THEN t
      ELSE IF boundary <= t.sessionStart THEN PointersReset(t, resume)
      ELSE PointersReset(Booked(t, boundary,
                                IF t.mode = "manual" THEN segment ELSE 0,
                                IF t.mode = "ai" THEN segment ELSE 0), resume)

\* Mutant: a cut before the session's start is a session too.
CutAtAnyBoundary(t, boundary, resume) ==
  IF ~t.running THEN t
  ELSE PointersReset(Booked(t, boundary, ManualAt(t, boundary), AiAt(t, boundary)), resume)

\* rotateSession(boundary) and resumeFromSleep(boundary, resume): the session
\* ends at boundary and the next one starts at resume.  (What rotateSession does
\* with two shares of zero needs a boundary before the session's start.)
CutAt(t, boundary, resume) ==
  IF ~t.running THEN t
  ELSE IF boundary <= t.sessionStart THEN PointersReset(t, resume)
  ELSE PointersReset(Booked(t, boundary, ManualAt(t, boundary), AiAt(t, boundary)), resume)

Rotated(t, boundary) == CutAt(t, boundary, boundary)
Awoken(t, sleepStart, resume) == CutAt(t, sleepStart, resume)

-----------------------------------------------------------------------------
EngineInit == now = 1 /\ timer = NewTimer

\* startSession and endSession, handleIdlePause, handleIdleResume and the
\* heartbeat leave a session that is not active alone.
Active == timer.running \/ timer.pausedIdle

TimePasses == now < MaxTime /\ now' = now + 1 /\ UNCHANGED timer

Start == timer' = Started(timer, now) /\ UNCHANGED now
Stop == Active /\ timer' = Stopped(timer, now) /\ UNCHANGED now
SwitchMode == \E mode \in Modes : timer' = Switched(timer, mode, now) /\ UNCHANGED now
PauseForIdle ==
  Active /\ \E idleStart \in 1 .. now : timer' = PausedAt(timer, idleStart) /\ UNCHANGED now
ResumeFromIdle == Active /\ timer' = ResumedAt(timer, now) /\ UNCHANGED now
RotateSession ==
  Active /\ \E boundary \in 1 .. now : timer' = Rotated(timer, boundary) /\ UNCHANGED now
ResumeFromSleep ==
  Active /\ \E sleepStart \in 1 .. now : timer' = Awoken(timer, sleepStart, now) /\ UNCHANGED now

EngineNext ==
  \/ TimePasses
  \/ Start
  \/ Stop
  \/ SwitchMode
  \/ PauseForIdle
  \/ ResumeFromIdle
  \/ RotateSession
  \/ ResumeFromSleep

EngineSpec == EngineInit /\ [][EngineNext]_engineVars

-----------------------------------------------------------------------------
(* Properties.                                                             *)

Intervals == [start : Nat, end : Nat]

Timers ==
  [running : BOOLEAN, pausedIdle : BOOLEAN, idleStart : Nat, mode : Modes,
   sessionStart : Nat, segmentStart : Nat, manualAcc : Nat, aiAcc : Nat,
   total : Nat, manual : Nat, ai : Nat, idle : Nat,
   sessions : SUBSET Intervals, idles : SUBSET Intervals]

EngineTypeOK == now \in 1 .. MaxTime /\ timer \in Timers

\* The accumulators account for the running session up to its open segment:
\* no sequence of mode switches, rotations, pauses and resumes leaves them
\* with time of another session, or without time of this one.
SegmentsFillSession ==
  timer.running =>
    /\ timer.sessionStart > 0
    /\ timer.sessionStart <= timer.segmentStart
    /\ timer.segmentStart <= now
    /\ timer.manualAcc + timer.aiAcc = timer.segmentStart - timer.sessionStart

\* By how much the time per mode exceeds the total.
Drift == timer.manual + timer.ai - timer.total

\* The time per mode never falls short of the total, whatever is cut where.
NeverUndercounted == Drift >= 0

\* The modes drift away from the total in one situation only: the session is
\* cut at a time before its open segment, because the boundary is noticed after
\* the mode was switched; the drift is what lies between.
DriftsByLateCut ==
  Drift' # Drift =>
    LET cut == timer.sessionStart + (timer'.total - timer.total)
    IN  /\ timer.running
        /\ cut < timer.segmentStart
        /\ Drift' - Drift = timer.segmentStart - cut
DriftOnlyFromLateCut == [][DriftsByLateCut]_engineVars

\* The total on display never runs ahead of the clock: a call can only take
\* time back or, when it moves a running session's start back to a boundary,
\* add the time between the two.
Reading == CurrentTotal(timer, now)
MovedBack ==
  IF timer.running /\ timer'.running THEN Elapsed(timer'.sessionStart, timer.sessionStart) ELSE 0
ReadingFollowsClock == Reading' - Reading <= (now' - now) + MovedBack
DisplayFollowsClock == [][ReadingFollowsClock]_engineVars

\* "Conservation of Duration - totalMs === manualTotalMs + aiTotalMs".
ConservationOfDuration == timer.total = timer.manual + timer.ai
=============================================================================

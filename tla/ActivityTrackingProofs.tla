----------------------- MODULE ActivityTrackingProofs -----------------------
(***************************************************************************)
(* Proofs about a running session: first the two classes by themselves,    *)
(* the TimerEngine called in any order and the ActivityWatcher with any    *)
(* events, then both under the handlers and the heartbeat that connect     *)
(* them (ActivityTracking).                                                *)
(*                                                                         *)
(* The methods are functions of a record, so what one call does is stated  *)
(* once, as a lemma about any record, and used for the class alone and for *)
(* every handler that composes it with others.                             *)
(***************************************************************************)
EXTENDS ActivityTracking, TLAPS, FiniteSetTheorems, WellFoundedInduction

\* SegmentsFillSession, of a timer at a time.
Filled(t, at) ==
  t.running =>
    /\ t.sessionStart > 0
    /\ t.sessionStart <= t.segmentStart
    /\ t.segmentStart <= at
    /\ t.manualAcc + t.aiAcc = t.segmentStart - t.sessionStart

DriftOf(t) == t.manual + t.ai - t.total

\* A step from timer t to timer u at the time at that keeps the invariant and
\* the action properties.
GoodStep(t, u, at) ==
  /\ u \in Timers
  /\ Filled(u, at)
  /\ u.idleStart <= at
  /\ \/ DriftOf(u) = DriftOf(t)
     \/ LET cut == t.sessionStart + (u.total - t.total)
        IN  /\ t.running
            /\ cut < t.segmentStart
            /\ DriftOf(u) - DriftOf(t) = t.segmentStart - cut
  /\ CurrentTotal(u, at) - CurrentTotal(t, at)
       <= IF t.running /\ u.running THEN Elapsed(u.sessionStart, t.sessionStart) ELSE 0

\* The time per mode of a running session adds up to its length, or to the
\* length up to its open segment if that is later than the end.
LEMMA ModesLemma ==
  ASSUME NEW t \in Timers, NEW at \in Nat, NEW end \in Nat, Filled(t, at), t.running
  PROVE  /\ ManualAt(t, end) \in Nat /\ AiAt(t, end) \in Nat
         /\ ManualAt(t, end) + AiAt(t, end)
                 = Later(end, t.segmentStart) - t.sessionStart
<1>1. /\ t.mode \in {"manual", "ai"} /\ t.manualAcc \in Nat /\ t.aiAcc \in Nat
      /\ t.segmentStart \in Nat /\ t.sessionStart \in Nat
  BY DEF Timers, Modes
<1>2. t.manualAcc + t.aiAcc = t.segmentStart - t.sessionStart
  BY DEF Filled
<1>3. Elapsed(t.segmentStart, end) \in Nat
      /\ Elapsed(t.segmentStart, end) = Later(end, t.segmentStart) - t.segmentStart
  BY <1>1 DEF Elapsed, Later
<1>4. Later(end, t.segmentStart) \in Nat
  BY <1>1 DEF Later
<1>5. CASE t.mode = "manual"
  <2>1. /\ ManualAt(t, end) = t.manualAcc + Elapsed(t.segmentStart, end)
        /\ AiAt(t, end) = t.aiAcc
    BY <1>1, <1>5 DEF ManualAt, AiAt
  <2>. QED  BY <1>1, <1>2, <1>3, <1>4, <2>1
<1>6. CASE t.mode = "ai"
  <2>1. /\ ManualAt(t, end) = t.manualAcc
        /\ AiAt(t, end) = t.aiAcc + Elapsed(t.segmentStart, end)
    BY <1>1, <1>6 DEF ManualAt, AiAt
  <2>. QED  BY <1>1, <1>2, <1>3, <1>4, <2>1
<1>. QED  BY <1>1, <1>5, <1>6

LEMMA ResetLemma ==
  ASSUME NEW t \in Timers, NEW start \in Nat
  PROVE  /\ PointersReset(t, start) \in Timers
         /\ \A f \in {"running", "pausedIdle", "idleStart", "mode", "total", "manual", "ai"} :
              PointersReset(t, start)[f] = t[f]
         /\ PointersReset(t, start).sessionStart = start
         /\ PointersReset(t, start).segmentStart = start
         /\ PointersReset(t, start).manualAcc = 0
         /\ PointersReset(t, start).aiAcc = 0
BY DEF PointersReset, Timers

\* A step that neither changes the totals nor lets a running timer show more.
LEMMA CurrentLemma ==
  ASSUME NEW t \in Timers, NEW at \in Nat, Filled(t, at)
  PROVE  /\ CurrentTotal(t, at) \in Nat
         /\ CurrentTotal(t, at) = t.total + IF t.running THEN at - t.sessionStart ELSE 0
<1>1. /\ t.total \in Nat /\ t.sessionStart \in Nat /\ t.segmentStart \in Nat
      /\ t.running \in BOOLEAN
  BY DEF Timers
<1>2. CASE t.running
  <2>1. /\ ManualAt(t, at) \in Nat /\ AiAt(t, at) \in Nat
        /\ ManualAt(t, at) + AiAt(t, at)
                = Later(at, t.segmentStart) - t.sessionStart
    BY <1>2, ModesLemma
  <2>2. Later(at, t.segmentStart) = at
    BY <1>1, <1>2 DEF Filled, Later
  <2>3. CurrentTotal(t, at) = t.total + (ManualAt(t, at) + AiAt(t, at))
    BY <1>2 DEF CurrentTotal
  <2>. QED  BY <1>1, <1>2, <2>1, <2>2, <2>3
<1>3. CASE ~t.running
  BY <1>1, <1>3 DEF CurrentTotal
<1>. QED  BY <1>2, <1>3

LEMMA SwitchedLemma ==
  ASSUME NEW t \in Timers, NEW at \in Nat, Filled(t, at), t.idleStart <= at,
         NEW mode \in Modes
  PROVE  GoodStep(t, Switched(t, mode, at), at)
<1>. DEFINE u == Switched(t, mode, at)
<1>1. /\ u \in Timers /\ Filled(u, at) /\ u.idleStart <= at
      /\ u.running = t.running /\ u.sessionStart = t.sessionStart
      /\ u.total = t.total /\ u.manual = t.manual /\ u.ai = t.ai
  <2>1. CASE ~t.running \/ t.mode = mode
    <3>1. u = [t EXCEPT !.mode = mode]
      BY <2>1 DEF Switched
    <3>. QED  BY <3>1 DEF Timers, Filled
  <2>2. CASE t.running /\ t.mode # mode
    <3>1. u = [t EXCEPT !.mode = mode, !.segmentStart = at,
                        !.manualAcc = ManualAt(t, at), !.aiAcc = AiAt(t, at)]
      BY <2>2 DEF Switched
    <3>2. /\ ManualAt(t, at) \in Nat /\ AiAt(t, at) \in Nat
          /\ ManualAt(t, at) + AiAt(t, at)
                  = Later(at, t.segmentStart) - t.sessionStart
      BY <2>2, ModesLemma
    <3>3. /\ t.sessionStart \in Nat /\ t.segmentStart \in Nat
          /\ t.sessionStart > 0 /\ t.sessionStart <= at
          /\ Later(at, t.segmentStart) = at
      BY <2>2 DEF Timers, Filled, Later
    <3>4. /\ u \in Timers
          /\ u.running = t.running /\ u.sessionStart = t.sessionStart
          /\ u.total = t.total /\ u.manual = t.manual /\ u.ai = t.ai
          /\ u.segmentStart = at /\ u.idleStart = t.idleStart
          /\ u.manualAcc = ManualAt(t, at) /\ u.aiAcc = AiAt(t, at)
      BY <3>1, <3>2 DEF Timers
    <3>. QED  BY <3>2, <3>3, <3>4 DEF Filled
  <2>. QED  BY <2>1, <2>2
<1>. HIDE DEF u
<1>2. DriftOf(u) = DriftOf(t)
  BY <1>1 DEF DriftOf
<1>3. CurrentTotal(u, at) = CurrentTotal(t, at) /\ CurrentTotal(t, at) \in Nat
  BY <1>1, CurrentLemma
<1>4. Elapsed(u.sessionStart, t.sessionStart) \in Nat
  BY <1>1 DEF Elapsed, Timers
<1>. QED  BY <1>1, <1>2, <1>3, <1>4 DEF GoodStep, u

LEMMA StartedLemma ==
  ASSUME NEW t \in Timers, NEW at \in Nat, at > 0, Filled(t, at), t.idleStart <= at
  PROVE  GoodStep(t, Started(t, at), at)
<1>. DEFINE u == Started(t, at)
<1>1. CurrentTotal(t, at) \in Nat
  BY CurrentLemma
<1>2. Elapsed(t.sessionStart, t.sessionStart) = 0
  BY DEF Elapsed, Timers
<1>3. CASE t.running
  BY <1>1, <1>2, <1>3 DEF Started, GoodStep
<1>4. CASE ~t.running
  <2>1. /\ u \in Timers /\ u.running /\ u.idleStart = 0
        /\ u.sessionStart = at /\ u.segmentStart = at /\ u.manualAcc = 0 /\ u.aiAcc = 0
        /\ u.total = t.total /\ u.manual = t.manual /\ u.ai = t.ai
    BY <1>4 DEF Started, PointersReset, Timers
  <2>. HIDE DEF u
  <2>2. Filled(u, at) /\ DriftOf(u) = DriftOf(t)
    BY <2>1 DEF Filled, DriftOf
  <2>3. CurrentTotal(u, at) = CurrentTotal(t, at)
    <3>1. t.total \in Nat
      BY DEF Timers
    <3>. QED  BY <1>4, <2>1, <2>2, <3>1, CurrentLemma
  <2>. QED  BY <1>1, <1>4, <2>1, <2>2, <2>3 DEF GoodStep, u
<1>. QED  BY <1>3, <1>4 DEF Timers

\* What booking a session does to the fields a step looks at.
LEMMA BookedLemma ==
  ASSUME NEW t \in Timers, NEW end \in Nat, t.sessionStart <= end,
         NEW manual \in Nat, NEW ai \in Nat
  PROVE  LET b == Booked(t, end, manual, ai)
         IN  /\ b \in Timers
             /\ b.total = t.total + (end - t.sessionStart)
             /\ b.manual = t.manual + manual /\ b.ai = t.ai + ai
             /\ b.running = t.running /\ b.pausedIdle = t.pausedIdle
             /\ b.idleStart = t.idleStart /\ b.mode = t.mode
<1>. DEFINE entry == [start |-> t.sessionStart, end |-> end]
            sum   == t.total + Elapsed(t.sessionStart, end)
<1>1. /\ Elapsed(t.sessionStart, end) = end - t.sessionStart
      /\ sum \in Nat /\ sum = t.total + (end - t.sessionStart)
  BY DEF Elapsed, Timers
<1>2. entry \in Intervals
  BY DEF Intervals, Timers
<1>3. Booked(t, end, manual, ai) =
        [t EXCEPT !.total = sum, !.manual = t.manual + manual, !.ai = t.ai + ai,
                  !.sessions = t.sessions \union {entry}]
  BY DEF Booked, Timers
<1>4. /\ t.manual + manual \in Nat /\ t.ai + ai \in Nat
      /\ t.sessions \union {entry} \subseteq Intervals
  BY <1>2 DEF Timers
<1>. HIDE DEF entry, sum
<1>. QED  BY <1>1, <1>3, <1>4 DEF Timers

\* A session that is booked whole, and after which the engine does not run.
LEMMA StoppedLemma ==
  ASSUME NEW t \in Timers, NEW at \in Nat, Filled(t, at), t.idleStart <= at
  PROVE  GoodStep(t, Stopped(t, at), at)
<1>. DEFINE halted == [t EXCEPT !.running = FALSE, !.pausedIdle = FALSE, !.idleStart = 0]
            u      == Stopped(t, at)
<1>1. /\ halted \in Timers /\ ~halted.running /\ halted.idleStart = 0
      /\ halted.sessionStart = t.sessionStart
      /\ halted.total = t.total /\ halted.manual = t.manual /\ halted.ai = t.ai
  BY DEF Timers
<1>2. CurrentTotal(t, at) \in Nat /\ t.total \in Nat
  BY CurrentLemma DEF Timers
<1>3. CASE ~t.running
  <2>1. u = halted
    BY <1>3 DEF Stopped
  <2>. HIDE DEF halted, u
  <2>2. CurrentTotal(u, at) = CurrentTotal(t, at)
    BY <1>1, <1>3, <2>1 DEF CurrentTotal
  <2>. QED  BY <1>1, <1>2, <1>3, <2>1, <2>2 DEF GoodStep, Filled, DriftOf, u
<1>4. CASE t.running
  <2>1. /\ ManualAt(t, at) \in Nat /\ AiAt(t, at) \in Nat
        /\ ManualAt(t, at) + AiAt(t, at) = at - t.sessionStart
        /\ t.sessionStart \in Nat /\ t.sessionStart <= at
        /\ Elapsed(t.sessionStart, at) = at - t.sessionStart
    <3>1. Later(at, t.segmentStart) = at /\ t.sessionStart \in Nat /\ t.sessionStart <= at
      BY <1>4 DEF Later, Filled, Timers
    <3>. QED  BY <1>4, <3>1, ModesLemma DEF Elapsed
  <2>2. u = Booked(halted, at, ManualAt(t, at), AiAt(t, at))
    BY <1>4, <2>1 DEF Stopped
  <2>. HIDE DEF halted
  <2>3. /\ u \in Timers /\ ~u.running /\ u.idleStart = 0
        /\ u.total = t.total + (at - t.sessionStart)
        /\ u.manual = t.manual + ManualAt(t, at) /\ u.ai = t.ai + AiAt(t, at)
    BY <1>1, <2>1, <2>2, BookedLemma
  <2>. HIDE DEF u
  <2>4. DriftOf(u) = DriftOf(t)
    <3>1. t.manual \in Nat /\ t.ai \in Nat
      BY DEF Timers
    <3>. QED  BY <1>2, <2>1, <2>3, <3>1 DEF DriftOf
  <2>5. CurrentTotal(u, at) = CurrentTotal(t, at)
    BY <1>2, <1>4, <2>1, <2>3, CurrentLemma DEF CurrentTotal
  <2>. QED  BY <1>2, <2>3, <2>4, <2>5 DEF GoodStep, Filled, u
<1>. QED  BY <1>3, <1>4 DEF Timers

\* A rounded proper share of x is between 0 and x.
LEMMA ShareLemma ==
  ASSUME NEW x \in Nat, NEW a \in Nat, NEW c \in Nat, c > 0, a <= c
  PROVE  RoundedShare(x, a, c) \in 0 .. x
<1>. DEFINE n == 2 * x * a + c
            q == n \div (2 * c)
<1>1. x * a \in Nat /\ x * c \in Nat /\ x * a <= x * c
  <2>1. x * a \in Nat /\ x * c \in Nat /\ x * (c - a) \in Nat
    OBVIOUS
  <2>2. x * c = x * a + x * (c - a)
    OBVIOUS
  <2>. QED  BY <2>1, <2>2
<1>2. n \in Nat /\ n = 2 * (x * a) + c
  BY <1>1
<1>3. n < (2 * c) * (x + 1)
  <2>1. (2 * c) * (x + 1) = 2 * (x * c) + 2 * c
    OBVIOUS
  <2>. QED  BY <1>1, <1>2, <2>1
<1>4. 2 * c \in Nat /\ 2 * c > 0
  OBVIOUS
<1>. HIDE DEF n
<1>5. ASSUME NEW d \in Nat, d > 0, NEW m \in Nat, m < d * (x + 1)
      PROVE  m \div d \in 0 .. x
  <2>1. m \div d \in Int /\ d * (m \div d) <= m /\ m < d * (m \div d) + d
    BY <1>5
  <2>2. m \div d >= 0
    BY <1>5
  <2>3. m \div d <= x
    <3>1. SUFFICES ASSUME m \div d >= x + 1 PROVE FALSE
      BY <2>1
    <3>2. d * (m \div d) >= d * (x + 1)
      BY <2>1, <2>2, <3>1, <1>5
    <3>. QED  BY <1>5, <2>1, <3>2
  <2>. QED  BY <2>1, <2>2, <2>3
<1>. QED  BY <1>2, <1>3, <1>4, <1>5 DEF RoundedShare, n

LEMMA PausedLemma ==
  ASSUME NEW t \in Timers, NEW at \in Nat, Filled(t, at), t.idleStart <= at,
         NEW idleStart \in 1 .. at
  PROVE  GoodStep(t, PausedAt(t, idleStart), at)
<1>. DEFINE u == PausedAt(t, idleStart)
            end == Later(t.sessionStart, idleStart)
            elapsed == end - t.sessionStart
            manual == IF end >= t.segmentStart THEN ManualAt(t, end)
                      ELSE RoundedShare(elapsed, t.manualAcc, Later(1, t.manualAcc + t.aiAcc))
            ai == IF end >= t.segmentStart THEN AiAt(t, end) ELSE elapsed - manual
            paused == [t EXCEPT !.running = FALSE, !.pausedIdle = TRUE, !.idleStart = idleStart]
            booked == IF elapsed = 0
                        THEN [paused EXCEPT !.manual = @ + manual, !.ai = @ + ai]
                        ELSE Booked(paused, end, manual, ai)
<1>1. CurrentTotal(t, at) \in Nat /\ t.total \in Nat /\ t.manual \in Nat /\ t.ai \in Nat
  BY CurrentLemma DEF Timers
<1>2. CASE ~t.running
  BY <1>1, <1>2 DEF PausedAt, GoodStep
<1>3. CASE t.running
  <2>1. /\ t.sessionStart \in Nat /\ t.segmentStart \in Nat
        /\ t.manualAcc \in Nat /\ t.aiAcc \in Nat
        /\ t.sessionStart <= t.segmentStart /\ t.segmentStart <= at
    BY <1>3 DEF Timers, Filled
  <2>2. end \in Nat /\ t.sessionStart <= end /\ end <= at /\ elapsed \in Nat
    BY <2>1 DEF Later
  <2>3. manual \in Nat /\ ai \in Nat /\ manual + ai = elapsed
    <3>1. CASE end >= t.segmentStart
      <4>1. /\ ManualAt(t, end) \in Nat /\ AiAt(t, end) \in Nat
            /\ ManualAt(t, end) + AiAt(t, end)
                    = Later(end, t.segmentStart) - t.sessionStart
        BY <1>3, <2>2, ModesLemma
      <4>2. Later(end, t.segmentStart) = end
        BY <3>1 DEF Later
      <4>. QED  BY <3>1, <4>1, <4>2
    <3>2. CASE ~(end >= t.segmentStart)
      <4>1. /\ Later(1, t.manualAcc + t.aiAcc) \in Nat
            /\ Later(1, t.manualAcc + t.aiAcc) > 0
            /\ t.manualAcc <= Later(1, t.manualAcc + t.aiAcc)
        BY <2>1 DEF Later
      <4>2. manual \in 0 .. elapsed
        BY <2>1, <2>2, <3>2, <4>1, ShareLemma
      <4>. QED  BY <2>2, <3>2, <4>2
    <3>. QED  BY <3>1, <3>2
  <2>. HIDE DEF manual, ai
  <2>4. /\ paused \in Timers /\ ~paused.running /\ paused.idleStart = idleStart
        /\ paused.sessionStart = t.sessionStart
        /\ paused.total = t.total /\ paused.manual = t.manual /\ paused.ai = t.ai
    <3>1. idleStart \in Nat
      OBVIOUS
    <3>. QED  BY <3>1 DEF Timers
  <2>. HIDE DEF paused
  <2>5. /\ booked \in Timers /\ ~booked.running /\ booked.idleStart = idleStart
        /\ booked.total = t.total + elapsed
        /\ booked.manual = t.manual + manual /\ booked.ai = t.ai + ai
    <3>1. CASE elapsed = 0
      <4>1. booked = [paused EXCEPT !.manual = t.manual + manual, !.ai = t.ai + ai]
        BY <2>4, <3>1 DEF Timers
      <4>2. t.manual + manual \in Nat /\ t.ai + ai \in Nat
        BY <1>1, <2>3
      <4>3. elapsed = 0 /\ t.total + elapsed = t.total
        BY <1>1, <3>1
      <4>. HIDE DEF booked, elapsed
      <4>. QED  BY <2>4, <4>1, <4>2, <4>3 DEF Timers
    <3>2. CASE elapsed # 0
      <4>1. booked = Booked(paused, end, manual, ai)
        BY <3>2
      <4>2. paused.total + (end - paused.sessionStart) = t.total + elapsed
        BY <2>4
      <4>. HIDE DEF booked, elapsed, end
      <4>. QED  BY <2>2, <2>3, <2>4, <4>1, <4>2, BookedLemma
    <3>. QED  BY <3>1, <3>2
  <2>6. u = PointersReset(booked, 0)
    BY <1>3 DEF PausedAt, booked, paused, manual, ai
  <2>. HIDE DEF booked, u, end
  <2>7. /\ u \in Timers /\ ~u.running /\ u.idleStart = idleStart
        /\ u.total = t.total + elapsed
        /\ u.manual = t.manual + manual /\ u.ai = t.ai + ai
    <3>1. /\ u \in Timers /\ u.running = booked.running /\ u.idleStart = booked.idleStart
          /\ u.total = booked.total /\ u.manual = booked.manual /\ u.ai = booked.ai
      BY <2>5, <2>6, ResetLemma
    <3>. QED  BY <2>5, <3>1
  <2>8. DriftOf(u) = DriftOf(t)
    BY <1>1, <2>2, <2>3, <2>7 DEF DriftOf
  <2>9. CurrentTotal(u, at) <= CurrentTotal(t, at)
    BY <1>1, <1>3, <2>1, <2>2, <2>7, CurrentLemma DEF CurrentTotal
  <2>10. CurrentTotal(u, at) \in Nat
    BY <1>1, <2>2, <2>7 DEF CurrentTotal
  <2>. QED  BY <1>1, <2>7, <2>8, <2>9, <2>10 DEF GoodStep, Filled, u
<1>. QED  BY <1>2, <1>3 DEF Timers

LEMMA ResumedLemma ==
  ASSUME NEW t \in Timers, NEW at \in Nat, at > 0, Filled(t, at), t.idleStart <= at
  PROVE  GoodStep(t, ResumedAt(t, at), at)
<1>. DEFINE u == ResumedAt(t, at)
            start == Later(1, t.idleStart)
            awake == [t EXCEPT !.running = TRUE, !.pausedIdle = FALSE, !.idleStart = 0]
            rested == [awake EXCEPT !.idle = @ + (at - start),
                                    !.idles = @ \union {[start |-> start, end |-> at]}]
<1>1. start \in Nat /\ start <= at /\ Later(start, at) = at
  BY DEF Later, Timers
<1>2. /\ awake \in Timers /\ awake.running /\ awake.idleStart = 0
      /\ awake.total = t.total /\ awake.manual = t.manual /\ awake.ai = t.ai
      /\ awake.idle = t.idle /\ awake.idles = t.idles
  BY DEF Timers
<1>3. /\ rested \in Timers /\ rested.running /\ rested.idleStart = 0
      /\ rested.total = t.total /\ rested.manual = t.manual /\ rested.ai = t.ai
  <2>1. /\ t.idle + (at - start) \in Nat
        /\ t.idles \union {[start |-> start, end |-> at]} \subseteq Intervals
    BY <1>1 DEF Timers, Intervals
  <2>2. rested = [awake EXCEPT !.idle = t.idle + (at - start),
                               !.idles = t.idles \union {[start |-> start, end |-> at]}]
    BY <1>2 DEF Timers
  <2>. HIDE DEF awake, rested, start
  <2>. QED  BY <1>2, <2>1, <2>2 DEF Timers
<1>4. u = PointersReset(IF at = start THEN awake ELSE rested, at)
  BY <1>1 DEF ResumedAt
<1>. HIDE DEF awake, rested, start, u
<1>5. /\ u \in Timers /\ u.running /\ u.idleStart = 0
      /\ u.total = t.total /\ u.manual = t.manual /\ u.ai = t.ai
      /\ u.sessionStart = at /\ u.segmentStart = at /\ u.manualAcc = 0 /\ u.aiAcc = 0
  BY <1>2, <1>3, <1>4, ResetLemma
<1>6. Filled(u, at) /\ DriftOf(u) = DriftOf(t)
  BY <1>5 DEF Filled, DriftOf
<1>7. /\ CurrentTotal(u, at) = t.total /\ CurrentTotal(t, at) \in Nat
      /\ t.total <= CurrentTotal(t, at) /\ t.total \in Nat
      /\ t.running => t.sessionStart <= at
  <2>1. t.total \in Nat /\ t.sessionStart \in Nat /\ t.segmentStart \in Nat
    BY DEF Timers
  <2>2. t.running => t.sessionStart <= at
    BY <2>1 DEF Filled
  <2>. QED  BY <1>5, <1>6, <2>1, <2>2, CurrentLemma
<1>8. t.running => Elapsed(u.sessionStart, t.sessionStart) \in Nat
  BY <1>5 DEF Elapsed, Timers
<1>. QED  BY <1>5, <1>6, <1>7, <1>8 DEF GoodStep, u

LEMMA CutLemma ==
  ASSUME NEW t \in Timers, NEW at \in Nat, Filled(t, at), t.idleStart <= at,
         NEW boundary \in 1 .. at, NEW resume \in boundary .. at
  PROVE  GoodStep(t, CutAt(t, boundary, resume), at)
<1>. DEFINE u == CutAt(t, boundary, resume)
            booked == Booked(t, boundary, ManualAt(t, boundary), AiAt(t, boundary))
<1>1. /\ CurrentTotal(t, at) \in Nat /\ t.total \in Nat /\ t.manual \in Nat /\ t.ai \in Nat
      /\ boundary \in Nat /\ resume \in Nat /\ resume > 0 /\ resume <= at
  BY CurrentLemma DEF Timers
<1>2. CASE ~t.running
  BY <1>1, <1>2 DEF CutAt, GoodStep
<1>3. ASSUME t.running
      PROVE  /\ t.sessionStart \in Nat /\ t.segmentStart \in Nat
             /\ t.sessionStart <= t.segmentStart /\ t.segmentStart <= at
             /\ CurrentTotal(t, at) = t.total + (at - t.sessionStart)
  BY <1>3, CurrentLemma DEF Timers, Filled
<1>4. CASE t.running /\ boundary <= t.sessionStart
  <2>1. u = PointersReset(t, resume)
    BY <1>4 DEF CutAt
  <2>. HIDE DEF u
  <2>2. /\ u \in Timers /\ u.running /\ u.idleStart = t.idleStart
        /\ u.total = t.total /\ u.manual = t.manual /\ u.ai = t.ai
        /\ u.sessionStart = resume /\ u.segmentStart = resume
        /\ u.manualAcc = 0 /\ u.aiAcc = 0
    BY <1>1, <1>4, <2>1, ResetLemma
  <2>3. Filled(u, at) /\ DriftOf(u) = DriftOf(t)
    BY <1>1, <2>2 DEF Filled, DriftOf
  <2>4. CurrentTotal(u, at) = t.total + (at - resume)
    BY <2>2, <2>3, CurrentLemma
  <2>5. CurrentTotal(u, at) - CurrentTotal(t, at) <= Elapsed(u.sessionStart, t.sessionStart)
    BY <1>1, <1>3, <1>4, <2>2, <2>4 DEF Elapsed
  <2>. QED  BY <1>4, <2>2, <2>3, <2>5 DEF GoodStep, u
<1>5. CASE t.running /\ ~(boundary <= t.sessionStart)
  <2>1. u = PointersReset(booked, resume)
    BY <1>5 DEF CutAt
  <2>2. /\ ManualAt(t, boundary) \in Nat /\ AiAt(t, boundary) \in Nat
        /\ ManualAt(t, boundary) + AiAt(t, boundary)
                = Later(boundary, t.segmentStart) - t.sessionStart
    BY <1>1, <1>5, ModesLemma
  <2>3. /\ booked \in Timers
        /\ booked.total = t.total + (boundary - t.sessionStart)
        /\ booked.manual = t.manual + ManualAt(t, boundary)
        /\ booked.ai = t.ai + AiAt(t, boundary)
        /\ booked.running = t.running /\ booked.idleStart = t.idleStart
    <3>1. t.sessionStart <= boundary
      BY <1>1, <1>3, <1>5
    <3>. DEFINE m == ManualAt(t, boundary)
                a == AiAt(t, boundary)
    <3>2. m \in Nat /\ a \in Nat /\ boundary \in Nat
      BY <1>1, <2>2
    <3>3. booked = Booked(t, boundary, m, a)
      OBVIOUS
    <3>. HIDE DEF booked, m, a
    <3>4. /\ booked \in Timers
          /\ booked.total = t.total + (boundary - t.sessionStart)
          /\ booked.manual = t.manual + m /\ booked.ai = t.ai + a
          /\ booked.running = t.running /\ booked.idleStart = t.idleStart
      BY <3>1, <3>2, <3>3, BookedLemma
    <3>. QED  BY <3>4 DEF m, a
  <2>. HIDE DEF booked, u
  <2>4. /\ u \in Timers /\ u.running /\ u.idleStart = t.idleStart
        /\ u.total = booked.total /\ u.manual = booked.manual /\ u.ai = booked.ai
        /\ u.sessionStart = resume /\ u.segmentStart = resume
        /\ u.manualAcc = 0 /\ u.aiAcc = 0
    BY <1>1, <1>5, <2>1, <2>3, ResetLemma
  <2>5. Filled(u, at)
    BY <1>1, <2>4 DEF Filled
  <2>6. DriftOf(u) - DriftOf(t) = Later(boundary, t.segmentStart) - boundary
    <3>1. Later(boundary, t.segmentStart) \in Nat
      BY <1>1, <1>3, <1>5 DEF Later
    <3>2. DriftOf(u) = (t.manual + ManualAt(t, boundary)) + (t.ai + AiAt(t, boundary))
                         - (t.total + (boundary - t.sessionStart))
      BY <2>3, <2>4 DEF DriftOf
    <3>3. DriftOf(t) = t.manual + t.ai - t.total
      BY DEF DriftOf
    <3>. HIDE DEF DriftOf
    <3>. QED  BY <1>1, <1>3, <1>5, <2>2, <3>1, <3>2, <3>3
  <2>7. \/ DriftOf(u) = DriftOf(t)
        \/ LET cut == t.sessionStart + (u.total - t.total)
           IN  /\ t.running
               /\ cut < t.segmentStart
               /\ DriftOf(u) - DriftOf(t) = t.segmentStart - cut
    <3>1. DriftOf(u) \in Int /\ DriftOf(t) \in Int
      BY <2>4 DEF DriftOf, Timers
    <3>2. t.sessionStart + (u.total - t.total) = boundary
      BY <1>1, <1>3, <1>5, <2>3, <2>4
    <3>3. CASE t.segmentStart <= boundary
      BY <1>1, <1>3, <1>5, <2>6, <3>1, <3>3 DEF Later
    <3>4. CASE ~(t.segmentStart <= boundary)
      BY <1>1, <1>3, <1>5, <2>6, <3>1, <3>2, <3>4 DEF Later
    <3>. QED  BY <3>3, <3>4
  <2>8. CurrentTotal(u, at) = t.total + (boundary - t.sessionStart) + (at - resume)
    BY <2>3, <2>4, <2>5, CurrentLemma
  <2>9. CurrentTotal(u, at) - CurrentTotal(t, at) <= Elapsed(u.sessionStart, t.sessionStart)
    <3>1. resume >= boundary
      BY <1>1
    <3>. QED  BY <1>1, <1>3, <1>5, <2>4, <2>8, <3>1 DEF Elapsed
  <2>. QED  BY <1>5, <2>4, <2>5, <2>7, <2>9 DEF GoodStep, u
<1>. QED  BY <1>2, <1>4, <1>5 DEF Timers

-----------------------------------------------------------------------------
(* The theorems.                                                           *)

EngineInv == EngineTypeOK /\ Filled(timer, now) /\ timer.idleStart <= now /\ NeverUndercounted

USE MaxTimeAssumption

\* Every call is a good step of the timer.
LEMMA EngineCall ==
  ASSUME EngineInv, EngineNext, ~TimePasses
  PROVE  GoodStep(timer, timer', now) /\ now' = now
<1>1. /\ timer \in Timers /\ now \in Nat /\ now > 0
      /\ Filled(timer, now) /\ timer.idleStart <= now
  BY DEF EngineInv, EngineTypeOK
<1>2. CASE Start
  BY <1>1, <1>2, StartedLemma DEF Start
<1>3. CASE Stop
  BY <1>1, <1>3, StoppedLemma DEF Stop
<1>4. CASE SwitchMode
  BY <1>1, <1>4, SwitchedLemma DEF SwitchMode
<1>5. CASE PauseForIdle
  BY <1>1, <1>5, PausedLemma DEF PauseForIdle
<1>6. CASE ResumeFromIdle
  BY <1>1, <1>6, ResumedLemma DEF ResumeFromIdle
<1>7. CASE RotateSession
  <2>1. PICK boundary \in 1 .. now : timer' = CutAt(timer, boundary, boundary) /\ now' = now
    BY <1>7 DEF RotateSession, Rotated
  <2>2. boundary \in boundary .. now
    BY <1>1
  <2>. QED  BY <1>1, <2>1, <2>2, CutLemma
<1>8. CASE ResumeFromSleep
  <2>1. PICK sleepStart \in 1 .. now : timer' = CutAt(timer, sleepStart, now) /\ now' = now
    BY <1>8 DEF ResumeFromSleep, Awoken
  <2>2. now \in sleepStart .. now
    BY <1>1
  <2>. QED  BY <1>1, <2>1, <2>2, CutLemma
<1>. QED  BY <1>2, <1>3, <1>4, <1>5, <1>6, <1>7, <1>8 DEF EngineNext

LEMMA EngineStarts == EngineInit => EngineInv
<1>. SUFFICES ASSUME EngineInit PROVE EngineInv
  OBVIOUS
<1>1. now = 1 /\ timer = NewTimer
  BY DEF EngineInit
<1>2. NewTimer \in Timers
  BY DEF NewTimer, Timers, Modes
<1>3. Filled(timer, now) /\ timer.idleStart <= now /\ NeverUndercounted
  BY <1>1 DEF NewTimer, Filled, NeverUndercounted, Drift
<1>. QED  BY <1>1, <1>2, <1>3 DEF EngineInv, EngineTypeOK

LEMMA EngineStep ==
  ASSUME EngineInv, [EngineNext]_engineVars
  PROVE  /\ EngineInv'
         /\ [DriftsByLateCut]_engineVars
         /\ [ReadingFollowsClock]_engineVars
<1>1. /\ timer \in Timers /\ now \in Nat /\ now > 0
      /\ Filled(timer, now) /\ timer.idleStart <= now
      /\ timer.sessionStart \in Nat /\ timer.segmentStart \in Nat /\ timer.total \in Nat
      /\ timer.idleStart \in Nat
  BY DEF EngineInv, EngineTypeOK, Timers
<1>2. CASE TimePasses
  <2>1. now' = now + 1 /\ timer' = timer /\ now' \in 1 .. MaxTime
    BY <1>1, <1>2 DEF TimePasses, EngineInv, EngineTypeOK
  <2>2. EngineInv'
    BY <1>1, <2>1 DEF EngineInv, EngineTypeOK, Filled, NeverUndercounted, Drift
  <2>3. DriftsByLateCut
    BY <2>1 DEF DriftsByLateCut, Drift
  <2>4. ReadingFollowsClock
    <3>1. Filled(timer, now + 1)
      BY <1>1 DEF Filled
    <3>2. /\ CurrentTotal(timer, now) = timer.total + IF timer.running THEN now - timer.sessionStart ELSE 0
          /\ CurrentTotal(timer, now + 1)
               = timer.total + IF timer.running THEN (now + 1) - timer.sessionStart ELSE 0
      BY <1>1, <3>1, CurrentLemma
    <3>3. MovedBack = 0
      BY <1>1, <2>1 DEF MovedBack, Elapsed
    <3>4. Reading' = CurrentTotal(timer, now + 1)
      BY <2>1 DEF Reading
    <3>. QED  BY <1>1, <2>1, <3>2, <3>3, <3>4 DEF ReadingFollowsClock, Reading
  <2>. QED  BY <2>2, <2>3, <2>4
<1>3. CASE EngineNext /\ ~TimePasses
  <2>1. GoodStep(timer, timer', now) /\ now' = now
    BY <1>3, EngineCall
  <2>2. /\ Drift = DriftOf(timer) /\ Drift' = DriftOf(timer')
        /\ Reading = CurrentTotal(timer, now)
        /\ Reading' = CurrentTotal(timer', now)
    BY <2>1 DEF Drift, DriftOf, Reading
  <2>3. DriftsByLateCut
    BY <2>1, <2>2 DEF GoodStep, DriftsByLateCut
  <2>4. timer' \in Timers /\ Filled(timer', now) /\ timer'.idleStart <= now
    BY <2>1 DEF GoodStep
  <2>5. NeverUndercounted'
    <3>1. Drift \in Int /\ Drift' \in Int /\ Drift >= 0
      BY <1>1, <2>2, <2>4 DEF DriftOf, Timers, EngineInv, NeverUndercounted
    <3>2. timer'.total \in Nat /\ timer.total \in Nat
      BY <1>1, <2>4 DEF Timers
    <3>3. Drift' >= Drift
      BY <1>1, <2>3, <3>1, <3>2 DEF DriftsByLateCut
    <3>. QED  BY <3>1, <3>3 DEF NeverUndercounted
  <2>6. ReadingFollowsClock
    <3>1. Reading' - Reading <= MovedBack
      BY <2>1, <2>2 DEF GoodStep, MovedBack
    <3>2. Reading \in Int /\ Reading' \in Int /\ MovedBack \in Int
      <4>1. Reading \in Nat /\ Reading' \in Nat
        BY <1>1, <2>2, <2>4, CurrentLemma
      <4>2. timer'.sessionStart \in Nat
        BY <2>4 DEF Timers
      <4>. QED  BY <1>1, <4>1, <4>2 DEF MovedBack, Elapsed
    <3>3. (now' - now) + MovedBack = MovedBack
      <4>1. now' - now = 0
        BY <1>1, <2>1
      <4>. QED  BY <3>2, <4>1
    <3>. QED  BY <3>1, <3>3 DEF ReadingFollowsClock
  <2>7. EngineTypeOK' /\ Filled(timer', now') /\ timer'.idleStart <= now'
    BY <2>1, <2>4 DEF EngineInv, EngineTypeOK
  <2>. QED  BY <2>3, <2>5, <2>6, <2>7 DEF EngineInv
<1>4. CASE UNCHANGED engineVars
  <2>1. now' = now /\ timer' = timer
    BY <1>4 DEF engineVars
  <2>2. EngineInv'
    BY <2>1 DEF EngineInv, EngineTypeOK, NeverUndercounted, Drift
  <2>. QED  BY <1>4, <2>2
<1>. QED  BY <1>2, <1>3, <1>4

\* EngineInv is an invariant of the engine for any bound on the clock.
THEOREM EngineInvariance == EngineSpec => []EngineInv
<1>1. EngineInv /\ [EngineNext]_engineVars => EngineInv'
  BY EngineStep
<1>. QED  BY <1>1, EngineStarts, PTL DEF EngineSpec

\* The engine's numbers stay natural numbers: no call with a past timestamp
\* makes a total, an accumulator or a share of TimerEngine.ts negative.
THEOREM EngineTyped == EngineSpec => []EngineTypeOK
<1>1. EngineInv => EngineTypeOK
  BY DEF EngineInv
<1>. QED  BY <1>1, EngineInvariance, PTL

\* The accumulators of TimerEngine.ts account for exactly the running session up
\* to its open segment.
THEOREM AccumulatorsExact == EngineSpec => []SegmentsFillSession
<1>1. EngineInv => SegmentsFillSession
  BY DEF EngineInv, Filled, SegmentsFillSession
<1>. QED  BY <1>1, EngineInvariance, PTL

\* manualTotalMs + aiTotalMs never falls below totalMs.
THEOREM NoUndercount == EngineSpec => []NeverUndercounted
<1>1. EngineInv => NeverUndercounted
  BY DEF EngineInv
<1>. QED  BY <1>1, EngineInvariance, PTL

\* Conservation of duration holds across every call but a cut before the open
\* segment, where the excess is exactly what lies between.
THEOREM ConservationUpToLateCuts == EngineSpec => DriftOnlyFromLateCut
<1>1. EngineInv /\ [EngineNext]_engineVars => [DriftsByLateCut]_engineVars
  BY EngineStep
<1>. QED  BY <1>1, EngineInvariance, PTL DEF EngineSpec, DriftOnlyFromLateCut

\* The displayed total never outruns the clock, except by a session start that
\* is moved back.
THEOREM DisplayNeverOutrunsClock == EngineSpec => DisplayFollowsClock
<1>1. EngineInv /\ [EngineNext]_engineVars => [ReadingFollowsClock]_engineVars
  BY EngineStep
<1>. QED  BY <1>1, EngineInvariance, PTL DEF EngineSpec, DisplayFollowsClock
-----------------------------------------------------------------------------

Reports == [modeChange : {None, "idle"} \union Modes, activity : {None} \union Modes,
            idleSince : Times]

\* A lock keeps the mode.  In manual mode the last activity was manual, or a tick
\* assumed it at the time a; only a lock on "ai" lets the watcher hear manual
\* activity in another mode.
Dated(w, a) ==
  /\ w.lock # None => w.mode = w.lock
  /\ w.mode = "manual" => w.lastManual = w.lastActivity \/ w.lastActivity = a

\* The timer of a debounce window fires later than the beat before it.
Debounced(w, at) ==
  /\ w.manualBeat <= at /\ (w.manualFlush # 0 => w.manualBeat < w.manualFlush)
  /\ w.aiBeat <= at /\ (w.aiFlush # 0 => w.aiBeat < w.aiFlush)

Fit(w, at, a) == w \in Watchers /\ Dated(w, a) /\ Debounced(w, at)

GoodOutcome(w, outcome, at, a) ==
  /\ Fit(outcome.watcher, at, a)
  /\ outcome.sent \in Reports
  /\ outcome.sent.idleSince # 0 =>
       \/ outcome.sent.idleSince = outcome.watcher.lastActivity
       \/ outcome.watcher.lastActivity = a /\ outcome.sent.idleSince = outcome.watcher.lastManual

\* What an event and a debounce timer pass on is a beat, and the first at this time.
Throttles(w, outcome, at) ==
  LET v == outcome.watcher
  IN  /\ IF outcome.sent.activity = "manual" THEN w.manualBeat < at /\ v.manualBeat = at
         ELSE v.manualBeat \in {w.manualBeat, at}
      /\ IF outcome.sent.activity = "ai" THEN w.aiBeat < at /\ v.aiBeat = at
         ELSE v.aiBeat \in {w.aiBeat, at}

\* What a command and the tick pass on is none.
KeepsBeats(w, outcome) ==
  outcome.watcher.manualBeat = w.manualBeat /\ outcome.watcher.aiBeat = w.aiBeat

\* The beat of this time and the tick of this unit are all that was passed on.
Throttled ==
  /\ notified \in [Modes -> Nat]
  /\ notified["manual"] <= (IF watcher.manualBeat < now THEN 0 ELSE 1) + (IF tickDue THEN 0 ELSE 1)
  /\ notified["ai"] <= (IF watcher.aiBeat < now THEN 0 ELSE 1) + (IF tickDue THEN 0 ELSE 1)

WatcherInv ==
  /\ now \in 1 .. MaxTime /\ tickDue \in BOOLEAN /\ sent \in Reports
  /\ assumed \in 0 .. now
  /\ Fit(watcher, now, assumed)
  /\ IdleDatesFromLastActivity
  /\ Throttled

-----------------------------------------------------------------------------
\* What the listener may be told of a change of mode.
LEMMA TellsMode ==
  ASSUME NEW w \in Watchers, NEW mode \in Modes \union {"idle"},
         NEW activity \in Modes \union {None}
  PROVE  /\ Told(w, mode, activity) \in Reports
         /\ Told(w, mode, activity).idleSince = 0
         /\ Told(w, mode, activity).activity = activity
<1>1. Silence \in Reports /\ Silence.idleSince = 0
  BY MaxTimeAssumption DEF Silence, Reports, Times
<1> HIDE DEF Silence
<1>2. (IF w.mode = mode THEN None ELSE mode) \in {None, "idle"} \union Modes
  OBVIOUS
<1> QED BY <1>1, <1>2 DEF Told, Reports

LEMMA SaysNothing ==
  ASSUME NEW w, NEW at, NEW a, NEW v, Fit(v, at, a)
  PROVE  GoodOutcome(w, Outcome(v, Silence), at, a)
<1>1. /\ Silence \in Reports /\ Silence.idleSince = 0
      /\ Silence.activity = None
  BY WatcherAssumption DEF Silence, Reports, Modes, None, Times
<1> QED BY <1>1 DEF GoodOutcome, Outcome, None

\* A report without a date is good when the new record is fit.
LEMMA SaysMode ==
  ASSUME NEW w \in Watchers, NEW at, NEW a, NEW v, Fit(v, at, a),
         NEW mode \in Modes \union {"idle"},
         NEW activity \in Modes \union {None}
  PROVE  GoodOutcome(w, Outcome(v, Told(w, mode, activity)), at, a)
BY TellsMode DEF GoodOutcome, Outcome

LEMMA ManualRecordedGood ==
  ASSUME NEW at \in 1 .. MaxTime, NEW w, NEW a, Fit(w, at, a)
  PROVE  GoodOutcome(w, ManualRecorded(w, at), at, a)
<1> DEFINE beats == Beats(w.manualFlush, w.manualBeat, at)
           heard == [w EXCEPT !.mode = "manual", !.lastManual = at, !.lastActivity = at,
                              !.manualFlush = FlushAfter(@, at),
                              !.manualBeat = IF beats THEN at ELSE @]
<1>1. CASE w.lock = "ai"
  <2>1. Fit([w EXCEPT !.lastActivity = at], at, a)
    BY <1>1, WatcherAssumption
       DEF Fit, Watchers, Dated, Debounced, Times, Modes, None
  <2> QED BY <1>1, <2>1, SaysNothing DEF ManualRecorded
<1>2. CASE w.lock # "ai"
  <2>0. /\ at \in Times /\ at + 1 \in 0 .. MaxTime + 1
        /\ w \in Watchers /\ "ai" \in Modes /\ "manual" \in Modes
    BY MaxTimeAssumption DEF Fit, Times, Modes
  <2>1. heard \in Watchers
    BY <2>0 DEF Watchers, FlushAfter
  <2>2. Dated(heard, a)
    BY <1>2, WatcherAssumption DEF Fit, Watchers, Dated, None
  <2>3. Debounced(heard, at)
    BY WatcherAssumption
       DEF Fit, Watchers, Times, Debounced, FlushAfter, Beats
  <2>4. GoodOutcome(w, Outcome(heard, Told(w, "manual", IF beats THEN "manual" ELSE None)), at, a)
    <3> HIDE DEF heard, beats
    <3>1. (IF beats THEN "manual" ELSE None) \in Modes \union {None}
      BY DEF Modes
    <3>2. Fit(heard, at, a) /\ w \in Watchers
      BY <2>0, <2>1, <2>2, <2>3 DEF Fit
    <3> QED BY <3>1, <3>2, SaysMode DEF Modes
  <2> QED BY <1>2, <2>4 DEF ManualRecorded
<1> QED BY <1>1, <1>2

LEMMA SignalRecordedGood ==
  ASSUME NEW at \in 1 .. MaxTime, NEW w, NEW a, Fit(w, at, a)
  PROVE  GoodOutcome(w, SignalRecorded(w, at), at, a)
<1> DEFINE beats == Beats(w.aiFlush, w.aiBeat, at)
           heard == [w EXCEPT !.mode = "ai", !.lastAi = at, !.lastActivity = at,
                              !.aiFlush = FlushAfter(@, at),
                              !.aiBeat = IF beats THEN at ELSE @]
<1>1. CASE ~AiDetection \/ w.lock = "manual"
  BY <1>1, SaysNothing DEF SignalRecorded
<1>2. CASE ~(~AiDetection \/ w.lock = "manual")
  <2>0. /\ at \in Times /\ at + 1 \in 0 .. MaxTime + 1
        /\ w \in Watchers /\ "ai" \in Modes /\ "manual" \in Modes
    BY MaxTimeAssumption DEF Fit, Times, Modes
  <2>1. heard \in Watchers
    BY <2>0 DEF Watchers, FlushAfter
  <2>2. Dated(heard, a)
    BY <1>2, WatcherAssumption DEF Fit, Watchers, Dated, Modes, None
  <2>4. Debounced(heard, at)
    BY WatcherAssumption
       DEF Fit, Watchers, Times, Debounced, FlushAfter, Beats
  <2>3. GoodOutcome(w, Outcome(heard, Told(w, "ai", IF beats THEN "ai" ELSE None)), at, a)
    <3> HIDE DEF heard, beats
    <3>1. (IF beats THEN "ai" ELSE None) \in Modes \union {None}
      BY DEF Modes
    <3>2. Fit(heard, at, a) /\ w \in Watchers
      BY <2>0, <2>1, <2>2, <2>4 DEF Fit
    <3> QED BY <3>1, <3>2, SaysMode DEF Modes
  <2> QED BY <1>2, <2>3 DEF SignalRecorded
<1> QED BY <1>1, <1>2

LEMMA PassiveRecordedGood ==
  ASSUME NEW at \in 1 .. MaxTime, NEW w, NEW a, Fit(w, at, a)
  PROVE  GoodOutcome(w, PassiveRecorded(w, at), at, a)
<1>1. CASE (w.mode = "ai" /\ at - w.lastAi < Cooldown) \/ w.lock = "ai"
  <2>1. Fit([w EXCEPT !.lastActivity = at], at, a)
    BY <1>1, WatcherAssumption
       DEF Fit, Watchers, Dated, Debounced, Times, Modes, None
  <2> QED BY <1>1, <2>1, SaysNothing DEF PassiveRecorded
<1>2. CASE ~((w.mode = "ai" /\ at - w.lastAi < Cooldown) \/ w.lock = "ai")
  BY <1>2, ManualRecordedGood DEF PassiveRecorded
<1> QED BY <1>1, <1>2

LEMMA AiTriggeredGood ==
  ASSUME NEW at \in 1 .. MaxTime, NEW w, NEW a, Fit(w, at, a)
  PROVE  GoodOutcome(w, AiTriggered(w, at), at, a)
<1>1. CASE ~AiDetection \/ w.lock = "manual"
  BY <1>1, SaysNothing DEF AiTriggered
<1>2. CASE ~(~AiDetection \/ w.lock = "manual")
  <2>0. w \in Watchers /\ at \in Times /\ "ai" \in Modes
    BY MaxTimeAssumption DEF Fit, Times, Modes
  <2>1. /\ Fit([w EXCEPT !.mode = "ai", !.lastAi = at, !.lastActivity = at], at, a)
        /\ w \in Watchers
    <3> DEFINE v == [w EXCEPT !.mode = "ai", !.lastAi = at, !.lastActivity = at]
    <3>1. v \in Watchers
      BY <2>0 DEF Watchers
    <3>2. Dated(v, a) /\ Debounced(v, at)
      BY <1>2, <2>0, WatcherAssumption DEF Watchers, Fit, Dated, Debounced, Modes, None
    <3> QED BY <2>0, <3>1, <3>2 DEF Fit
  <2> QED BY <1>2, <2>1, SaysMode DEF AiTriggered, Modes
<1> QED BY <1>1, <1>2

LEMMA LockedGood ==
  ASSUME NEW at \in 1 .. MaxTime, NEW w, NEW a, Fit(w, at, a), NEW mode \in LockModes
  PROVE  GoodOutcome(w, Locked(w, mode, at), at, a)
<1> DEFINE v == [w EXCEPT !.lock = mode, !.mode = mode, !.lastActivity = at,
                          !.lastManual = IF mode = "manual" THEN at ELSE @,
                          !.lastAi = IF mode = "ai" THEN at ELSE @]
<1>0. w \in Watchers /\ at \in Times /\ mode \in Modes
  BY MaxTimeAssumption, WatcherAssumption DEF Fit, Times, Modes
<1>1. Fit(v, at, a)
  <2>1. v \in Watchers
    BY <1>0 DEF Watchers
  <2>2. Dated(v, a) /\ Debounced(v, at)
    BY <1>0 DEF Watchers, Fit, Dated, Debounced
  <2> QED BY <2>1, <2>2 DEF Fit
<1>2. Locked(w, mode, at) = Outcome(v, Told(w, mode, mode))
  BY DEF Locked
<1> HIDE DEF v
<1> QED BY <1>0, <1>1, <1>2, SaysMode

LEMMA UnlockedGood ==
  ASSUME NEW at \in 1 .. MaxTime, NEW w, NEW a, Fit(w, at, a)
  PROVE  GoodOutcome(w, Unlocked(w), at, a)
<1>1. Fit([w EXCEPT !.lock = None], at, a)
  BY DEF Fit, Watchers, Dated, Debounced, None
<1> QED BY <1>1, SaysNothing DEF Unlocked

LEMMA ManualFlushedGood ==
  ASSUME NEW at \in 1 .. MaxTime, NEW w, NEW a, Fit(w, at, a)
  PROVE  GoodOutcome(w, ManualFlushed(w, at), at, a)
<1>0. w \in Watchers /\ at \in Times /\ 0 \in 0 .. MaxTime + 1
  BY MaxTimeAssumption DEF Fit, Times
<1>1. Fit([w EXCEPT !.manualFlush = 0, !.manualBeat = at], at, a) /\ w \in Watchers
  <2> DEFINE v == [w EXCEPT !.manualFlush = 0, !.manualBeat = at]
  <2>1. v \in Watchers
    BY <1>0 DEF Watchers
  <2>2. v.manualFlush = 0 /\ v.manualBeat = at /\ Dated(v, a)
    BY <1>0 DEF Watchers, Fit, Dated
  <2>4. v.aiFlush = w.aiFlush /\ v.aiBeat = w.aiBeat
    BY <1>0 DEF Watchers
  <2>3. Debounced(v, at)
    <3> HIDE DEF v
    <3> QED BY <1>0, <2>2, <2>4 DEF Debounced, Fit, Times
  <2> QED BY <1>0, <2>1, <2>2, <2>3 DEF Fit
<1>2. w.mode \in Modes \union {"idle"}
  BY DEF Fit, Watchers
<1> QED BY <1>1, <1>2, SaysMode DEF ManualFlushed, Modes

LEMMA AiFlushedGood ==
  ASSUME NEW at \in 1 .. MaxTime, NEW w, NEW a, Fit(w, at, a)
  PROVE  GoodOutcome(w, AiFlushed(w, at), at, a)
<1>0. w \in Watchers /\ at \in Times /\ 0 \in 0 .. MaxTime + 1
  BY MaxTimeAssumption DEF Fit, Times
<1>1. Fit([w EXCEPT !.aiFlush = 0, !.aiBeat = at], at, a) /\ w \in Watchers
  <2> DEFINE v == [w EXCEPT !.aiFlush = 0, !.aiBeat = at]
  <2>1. v \in Watchers
    BY <1>0 DEF Watchers
  <2>2. v.aiFlush = 0 /\ v.aiBeat = at /\ Dated(v, a)
    BY <1>0 DEF Watchers, Fit, Dated
  <2>3. v.manualFlush = w.manualFlush /\ v.manualBeat = w.manualBeat
    BY <1>0 DEF Watchers
  <2>4. Debounced(v, at)
    <3> HIDE DEF v
    <3> QED BY <1>0, <2>2, <2>3 DEF Debounced, Fit, Times
  <2> QED BY <1>0, <2>1, <2>2, <2>4 DEF Fit
<1>2. w.mode \in Modes \union {"idle"}
  BY DEF Fit, Watchers
<1> QED BY <1>1, <1>2, SaysMode DEF AiFlushed, Modes

\* Falling idle reports a date: the last activity, or that of the user if the last
\* activity was assumed.
LEMMA FellIdleGood ==
  ASSUME NEW at \in 1 .. MaxTime, NEW w, NEW a, Fit(w, at, a), w.lock = None, NEW since,
         \/ since = w.lastActivity
         \/ w.lastActivity = a /\ since = w.lastManual
  PROVE  GoodOutcome(w, FellIdle(w, since), at, a)
<1> DEFINE v == [w EXCEPT !.mode = "idle"]
           report == [Told(w, "idle", None) EXCEPT !.idleSince = since]
<1>1. /\ Fit(v, at, a) /\ w \in Watchers
      /\ v.lastActivity = w.lastActivity /\ v.lastManual = w.lastManual
  BY DEF Fit, Watchers, Dated, Debounced, None
<1>2. since \in Times
  BY DEF Fit, Watchers
<1>3. /\ Told(w, "idle", None) \in Reports /\ Told(w, "idle", None).activity = None
  BY <1>1, TellsMode
<1>4. report \in Reports /\ report.activity = None /\ report.idleSince = since
  BY <1>2, <1>3 DEF Reports
<1>5. FellIdle(w, since) = Outcome(v, report)
  BY DEF FellIdle
<1> HIDE DEF v, report
<1> QED BY <1>1, <1>4, <1>5 DEF GoodOutcome, Outcome, None

\* The tick under a lock on manual is what assumes an activity.
AssumedAfter(w, at, a) == IF w.lock = "manual" THEN at ELSE a

LEMMA TickedGood ==
  ASSUME NEW at \in 1 .. MaxTime, NEW w, NEW a, Fit(w, at, a)
  PROVE  GoodOutcome(w, Ticked(w, at), at, AssumedAfter(w, at, a)) /\ KeepsBeats(w, Ticked(w, at))
<1> DEFINE v == [w EXCEPT !.lastActivity = at]
<1>0. /\ w \in Watchers /\ at \in Times /\ v \in Watchers
      /\ v.manualBeat = w.manualBeat /\ v.aiBeat = w.aiBeat
      /\ Debounced(v, at)
      /\ v.lock = w.lock /\ v.mode = w.mode /\ v.lastActivity = at /\ v.lastManual = w.lastManual
  BY MaxTimeAssumption DEF Fit, Watchers, Times, Debounced
<1>1. CASE w.lock # None
  <2>1. w.lock = w.mode /\ w.mode \in Modes
    BY <1>0, <1>1, WatcherAssumption DEF Fit, Dated, Watchers, Modes
  <2>2. Fit(v, at, AssumedAfter(w, at, a))
    BY <1>0, <2>1 DEF Fit, Dated, AssumedAfter
  <2>3. Ticked(w, at) = Outcome(v, Told(w, w.mode, w.lock))
    BY <1>1 DEF Ticked
  <2> HIDE DEF v
  <2>4. KeepsBeats(w, Ticked(w, at))
    BY <1>0, <2>3 DEF KeepsBeats, Outcome
  <2>5. GoodOutcome(w, Outcome(v, Told(w, w.mode, w.lock)), at, AssumedAfter(w, at, a))
    BY <1>0, <2>1, <2>2, SaysMode
  <2> QED BY <2>3, <2>4, <2>5
<1>2. CASE w.lock = None /\ w.mode = "manual" /\ ManualSilent(w, at)
  <2>1. Ticked(w, at) = FellIdle(w, w.lastManual) /\ AssumedAfter(w, at, a) = a
    BY <1>2 DEF Ticked, AssumedAfter, None
  <2>2. GoodOutcome(w, FellIdle(w, w.lastManual), at, a)
    BY <1>2, FellIdleGood DEF Fit, Dated
  <2> QED BY <1>0, <2>1, <2>2 DEF KeepsBeats, FellIdle, Outcome, Watchers
<1>3. CASE w.lock = None /\ w.mode = "ai" /\ at - w.lastAi < Cooldown
  <2>1. Fit(v, at, a) /\ AssumedAfter(w, at, a) = a
    BY <1>0, <1>3 DEF Fit, Dated, AssumedAfter, None
  <2>2. Ticked(w, at) = Outcome(v, Told(w, w.mode, "ai"))
    <3>1. w.mode # "manual" /\ ~(at - w.lastAi >= Cooldown)
      BY <1>3, WatcherAssumption DEF Fit, Watchers, Times
    <3> QED BY <1>3, <3>1 DEF Ticked
  <2> HIDE DEF v
  <2>3. KeepsBeats(w, Ticked(w, at))
    BY <1>0, <2>2 DEF KeepsBeats, Outcome
  <2>4. GoodOutcome(w, Outcome(v, Told(w, w.mode, "ai")), at, a)
    BY <1>0, <1>3, <2>1, SaysMode DEF Modes
  <2> QED BY <2>1, <2>2, <2>3, <2>4
<1>4. CASE w.lock = None /\ w.mode = "ai" /\ ~(at - w.lastAi < Cooldown)
  <2>1. at - w.lastAi >= Cooldown
    BY <1>4, WatcherAssumption DEF Fit, Watchers, Times
  <2>2. Ticked(w, at) = FellIdle(w, w.lastActivity) /\ AssumedAfter(w, at, a) = a
    BY <1>4, <2>1 DEF Ticked, AssumedAfter, None
  <2>3. GoodOutcome(w, FellIdle(w, w.lastActivity), at, a)
    BY <1>4, FellIdleGood
  <2> QED BY <1>0, <2>2, <2>3 DEF KeepsBeats, FellIdle, Outcome, Watchers
<1>5. CASE w.lock = None /\ w.mode # "ai"
           /\ ~(w.mode = "manual" /\ ManualSilent(w, at))
  <2>1. Ticked(w, at) = Outcome(w, Silence) /\ AssumedAfter(w, at, a) = a
    BY <1>5 DEF Ticked, AssumedAfter, None
  <2> QED BY <2>1, SaysNothing DEF KeepsBeats, Outcome
<1> QED BY <1>1, <1>2, <1>3, <1>4, <1>5

-----------------------------------------------------------------------------
\* A debounce window passes its first event on, and its timer.
LEMMA WindowThrottles ==
  ASSUME NEW beat \in Nat, NEW flush, NEW at \in Nat, Beats(flush, beat, at)
  PROVE  beat < at
BY DEF Beats

LEMMA ManualThrottles ==
  ASSUME NEW at \in 1 .. MaxTime, NEW w, NEW a, Fit(w, at, a)
  PROVE  Throttles(w, ManualRecorded(w, at), at)
<1> DEFINE beats == Beats(w.manualFlush, w.manualBeat, at)
           heard == [w EXCEPT !.mode = "manual", !.lastManual = at, !.lastActivity = at,
                              !.manualFlush = FlushAfter(@, at),
                              !.manualBeat = IF beats THEN at ELSE @]
<1>0. w \in Watchers
  BY DEF Fit
<1>1. CASE w.lock = "ai"
  BY <1>0, <1>1 DEF ManualRecorded, Throttles, Outcome, Silence, Watchers, None
<1>2. CASE w.lock # "ai"
  <2>1. beats => w.manualBeat < at
    BY <1>0, WindowThrottles DEF Watchers, Times
  <2>2. /\ heard.manualBeat = (IF beats THEN at ELSE w.manualBeat)
        /\ heard.aiBeat = w.aiBeat
    BY <1>0 DEF Watchers
  <2>3. ManualRecorded(w, at) = Outcome(heard, Told(w, "manual", IF beats THEN "manual" ELSE None))
    BY <1>2 DEF ManualRecorded
  <2> HIDE DEF heard, beats
  <2>4. Told(w, "manual", IF beats THEN "manual" ELSE None).activity
          = IF beats THEN "manual" ELSE None
    BY DEF Told, Silence
  <2> QED BY <2>1, <2>2, <2>3, <2>4 DEF Throttles, Outcome, None
<1> QED BY <1>1, <1>2

LEMMA SignalThrottles ==
  ASSUME NEW at \in 1 .. MaxTime, NEW w, NEW a, Fit(w, at, a)
  PROVE  Throttles(w, SignalRecorded(w, at), at)
<1> DEFINE beats == Beats(w.aiFlush, w.aiBeat, at)
           heard == [w EXCEPT !.mode = "ai", !.lastAi = at, !.lastActivity = at,
                              !.aiFlush = FlushAfter(@, at),
                              !.aiBeat = IF beats THEN at ELSE @]
<1>0. w \in Watchers
  BY DEF Fit
<1>1. CASE ~AiDetection \/ w.lock = "manual"
  BY <1>1 DEF SignalRecorded, Throttles, Outcome, Silence, None
<1>2. CASE ~(~AiDetection \/ w.lock = "manual")
  <2>1. beats => w.aiBeat < at
    BY <1>0, WindowThrottles DEF Watchers, Times
  <2>2. /\ heard.aiBeat = (IF beats THEN at ELSE w.aiBeat)
        /\ heard.manualBeat = w.manualBeat
    BY <1>0 DEF Watchers
  <2>3. SignalRecorded(w, at) = Outcome(heard, Told(w, "ai", IF beats THEN "ai" ELSE None))
    BY <1>2 DEF SignalRecorded
  <2> HIDE DEF heard, beats
  <2>4. Told(w, "ai", IF beats THEN "ai" ELSE None).activity = IF beats THEN "ai" ELSE None
    BY DEF Told, Silence
  <2> QED BY <2>1, <2>2, <2>3, <2>4 DEF Throttles, Outcome, None
<1> QED BY <1>1, <1>2

LEMMA PassiveThrottles ==
  ASSUME NEW at \in 1 .. MaxTime, NEW w, NEW a, Fit(w, at, a)
  PROVE  Throttles(w, PassiveRecorded(w, at), at)
<1>1. CASE (w.mode = "ai" /\ at - w.lastAi < Cooldown) \/ w.lock = "ai"
  BY <1>1 DEF PassiveRecorded, Throttles, Outcome, Silence, Fit, Watchers, None
<1>2. CASE ~((w.mode = "ai" /\ at - w.lastAi < Cooldown) \/ w.lock = "ai")
  BY <1>2, ManualThrottles DEF PassiveRecorded
<1> QED BY <1>1, <1>2

LEMMA FlushesThrottle ==
  ASSUME NEW at \in 1 .. MaxTime, NEW w, NEW a, Fit(w, at, a)
  PROVE  /\ w.manualFlush # 0 /\ w.manualFlush <= at => Throttles(w, ManualFlushed(w, at), at)
         /\ w.aiFlush # 0 /\ w.aiFlush <= at => Throttles(w, AiFlushed(w, at), at)
<1>0. w \in Watchers
  BY DEF Fit
<1>1. /\ w.manualFlush # 0 /\ w.manualFlush <= at => w.manualBeat < at
      /\ w.aiFlush # 0 /\ w.aiFlush <= at => w.aiBeat < at
  BY DEF Fit, Debounced, Watchers, Times
<1>2. /\ Told(w, w.mode, "manual").activity = "manual" /\ Told(w, w.mode, "ai").activity = "ai"
  BY DEF Told, Silence
<1>3. /\ ManualFlushed(w, at).sent = Told(w, w.mode, "manual")
      /\ ManualFlushed(w, at).watcher.manualBeat = at
      /\ ManualFlushed(w, at).watcher.aiBeat = w.aiBeat
  BY <1>0 DEF ManualFlushed, Outcome, Watchers
<1>4. /\ AiFlushed(w, at).sent = Told(w, w.mode, "ai")
      /\ AiFlushed(w, at).watcher.aiBeat = at
      /\ AiFlushed(w, at).watcher.manualBeat = w.manualBeat
  BY <1>0 DEF AiFlushed, Outcome, Watchers
<1> QED BY <1>1, <1>2, <1>3, <1>4 DEF Throttles

LEMMA CommandsKeepBeats ==
  ASSUME NEW at, NEW w \in Watchers
  PROVE  /\ KeepsBeats(w, AiTriggered(w, at)) /\ KeepsBeats(w, Unlocked(w))
         /\ \A mode \in LockModes : KeepsBeats(w, Locked(w, mode, at))
<1>1. KeepsBeats(w, AiTriggered(w, at))
  BY DEF KeepsBeats, AiTriggered, Outcome, Watchers
<1>2. KeepsBeats(w, Unlocked(w))
  BY DEF KeepsBeats, Unlocked, Outcome, Watchers
<1>3. ASSUME NEW mode \in LockModes PROVE KeepsBeats(w, Locked(w, mode, at))
  <2> DEFINE v == [w EXCEPT !.lock = mode, !.mode = mode, !.lastActivity = at,
                            !.lastManual = IF mode = "manual" THEN at ELSE @,
                            !.lastAi = IF mode = "ai" THEN at ELSE @]
  <2>1. v.manualBeat = w.manualBeat /\ v.aiBeat = w.aiBeat
    BY DEF Watchers
  <2>2. Locked(w, mode, at) = Outcome(v, Told(w, mode, mode))
    BY DEF Locked
  <2> HIDE DEF v
  <2> QED BY <2>1, <2>2 DEF KeepsBeats, Outcome
<1> QED BY <1>1, <1>2, <1>3

-----------------------------------------------------------------------------
\* The lemmas above speak of any record and time; here they meet the variables.
Good(outcome) == GoodOutcome(watcher, outcome, now, assumed)

LEMMA WatcherMethods ==
  ASSUME WatcherInv
  PROVE  /\ Good(ManualRecorded(watcher, now)) /\ Good(SignalRecorded(watcher, now))
         /\ Good(PassiveRecorded(watcher, now)) /\ Good(AiTriggered(watcher, now))
         /\ \A mode \in LockModes : Good(Locked(watcher, mode, now))
         /\ Good(Unlocked(watcher))
         /\ Good(ManualFlushed(watcher, now)) /\ Good(AiFlushed(watcher, now))
<1>1. now \in 1 .. MaxTime /\ Fit(watcher, now, assumed)
  BY DEF WatcherInv
<1> QED BY <1>1, ManualRecordedGood, SignalRecordedGood, PassiveRecordedGood, AiTriggeredGood,
           LockedGood, UnlockedGood, ManualFlushedGood, AiFlushedGood
        DEF Good

LEMMA WatcherThrottles ==
  ASSUME WatcherInv
  PROVE  /\ Throttles(watcher, ManualRecorded(watcher, now), now)
         /\ Throttles(watcher, SignalRecorded(watcher, now), now)
         /\ Throttles(watcher, PassiveRecorded(watcher, now), now)
         /\ FlushDue(watcher.manualFlush) => Throttles(watcher, ManualFlushed(watcher, now), now)
         /\ FlushDue(watcher.aiFlush) => Throttles(watcher, AiFlushed(watcher, now), now)
<1>1. now \in 1 .. MaxTime /\ Fit(watcher, now, assumed)
  BY DEF WatcherInv
<1> QED BY <1>1, ManualThrottles, SignalThrottles, PassiveThrottles, FlushesThrottle DEF FlushDue

LEMMA WatcherStarts == WatcherInit => WatcherInv
<1> SUFFICES ASSUME WatcherInit PROVE WatcherInv
  OBVIOUS
<1>1. watcher \in Watchers
  BY WatcherAssumption
     DEF WatcherInit, NewWatcher, Watchers, Times, Modes
<1>2. Dated(watcher, assumed) /\ Debounced(watcher, now)
  BY DEF WatcherInit, NewWatcher, Dated, Debounced, None
<1>3. sent \in Reports /\ sent.idleSince = 0
  BY WatcherAssumption
     DEF WatcherInit, Silence, Reports, Modes, None, Times
<1>4. now \in 1 .. MaxTime /\ assumed \in 0 .. now
  BY MaxTimeAssumption DEF WatcherInit
<1>5. tickDue \in BOOLEAN
  BY DEF WatcherInit
<1>6. Throttled
  BY DEF WatcherInit, NewWatcher, Throttled, Modes
<1> QED BY <1>1, <1>2, <1>3, <1>4, <1>5, <1>6 DEF WatcherInv, Fit, IdleDatesFromLastActivity

\* An event or a debounce timer.
LEMMA WatcherHears ==
  ASSUME WatcherInv, NEW STATE outcome, Good(outcome), Throttles(watcher, outcome, now),
         Heard(outcome)
  PROVE  WatcherInv'
<1>1. /\ now' = now /\ tickDue' = tickDue /\ assumed' = assumed
      /\ watcher' = outcome.watcher /\ sent' = outcome.sent
      /\ notified' = [m \in Modes |-> notified[m] + IF outcome.sent.activity = m THEN 1 ELSE 0]
  BY DEF Heard, Handle
<1>2. Throttled'
  <2>1. /\ notified["manual"] \in Nat /\ notified["ai"] \in Nat
        /\ notified' \in [Modes -> Nat]
        /\ notified'["manual"] = notified["manual"] + IF sent'.activity = "manual" THEN 1 ELSE 0
        /\ notified'["ai"] = notified["ai"] + IF sent'.activity = "ai" THEN 1 ELSE 0
    BY <1>1 DEF WatcherInv, Throttled, Modes
  <2>2. /\ watcher.manualBeat \in Nat /\ watcher.aiBeat \in Nat /\ now \in Nat
        /\ watcher.manualBeat <= now /\ watcher.aiBeat <= now
    BY DEF WatcherInv, Fit, Debounced, Watchers, Times
  <2>3. /\ IF sent'.activity = "manual" THEN watcher.manualBeat < now /\ watcher'.manualBeat = now
           ELSE watcher'.manualBeat \in {watcher.manualBeat, now}
        /\ IF sent'.activity = "ai" THEN watcher.aiBeat < now /\ watcher'.aiBeat = now
           ELSE watcher'.aiBeat \in {watcher.aiBeat, now}
    BY <1>1 DEF Throttles
  <2>4. notified'["manual"] <= (IF watcher'.manualBeat < now' THEN 0 ELSE 1) + (IF tickDue' THEN 0 ELSE 1)
    BY <1>1, <2>1, <2>2, <2>3 DEF WatcherInv, Throttled
  <2>5. notified'["ai"] <= (IF watcher'.aiBeat < now' THEN 0 ELSE 1) + (IF tickDue' THEN 0 ELSE 1)
    BY <1>1, <2>1, <2>2, <2>3 DEF WatcherInv, Throttled
  <2> QED BY <2>1, <2>4, <2>5 DEF Throttled
<1> QED BY <1>1, <1>2 DEF WatcherInv, Good, GoodOutcome, IdleDatesFromLastActivity

LEMMA WatcherObeys ==
  ASSUME WatcherInv, NEW STATE outcome, Good(outcome), KeepsBeats(watcher, outcome),
         Commanded(outcome)
  PROVE  WatcherInv'
<1>1. /\ now' = now /\ tickDue' = tickDue /\ assumed' = assumed /\ notified' = notified
      /\ watcher' = outcome.watcher /\ sent' = outcome.sent
  BY DEF Commanded, Handle, watcherHistory
<1>2. Throttled'
  BY <1>1 DEF KeepsBeats, WatcherInv, Throttled
<1> QED BY <1>1, <1>2 DEF WatcherInv, Good, GoodOutcome, IdleDatesFromLastActivity

LEMMA WatcherTicks ==
  ASSUME WatcherInv, Tick
  PROVE  WatcherInv'
<1>1. /\ now' = now /\ tickDue /\ tickDue' = FALSE
      /\ assumed' = AssumedAfter(watcher, now, assumed)
      /\ watcher' = Ticked(watcher, now).watcher /\ sent' = Ticked(watcher, now).sent
      /\ notified' = [m \in Modes |-> notified[m] + IF sent'.activity = m THEN 1 ELSE 0]
  BY DEF Tick, Handle, AssumedAfter
<1>2. /\ GoodOutcome(watcher, Ticked(watcher, now), now, assumed')
      /\ KeepsBeats(watcher, Ticked(watcher, now))
  BY <1>1, TickedGood DEF WatcherInv
<1>3. Throttled'
  <2>1. /\ notified["manual"] \in Nat /\ notified["ai"] \in Nat
        /\ notified' \in [Modes -> Nat]
        /\ notified'["manual"] <= notified["manual"] + 1 /\ notified'["ai"] <= notified["ai"] + 1
    BY <1>1 DEF WatcherInv, Throttled, Modes
  <2>2. notified'["manual"] \in Nat /\ notified'["ai"] \in Nat
    BY <2>1 DEF Modes
  <2> QED BY <1>1, <1>2, <2>1, <2>2 DEF KeepsBeats, WatcherInv, Throttled
<1>4. assumed' \in 0 .. now'
  BY <1>1 DEF WatcherInv, AssumedAfter
<1> QED BY <1>1, <1>2, <1>3, <1>4 DEF WatcherInv, GoodOutcome, IdleDatesFromLastActivity

\* The clock moves on; nobody is told anything.
LEMMA WatcherClock ==
  ASSUME WatcherInv, ClockAdvances
  PROVE  WatcherInv'
<1>1. now' \in 1 .. MaxTime /\ now < now' /\ tickDue' = TRUE /\ assumed' \in 0 .. now'
  BY WatcherAssumption DEF WatcherInv, ClockAdvances
<1>2. sent' = Silence /\ sent' \in Reports /\ sent'.idleSince = 0
  BY WatcherAssumption
     DEF ClockAdvances, Silence, Reports, Modes, None, Times
<1>3. watcher' = watcher /\ assumed' = assumed /\ notified' = [m \in Modes |-> 0]
  BY DEF ClockAdvances
<1>4. watcher.manualBeat < now' /\ watcher.aiBeat < now'
  BY <1>1, WatcherAssumption DEF WatcherInv, Fit, Debounced, Watchers, Times
<1>5. Fit(watcher', now', assumed')
  <2>1. watcher.manualBeat <= now' /\ watcher.aiBeat <= now'
    BY <1>1, <1>4, WatcherAssumption DEF WatcherInv, Fit, Watchers, Times
  <2> QED BY <1>3, <2>1 DEF WatcherInv, Fit, Debounced
<1>6. Throttled'
  BY <1>1, <1>3, <1>4 DEF Throttled, Modes
<1> QED BY <1>1, <1>2, <1>5, <1>6 DEF WatcherInv, IdleDatesFromLastActivity

LEMMA WatcherStep == WatcherInv /\ [WatcherNext]_watcherVars => WatcherInv'
<1> SUFFICES ASSUME WatcherInv, [WatcherNext]_watcherVars PROVE WatcherInv'
  OBVIOUS
<1>0. watcher \in Watchers
  BY DEF WatcherInv, Fit
<1>1. CASE UNCHANGED watcherVars
  BY <1>1 DEF watcherVars, watcherHistory, WatcherInv, IdleDatesFromLastActivity, Throttled
<1>2. CASE ClockAdvances
  BY <1>2, WatcherClock
<1>3. CASE ManualActivity
  BY <1>3, WatcherMethods, WatcherThrottles, WatcherHears DEF ManualActivity
<1>4. CASE ExternalSignal
  BY <1>4, WatcherMethods, WatcherThrottles, WatcherHears DEF ExternalSignal
<1>5. CASE PassiveInteraction
  BY <1>5, WatcherMethods, WatcherThrottles, WatcherHears DEF PassiveInteraction
<1>6. CASE TriggerAiActivity
  BY <1>0, <1>6, WatcherMethods, CommandsKeepBeats, WatcherObeys DEF TriggerAiActivity
<1>7. CASE SetModeOverride
  <2>1. PICK mode \in LockModes : Commanded(Locked(watcher, mode, now))
    BY <1>7 DEF SetModeOverride
  <2> QED BY <1>0, <2>1, WatcherMethods, CommandsKeepBeats, WatcherObeys
<1>8. CASE ClearModeOverride
  BY <1>0, <1>8, WatcherMethods, CommandsKeepBeats, WatcherObeys DEF ClearModeOverride
<1>9. CASE FlushManual
  BY <1>9, WatcherMethods, WatcherThrottles, WatcherHears DEF FlushManual
<1>10. CASE FlushAi
  BY <1>10, WatcherMethods, WatcherThrottles, WatcherHears DEF FlushAi
<1>11. CASE Tick
  BY <1>11, WatcherTicks
<1> QED BY <1>1, <1>2, <1>3, <1>4, <1>5, <1>6, <1>7, <1>8, <1>9, <1>10, <1>11 DEF WatcherNext

-----------------------------------------------------------------------------
\* ActivityWatcher.ts: the three times and the mode agree, the timers are later
\* than the beats, and the beat and the tick of a unit are all that was passed on,
\* through every order of events, timers, ticks and locks on either mode.
THEOREM WatcherInvariance == WatcherSpec => []WatcherInv
<1>1. WatcherInit => WatcherInv
  BY WatcherStarts
<1>2. WatcherInv /\ [WatcherNext]_watcherVars => WatcherInv'
  BY WatcherStep
<1> QED BY <1>1, <1>2, PTL DEF WatcherSpec

\* The watcher's record and its reports keep their types.
THEOREM WatcherTyped == WatcherSpec => []WatcherTypeOK
<1>1. WatcherInv => WatcherTypeOK
  BY DEF WatcherInv, WatcherTypeOK, Fit, Reports, Throttled, Times
<1> QED BY <1>1, WatcherInvariance, PTL

\* tick: idleness never dates from before the last sign of activity, whatever the
\* limit, the cooldown, the locks and the delays of the timers, but for what the
\* ticks under a lock on manual took for activity.
THEOREM DatedFromActivity == WatcherSpec => []IdleDatesFromLastActivity
<1>1. WatcherInv => IdleDatesFromLastActivity
  BY DEF WatcherInv
<1> QED BY <1>1, WatcherInvariance, PTL

\* recordManualActivity, handleExternalSignal and their timers: each mode is passed
\* on once per unit, and a second time only by the tick.
THEOREM Throttling == WatcherSpec => []BeatsAreThrottled
<1>1. WatcherInv => BeatsAreThrottled
  <2> SUFFICES ASSUME WatcherInv, NEW m \in Modes
               PROVE  notified[m] <= IF tickDue THEN 1 ELSE 2
    BY DEF BeatsAreThrottled
  <2>1. notified[m] \in Nat /\ m \in {"manual", "ai"}
    BY DEF WatcherInv, Throttled, Modes
  <2> QED BY <2>1 DEF WatcherInv, Throttled
<1> QED BY <1>1, WatcherInvariance, PTL
-----------------------------------------------------------------------------
(* The sum of the lengths of the sessions, which NothingCountedTwice compares *)
(* with the total, is a fold: a recursive function over the subsets.          *)

SumOf(S) == MapThenSumSet(LAMBDA s : s.end - s.start, S)

One(S) == CHOOSE x \in S : TRUE
Span(s) == s.end - s.start

\* f is the function that the fold over S is.
Fold(f, S) == f = [s \in SUBSET S |-> IF s = {} THEN 0 ELSE Span(One(s)) + f[s \ {One(s)}]]

LEMMA SumIsFold == ASSUME NEW S PROVE SumOf(S) = (CHOOSE f : Fold(f, S))[S]
  BY DEF SumOf, MapThenSumSet, MapThenFoldSet, Fold, Span, One

LEMMA OneIn == ASSUME NEW S, S # {} PROVE One(S) \in S
  BY DEF One

\* Every set of natural numbers has a least one: what induction rests on here.
LEMMA Least ==
  ASSUME NEW T, T \subseteq Nat, T # {}
  PROVE  \E m \in T : \A k \in T : m <= k
<1>1. PICK m \in T : \A k \in T : ~(<<k, m>> \in OpToRel(<, Nat))
  BY NatLessThanWellFounded, WFMin, Zenon
<1>2. \A k \in T : ~(k < m)
  BY <1>1, Zenon DEF OpToRel
<1> QED BY <1>2

\* Two folds agree where both are defined.
LEMMA FoldsAgree ==
  ASSUME NEW S, NEW R, NEW f, NEW g, Fold(f, S), Fold(g, R),
         NEW s, s \subseteq S, s \subseteq R, IsFiniteSet(s)
  PROVE  f[s] = g[s]
<1> DEFINE Differ == {r \in SUBSET s : f[r] # g[r]}
           Sizes == {Cardinality(r) : r \in Differ}
<1> SUFFICES ASSUME Differ # {} PROVE FALSE
  OBVIOUS
<1>1. \A r \in SUBSET s : IsFiniteSet(r) /\ Cardinality(r) \in Nat
  BY FS_Subset, FS_CardinalityType
<1>2. PICK n \in Sizes : \A k \in Sizes : n <= k
  <2>1. Sizes \subseteq Nat /\ Sizes # {}
    BY <1>1
  <2> HIDE DEF Sizes
  <2> QED BY <2>1, Least
<1>3. PICK r \in Differ : n = Cardinality(r)
  BY <1>2
<1>4. r \in SUBSET S /\ r \in SUBSET R /\ r \in SUBSET s
  OBVIOUS
<1>5. /\ f[r] = IF r = {} THEN 0 ELSE Span(One(r)) + f[r \ {One(r)}]
      /\ g[r] = IF r = {} THEN 0 ELSE Span(One(r)) + g[r \ {One(r)}]
  BY <1>4 DEF Fold
<1>6. CASE r = {}
  BY <1>5, <1>6
<1>7. CASE r # {}
  <2>1. One(r) \in r
    BY <1>7, OneIn
  <2>2. /\ IsFiniteSet(r) /\ Cardinality(r) \in Nat
        /\ Cardinality(r \ {One(r)}) = Cardinality(r) - 1
    BY <1>1, <1>4, <2>1, FS_RemoveElement
  <2>3. r \ {One(r)} \notin Differ
    <3> SUFFICES ASSUME r \ {One(r)} \in Differ PROVE FALSE
      OBVIOUS
    <3>1. Cardinality(r \ {One(r)}) \in Sizes
      OBVIOUS
    <3>2. n <= Cardinality(r) - 1
      BY <1>2, <2>2, <3>1
    <3> QED BY <1>3, <2>2, <3>2
  <2>4. f[r \ {One(r)}] = g[r \ {One(r)}]
    BY <1>4, <2>3
  <2> QED BY <1>5, <1>7, <2>4
<1> QED BY <1>6, <1>7

\* Every finite set has a fold: that of a set without one of its elements, and
\* of the subsets of the two.
LEMMA FoldExists == ASSUME NEW S, IsFiniteSet(S) PROVE \E f : Fold(f, S)
<1> DEFINE Small(n) == {s \in SUBSET S : Cardinality(s) <= n}
           Upto(n, f) == f = [s \in Small(n) |-> IF s = {} THEN 0 ELSE Span(One(s)) + f[s \ {One(s)}]]
           Without == {n \in Nat : ~\E f : Upto(n, f)}
<1>0. \A r \in SUBSET S : IsFiniteSet(r) /\ Cardinality(r) \in Nat
  BY FS_Subset, FS_CardinalityType
<1>1. Without = {}
  <2> SUFFICES ASSUME Without # {} PROVE FALSE
    OBVIOUS
  <2>1. PICK n \in Without : \A k \in Without : n <= k
    <3>1. Without \subseteq Nat
      OBVIOUS
    <3> HIDE DEF Without
    <3> QED BY <3>1, Least
  <2>2. CASE n = 0
    <3>1. \A s \in Small(0) : s = {}
      <4> TAKE s \in Small(0)
      <4>1. Cardinality(s) = 0 /\ IsFiniteSet(s)
        BY <1>0
      <4> QED BY <4>1, FS_EmptySet
    <3>2. Upto(0, [s \in Small(0) |-> 0])
      BY <3>1
    <3> QED BY <2>1, <2>2, <3>2
  <2>3. CASE n # 0
    <3>1. n - 1 \in Nat /\ n - 1 \notin Without
      <4>1. n \in Nat
        BY <2>1
      <4> HIDE DEF Without
      <4> QED BY <2>1, <2>3, <4>1
    <3>2. PICK f : Upto(n - 1, f)
      BY <3>1
    <3> DEFINE g == [s \in Small(n) |-> IF s = {} THEN 0 ELSE Span(One(s)) + f[s \ {One(s)}]]
    <3>3. \A s \in Small(n) : s # {} =>
            /\ s \ {One(s)} \in Small(n - 1) /\ s \ {One(s)} \in Small(n)
      <4> SUFFICES ASSUME NEW s \in Small(n), s # {}
                   PROVE  s \ {One(s)} \in Small(n - 1) /\ s \ {One(s)} \in Small(n)
        OBVIOUS
      <4>1. One(s) \in s
        BY OneIn
      <4>2. /\ IsFiniteSet(s) /\ Cardinality(s) \in Nat
            /\ Cardinality(s \ {One(s)}) = Cardinality(s) - 1
        BY <1>0, <4>1, FS_RemoveElement
      <4> QED BY <4>2
    <3>4. \A s \in Small(n - 1) : s \in Small(n) /\ g[s] = f[s]
      <4> SUFFICES ASSUME NEW s \in Small(n - 1) PROVE s \in Small(n) /\ g[s] = f[s]
        OBVIOUS
      <4>1. s \in Small(n)
        BY <1>0
      <4>2. f[s] = IF s = {} THEN 0 ELSE Span(One(s)) + f[s \ {One(s)}]
        BY <3>2
      <4>3. g[s] = IF s = {} THEN 0 ELSE Span(One(s)) + f[s \ {One(s)}]
        BY <4>1
      <4> QED BY <4>1, <4>2, <4>3
    <3>5. \A s \in Small(n) : s # {} => g[s \ {One(s)}] = f[s \ {One(s)}]
      BY <3>3, <3>4
    <3>6. Upto(n, g)
      BY <3>5
    <3> QED BY <2>1, <3>6
  <2> QED BY <2>2, <2>3
<1>2. PICK f : Upto(Cardinality(S), f)
  BY <1>0, <1>1
<1>3. Small(Cardinality(S)) = SUBSET S
  BY FS_Subset
<1> QED BY <1>2, <1>3 DEF Fold

LEMMA SumStep ==
  ASSUME NEW S, IsFiniteSet(S)
  PROVE  SumOf(S) = IF S = {} THEN 0 ELSE Span(One(S)) + SumOf(S \ {One(S)})
<1> DEFINE f == CHOOSE h : Fold(h, S)
<1>1. Fold(f, S)
  BY FoldExists
<1> HIDE DEF f
<1>2. f[S] = IF S = {} THEN 0 ELSE Span(One(S)) + f[S \ {One(S)}]
  BY <1>1 DEF Fold
<1>3. SumOf(S) = f[S]
  BY SumIsFold DEF f
<1>4. CASE S = {}
  BY <1>2, <1>3, <1>4
<1>5. CASE S # {}
  <2> DEFINE r == S \ {One(S)}
             g == CHOOSE h : Fold(h, r)
  <2>1. IsFiniteSet(r) /\ r \subseteq S
    BY FS_Subset
  <2>2. Fold(g, r)
    BY <2>1, FoldExists
  <2> HIDE DEF g, r
  <2>3. f[r] = g[r]
    BY <1>1, <2>1, <2>2, FoldsAgree
  <2>4. SumOf(r) = g[r]
    BY SumIsFold DEF g
  <2> QED BY <1>2, <1>3, <1>5, <2>3, <2>4 DEF r
<1> QED BY <1>4, <1>5

\* Whatever element is taken out of a set of intervals, its length is what the
\* sum loses.
LEMMA SumWithout ==
  ASSUME NEW S, IsFiniteSet(S), S \subseteq Intervals
  PROVE  SumOf(S) \in Int /\ \A x \in S : SumOf(S) = Span(x) + SumOf(S \ {x})
<1> DEFINE Right(s) == SumOf(s) \in Int /\ \A x \in s : SumOf(s) = Span(x) + SumOf(s \ {x})
           Wrong == {s \in SUBSET S : ~Right(s)}
           Sizes == {Cardinality(s) : s \in Wrong}
<1> SUFFICES ASSUME Wrong # {} PROVE FALSE
  OBVIOUS
<1>1. \A r \in SUBSET S : IsFiniteSet(r) /\ Cardinality(r) \in Nat
  BY FS_Subset, FS_CardinalityType
<1>2. PICK n \in Sizes : \A k \in Sizes : n <= k
  <2>1. Sizes \subseteq Nat /\ Sizes # {}
    BY <1>1
  <2> HIDE DEF Sizes
  <2> QED BY <2>1, Least
<1>3. PICK s \in Wrong : n = Cardinality(s)
  BY <1>2
<1>4. IsFiniteSet(s) /\ Cardinality(s) \in Nat /\ s \in SUBSET S
  BY <1>1
<1>5. \A r \in SUBSET s : Cardinality(r) < Cardinality(s) => Right(r)
  <2> SUFFICES ASSUME NEW r \in SUBSET s, Cardinality(r) < Cardinality(s), r \in Wrong PROVE FALSE
    BY <1>4
  <2>1. Cardinality(r) \in Sizes /\ Cardinality(r) \in Nat
    BY <1>1, <1>4
  <2> HIDE DEF Sizes, Wrong
  <2> QED BY <1>2, <1>3, <1>4, <2>1
<1>6. \A r \in SUBSET s : \A x \in r : Cardinality(r \ {x}) = Cardinality(r) - 1 /\ Span(x) \in Int
  <2> TAKE r \in SUBSET s
  <2> TAKE x \in r
  <2>1. IsFiniteSet(r) /\ x \in Intervals
    BY <1>1, <1>4
  <2>2. Cardinality(r \ {x}) = Cardinality(r) - 1
    BY <2>1, FS_RemoveElement
  <2>3. Span(x) \in Int
    BY <2>1 DEF Span, Intervals
  <2> QED BY <2>2, <2>3
<1>7. Right(s)
  <2>1. CASE s = {}
    <3>1. SumOf(s) = 0
      BY <1>4, <2>1, SumStep
    <3> QED BY <2>1, <3>1
  <2>2. CASE s # {}
    <3> DEFINE y == One(s)
    <3>1. y \in s /\ SumOf(s) = Span(y) + SumOf(s \ {y})
      BY <1>4, <2>2, SumStep, OneIn
    <3> HIDE DEF y
    <3>2. Right(s \ {y}) /\ Span(y) \in Int
      <4>1. s \ {y} \in SUBSET s /\ s \in SUBSET s
        OBVIOUS
      <4>2. Cardinality(s \ {y}) = Cardinality(s) - 1 /\ Span(y) \in Int
        BY <1>6, <3>1, <4>1
      <4>3. Cardinality(s \ {y}) < Cardinality(s)
        BY <1>4, <4>2
      <4> HIDE DEF Right
      <4> QED BY <1>5, <4>1, <4>2, <4>3
    <3>3. SumOf(s) \in Int
      BY <3>1, <3>2
    <3>4. ASSUME NEW x \in s PROVE SumOf(s) = Span(x) + SumOf(s \ {x})
      <4>1. CASE x = y
        BY <3>1, <4>1
      <4>2. CASE x # y
        <5>1. x \in s \ {y} /\ y \in s \ {x} /\ (s \ {y}) \ {x} = (s \ {x}) \ {y}
          BY <3>1, <4>2
        <5>2. SumOf(s \ {y}) = Span(x) + SumOf((s \ {y}) \ {x})
          BY <3>2, <5>1
        <5>3. Right(s \ {x}) /\ Span(x) \in Int
          <6>1. s \ {x} \in SUBSET s /\ s \in SUBSET s
            OBVIOUS
          <6>2. Cardinality(s \ {x}) = Cardinality(s) - 1 /\ Span(x) \in Int
            BY <1>6, <6>1
          <6>3. Cardinality(s \ {x}) < Cardinality(s)
            BY <1>4, <6>2
          <6> HIDE DEF Right
          <6> QED BY <1>5, <6>1, <6>2, <6>3
        <5>4. SumOf(s \ {x}) = Span(y) + SumOf((s \ {x}) \ {y})
          BY <5>1, <5>3
        <5>5. SumOf((s \ {x}) \ {y}) \in Int
          <6>1. Cardinality(s \ {x}) = Cardinality(s) - 1
            BY <1>6
          <6>2. Cardinality((s \ {x}) \ {y}) = Cardinality(s \ {x}) - 1
            BY <1>6, <5>1
          <6>3. (s \ {x}) \ {y} \in SUBSET s
            OBVIOUS
          <6>4. Cardinality((s \ {x}) \ {y}) < Cardinality(s)
            BY <1>4, <6>1, <6>2
          <6>5. Right((s \ {x}) \ {y})
            BY <1>5, <6>3, <6>4
          <6> QED BY <6>5
        <5> DEFINE a == SumOf((s \ {x}) \ {y})
        <5>6. SumOf(s) = Span(y) + (Span(x) + a) /\ SumOf(s \ {x}) = Span(y) + a
          BY <3>1, <5>1, <5>2, <5>4
        <5>7. a \in Int /\ Span(x) \in Int /\ Span(y) \in Int
          BY <3>2, <5>3, <5>5
        <5> HIDE DEF a
        <5> QED BY <5>6, <5>7
      <4> QED BY <4>1, <4>2
    <3> QED BY <3>3, <3>4
  <2> QED BY <2>1, <2>2
<1> QED BY <1>3, <1>7

\* A new session adds its length.
LEMMA SumWith ==
  ASSUME NEW S, IsFiniteSet(S), S \subseteq Intervals,
         NEW x \in Intervals, x \notin S
  PROVE  SumOf(S \union {x}) = SumOf(S) + Span(x) /\ IsFiniteSet(S \union {x})
<1>1. IsFiniteSet(S \union {x}) /\ S \union {x} \subseteq Intervals
  BY FS_AddElement
<1>2. (S \union {x}) \ {x} = S
  OBVIOUS
<1>3. SumOf(S \union {x}) = Span(x) + SumOf(S) /\ SumOf(S) \in Int /\ Span(x) \in Int
  BY <1>1, <1>2, SumWithout DEF Span, Intervals
<1> QED BY <1>1, <1>3

LEMMA SumOfNone == SumOf({}) = 0 /\ IsFiniteSet({})
  BY SumStep, FS_EmptySet

-----------------------------------------------------------------------------
(* The days.                                                               *)

LEMMA DayIs ==
  ASSUME NEW at \in Nat
  PROVE  /\ Day(at) \in {0} \union Midnights /\ Day(at) \in Nat /\ Day(at) <= at
         /\ \A m \in Midnights : m <= at => m <= Day(at)
<1> DEFINE Begun == {0} \union {m \in Midnights : m <= at}
           Ago == {at - m : m \in Begun}
<1>1. Begun \subseteq Nat /\ \A m \in Begun : m <= at
  <2>1. Midnights \subseteq Nat
    BY TrackingAssumption
  <2>2. \A m \in Begun : m \in Nat /\ m <= at
    <3> TAKE m \in Begun
    <3>1. CASE m = 0
      BY <3>1
    <3>2. CASE m \in Midnights /\ m <= at
      BY <2>1, <3>2
    <3> QED BY <3>1, <3>2
  <2> HIDE DEF Begun
  <2> QED BY <2>2
<1>2. PICK d \in Ago : \A k \in Ago : d <= k
  <2>1. Ago \subseteq Nat /\ Ago # {}
    BY <1>1
  <2> HIDE DEF Ago
  <2> QED BY <2>1, Least
<1>3. PICK x \in Begun : d = at - x
  BY <1>2
<1>4. \A y \in Begun : x >= y
  <2> TAKE y \in Begun
  <2>1. at - y \in Ago
    OBVIOUS
  <2>2. at - x <= at - y /\ x \in Nat /\ y \in Nat
    BY <1>1, <1>2, <1>3, <2>1
  <2> HIDE DEF Begun, Ago
  <2> QED BY <2>2
<1>5. Day(at) = Max(Begun)
  BY DEF Day
<1>6. Max(Begun) \in Begun /\ \A y \in Begun : Max(Begun) >= y
  <2> HIDE DEF Begun
  <2> QED BY <1>4 DEF Max
<1> QED BY <1>1, <1>5, <1>6

\* The day goes on until a midnight is past.
LEMMA DayGrows ==
  ASSUME NEW a \in Nat, NEW b \in Nat, a <= b
  PROVE  /\ Day(a) <= Day(b)
         /\ Day(b) # Day(a) => a < Day(b)
         /\ Day(Day(b)) = Day(b)
         /\ \A c \in a .. b : Day(a) = Day(b) => Day(c) = Day(b)
<1>1. \A x, y \in Nat : x <= y => Day(x) <= Day(y)
  <2> TAKE x, y \in Nat
  <2> HAVE x <= y
  <2>1. /\ Day(x) \in {0} \union Midnights /\ Day(x) <= x /\ Day(x) \in Nat /\ Day(y) \in Nat
        /\ \A m \in Midnights : m <= y => m <= Day(y)
    BY DayIs
  <2>2. Day(x) <= y
    BY <2>1
  <2> QED BY <2>1, <2>2
<1>2. /\ Day(b) \in {0} \union Midnights /\ Day(b) \in Nat /\ Day(b) <= b /\ Day(a) \in Nat
      /\ \A m \in Midnights : m <= a => m <= Day(a)
  BY DayIs
<1>3. Day(b) # Day(a) => a < Day(b)
  BY <1>1, <1>2
<1>4. Day(Day(b)) = Day(b)
  <2>1. /\ Day(Day(b)) <= Day(b) /\ Day(Day(b)) \in Nat
        /\ \A m \in Midnights : m <= Day(b) => m <= Day(Day(b))
    BY <1>2, DayIs
  <2> QED BY <1>2, <2>1
<1>5. ASSUME NEW c \in a .. b, Day(a) = Day(b) PROVE Day(c) = Day(b)
  <2>1. c \in Nat /\ Day(a) <= Day(c) /\ Day(c) <= Day(b)
    BY <1>1
  <2>2. Day(c) \in Nat
    BY <2>1, DayIs
  <2> QED BY <1>2, <1>5, <2>1, <2>2
<1> QED BY <1>1, <1>3, <1>4, <1>5

-----------------------------------------------------------------------------
(* What the watcher's methods answer, for any record and at any time at; last *)
(* is the time of the last heartbeat.                                         *)

\* Nothing happens between two heartbeats but at the present time.
SeenBy(x, at, last) == x \in TrackingStart .. last \/ x = at

\* The mode, the lock and the times agree, and no debounce timer is later than a
\* unit after the last activity; when the watcher is idle, those left are late.
Fresh(w, at, last) ==
  /\ w \in Watchers
  /\ w.lock # None => w.mode = w.lock
  /\ SeenBy(w.lastActivity, at, last) /\ SeenBy(w.lastManual, at, last) /\ w.lastAi <= at
  /\ \A flush \in {w.manualFlush, w.aiFlush} :
       /\ flush <= at + 1
       /\ w.mode = "manual" => flush <= w.lastManual + 1
       /\ w.mode = "ai" => flush <= w.lastAi + 1
       /\ w.mode = "idle" /\ IdleLimit # 1 => flush < at

\* An agent's silence that a late heartbeat finds began before the clock moved.
AgentSilent(w, at, last) ==
  w.mode = "ai" /\ w.lock = None /\ w.lastActivity = at /\ at > last + 1
    => at - w.lastAi < Cooldown

\* The watcher falls idle only after the idle limit or the cooldown.
FallsIdle(w, told, at, last) ==
  /\ told.activity = None /\ told.modeChange \notin Modes
  /\ \/ /\ w.mode = "manual" /\ IdleLimit > 0 /\ at - w.lastManual >= IdleLimit
        /\ told.idleSince = w.lastManual
     \/ /\ w.mode = "ai" /\ w.lock = None /\ at - w.lastAi >= Cooldown
        /\ told.idleSince = w.lastActivity

\* Whoever is in a mode has been there since, or is heard now.
HeardOf(w, v, at) ==
  /\ v.mode = "manual" => v.lastManual = at \/ (w.mode = "manual" /\ v.lastManual = w.lastManual)
  /\ v.mode = "ai" => v.lastAi = at \/ (w.mode = "ai" /\ v.lastAi = w.lastAi)

Answers(w, v, told, at, last) ==
  /\ Fresh(v, at, last)
  /\ told \in Reports
  /\ told.idleSince # 0 => v.mode = "idle" /\ FallsIdle(w, told, at, last)
  /\ v.mode = "idle" /\ w.mode # "idle" => told.idleSince # 0
  /\ HeardOf(w, v, at)
  /\ told.activity # None /\ v.mode = "idle" =>
       \E flush \in {"manualFlush", "aiFlush"} : w.mode = "idle" /\ w[flush] # 0 /\ v[flush] = 0

Answer(w, o, at, last) == Answers(w, o.watcher, o.sent, at, last)

\* What calls and timers do not change.
Steady(w, o, at, last) ==
  /\ Answer(w, o, at, last)
  /\ AgentSilent(w, at, last) => AgentSilent(o.watcher, at, last)

LEMMA SilenceIs ==
  /\ Silence \in Reports /\ Silence.idleSince = 0
  /\ Silence.activity = None /\ Silence.modeChange = None
  BY WatcherAssumption DEF Silence, Reports, Modes, None, Times

\* Nobody is told, and at most the last activity is now.
LEMMA QuietSteady ==
  ASSUME NEW at \in TrackingStart .. MaxTime, NEW last \in TrackingStart .. at,
         NEW w, Fresh(w, at, last)
  PROVE  /\ Steady(w, Outcome(w, Silence), at, last)
         /\ (w.mode = "ai" /\ w.lock = None => at - w.lastAi < Cooldown) =>
              Steady(w, Outcome([w EXCEPT !.lastActivity = at], Silence), at, last)
<1> DEFINE v == [w EXCEPT !.lastActivity = at]
           told == Silence
<1>1. w \in Watchers /\ at \in Times
  BY MaxTimeAssumption DEF Fresh, Times, TrackingStart
<1>2. /\ v \in Watchers /\ v.mode = w.mode /\ v.lock = w.lock /\ v.lastActivity = at
      /\ v.lastManual = w.lastManual /\ v.lastAi = w.lastAi
      /\ v.manualFlush = w.manualFlush /\ v.aiFlush = w.aiFlush
  BY <1>1 DEF Watchers
<1>3. told \in Reports /\ told.idleSince = 0 /\ told.activity = None
  BY SilenceIs
<1> HIDE DEF v, told
<1>4. Fresh(v, at, last)
  BY <1>2 DEF Fresh, SeenBy
<1>5. Answers(w, w, told, at, last) /\ Answers(w, v, told, at, last)
  BY <1>2, <1>3, <1>4 DEF Answers, HeardOf
<1>6. (w.mode = "ai" /\ w.lock = None => at - w.lastAi < Cooldown) => AgentSilent(v, at, last)
  BY <1>2 DEF AgentSilent
<1> QED BY <1>5, <1>6 DEF Steady, Answer, Outcome, v, told

\* A sign of activity: the mode that is reported, with its time, is now's.
Signs(w, v, mode, at) ==
  /\ v \in Watchers /\ mode \in Modes
  /\ v.mode = mode /\ v.lock \in {None, mode} /\ v.lastActivity = at
  /\ v.lastManual = (IF mode = "manual" THEN at ELSE w.lastManual)
  /\ v.lastAi = (IF mode = "ai" THEN at ELSE w.lastAi)
  /\ v.manualFlush \in {w.manualFlush, at + 1} /\ v.aiFlush \in {w.aiFlush, at + 1}

LEMMA SignSteady ==
  ASSUME NEW at \in TrackingStart .. MaxTime, NEW last \in TrackingStart .. at,
         NEW w, Fresh(w, at, last),
         NEW v, NEW mode, Signs(w, v, mode, at),
         NEW activity \in Modes \union {None}
  PROVE  Steady(w, Outcome(v, Told(w, mode, activity)), at, last)
<1> DEFINE told == Told(w, mode, activity)
<1>1. told \in Reports /\ told.idleSince = 0
  BY TellsMode DEF Fresh, Signs
<1> HIDE DEF told
<1>2. /\ at \in Nat /\ w.manualFlush \in Nat /\ w.aiFlush \in Nat /\ w.lastManual \in Nat
      /\ w.lastAi \in Nat /\ v.manualFlush \in Nat /\ v.aiFlush \in Nat
      /\ mode \in {"manual", "ai"} /\ Cooldown \in Nat \ {0}
  BY WatcherAssumption
     DEF Fresh, Signs, Watchers, Times, Modes, TrackingStart
<1>3. Fresh(v, at, last)
  BY <1>2 DEF Fresh, Signs, SeenBy
<1>4. HeardOf(w, v, at) /\ v.mode # "idle"
  BY <1>2 DEF HeardOf, Signs
<1>5. AgentSilent(v, at, last)
  BY <1>2 DEF AgentSilent, Signs
<1>6. Answers(w, v, told, at, last)
  BY <1>1, <1>3, <1>4 DEF Answers
<1> QED BY <1>5, <1>6 DEF Steady, Answer, Outcome, told

-----------------------------------------------------------------------------
LEMMA ManualSteady ==
  ASSUME NEW at \in TrackingStart .. MaxTime, NEW last \in TrackingStart .. at,
         NEW w, Fresh(w, at, last)
  PROVE  Steady(w, ManualRecorded(w, at), at, last)
<1> DEFINE beats == Beats(w.manualFlush, w.manualBeat, at)
           heard == [w EXCEPT !.mode = "manual", !.lastManual = at, !.lastActivity = at,
                              !.manualFlush = FlushAfter(@, at),
                              !.manualBeat = IF beats THEN at ELSE @]
<1>0. /\ at \in Times /\ at + 1 \in 0 .. MaxTime + 1
      /\ w \in Watchers /\ "manual" \in Modes
  BY MaxTimeAssumption DEF Fresh, Times, Modes, TrackingStart
<1>1. CASE w.lock = "ai"
  <2>1. ManualRecorded(w, at)
          = Outcome([w EXCEPT !.lastActivity = at], Silence)
    BY <1>1 DEF ManualRecorded
  <2>2. w.lock # None
    BY <1>1 DEF None
  <2> QED BY <2>1, <2>2, QuietSteady
<1>2. CASE w.lock # "ai"
  <2>1. /\ heard \in Watchers /\ heard.mode = "manual" /\ heard.lock = w.lock
        /\ heard.lastActivity = at /\ heard.lastManual = at /\ heard.lastAi = w.lastAi
        /\ heard.manualFlush \in {w.manualFlush, at + 1} /\ heard.aiFlush = w.aiFlush
    BY <1>0 DEF Watchers, FlushAfter
  <2>2. w.lock \in {None, "manual"}
    BY <1>0, <1>2, WatcherAssumption DEF Watchers
  <2> DEFINE activity == IF beats THEN "manual" ELSE None
  <2>3. activity \in Modes \union {None}
    BY <1>0
  <2>4. ManualRecorded(w, at) = Outcome(heard, Told(w, "manual", activity))
    BY <1>2 DEF ManualRecorded
  <2> HIDE DEF heard, beats, activity
  <2>5. Signs(w, heard, "manual", at)
    BY <1>0, <2>1, <2>2 DEF Signs
  <2> QED BY <2>3, <2>4, <2>5, SignSteady
<1> QED BY <1>1, <1>2

LEMMA SignalSteady ==
  ASSUME NEW at \in TrackingStart .. MaxTime, NEW last \in TrackingStart .. at,
         NEW w, Fresh(w, at, last)
  PROVE  Steady(w, SignalRecorded(w, at), at, last)
<1> DEFINE beats == Beats(w.aiFlush, w.aiBeat, at)
           heard == [w EXCEPT !.mode = "ai", !.lastAi = at, !.lastActivity = at,
                              !.aiFlush = FlushAfter(@, at),
                              !.aiBeat = IF beats THEN at ELSE @]
<1>0. /\ at \in Times /\ at + 1 \in 0 .. MaxTime + 1
      /\ w \in Watchers /\ "ai" \in Modes
  BY MaxTimeAssumption DEF Fresh, Times, Modes, TrackingStart
<1>1. CASE ~AiDetection \/ w.lock = "manual"
  <2>1. SignalRecorded(w, at) = Outcome(w, Silence)
    BY <1>1 DEF SignalRecorded
  <2> QED BY <2>1, QuietSteady
<1>2. CASE ~(~AiDetection \/ w.lock = "manual")
  <2>1. /\ heard \in Watchers /\ heard.mode = "ai" /\ heard.lock = w.lock
        /\ heard.lastActivity = at /\ heard.lastManual = w.lastManual /\ heard.lastAi = at
        /\ heard.manualFlush = w.manualFlush /\ heard.aiFlush \in {w.aiFlush, at + 1}
    BY <1>0 DEF Watchers, FlushAfter
  <2>2. w.lock \in {None, "ai"}
    BY <1>0, <1>2, WatcherAssumption DEF Watchers
  <2> DEFINE activity == IF beats THEN "ai" ELSE None
  <2>3. activity \in Modes \union {None}
    BY <1>0
  <2>4. SignalRecorded(w, at) = Outcome(heard, Told(w, "ai", activity))
    BY <1>2 DEF SignalRecorded
  <2> HIDE DEF heard, beats, activity
  <2>5. Signs(w, heard, "ai", at)
    BY <1>0, <2>1, <2>2 DEF Signs
  <2> QED BY <2>3, <2>4, <2>5, SignSteady
<1> QED BY <1>1, <1>2

LEMMA PassiveSteady ==
  ASSUME NEW at \in TrackingStart .. MaxTime, NEW last \in TrackingStart .. at,
         NEW w, Fresh(w, at, last)
  PROVE  Steady(w, PassiveRecorded(w, at), at, last)
<1>1. CASE (w.mode = "ai" /\ at - w.lastAi < Cooldown) \/ w.lock = "ai"
  <2>1. PassiveRecorded(w, at)
          = Outcome([w EXCEPT !.lastActivity = at], Silence)
    BY <1>1 DEF PassiveRecorded
  <2>2. w.mode = "ai" /\ w.lock = None => at - w.lastAi < Cooldown
    BY <1>1 DEF None
  <2> QED BY <2>1, <2>2, QuietSteady
<1>2. CASE ~((w.mode = "ai" /\ at - w.lastAi < Cooldown) \/ w.lock = "ai")
  BY <1>2, ManualSteady DEF PassiveRecorded
<1> QED BY <1>1, <1>2

LEMMA TriggerSteady ==
  ASSUME NEW at \in TrackingStart .. MaxTime, NEW last \in TrackingStart .. at,
         NEW w, Fresh(w, at, last)
  PROVE  Steady(w, AiTriggered(w, at), at, last)
<1> DEFINE v == [w EXCEPT !.mode = "ai", !.lastAi = at, !.lastActivity = at]
<1>0. at \in Times /\ w \in Watchers /\ "ai" \in Modes
  BY MaxTimeAssumption DEF Fresh, Times, Modes, TrackingStart
<1>1. CASE ~AiDetection \/ w.lock = "manual"
  <2>1. AiTriggered(w, at) = Outcome(w, Silence)
    BY <1>1 DEF AiTriggered
  <2> QED BY <2>1, QuietSteady
<1>2. CASE ~(~AiDetection \/ w.lock = "manual")
  <2>1. /\ v \in Watchers /\ v.mode = "ai" /\ v.lock = w.lock
        /\ v.lastActivity = at /\ v.lastManual = w.lastManual /\ v.lastAi = at
        /\ v.manualFlush = w.manualFlush /\ v.aiFlush = w.aiFlush
    BY <1>0 DEF Watchers
  <2>2. w.lock \in {None, "ai"}
    BY <1>0, <1>2, WatcherAssumption DEF Watchers
  <2>3. AiTriggered(w, at) = Outcome(v, Told(w, "ai", "ai"))
    BY <1>2 DEF AiTriggered
  <2> HIDE DEF v
  <2>4. Signs(w, v, "ai", at)
    BY <1>0, <2>1, <2>2 DEF Signs
  <2> QED BY <1>0, <2>3, <2>4, SignSteady
<1> QED BY <1>1, <1>2

LEMMA LockSteady ==
  ASSUME NEW at \in TrackingStart .. MaxTime, NEW last \in TrackingStart .. at,
         NEW w, Fresh(w, at, last),
         NEW mode \in LockModes
  PROVE  Steady(w, Locked(w, mode, at), at, last)
<1> DEFINE v == [w EXCEPT !.lock = mode, !.mode = mode, !.lastActivity = at,
                          !.lastManual = IF mode = "manual" THEN at ELSE @,
                          !.lastAi = IF mode = "ai" THEN at ELSE @]
<1>0. at \in Times /\ w \in Watchers /\ mode \in Modes
  BY TrackingAssumption, WatcherAssumption, MaxTimeAssumption DEF Fresh, Times, Modes, TrackingStart
<1>1. /\ v \in Watchers /\ v.mode = mode /\ v.lock = mode /\ v.lastActivity = at
      /\ v.lastManual = (IF mode = "manual" THEN at ELSE w.lastManual)
      /\ v.lastAi = (IF mode = "ai" THEN at ELSE w.lastAi)
      /\ v.manualFlush = w.manualFlush /\ v.aiFlush = w.aiFlush
  BY <1>0 DEF Watchers
<1>2. Locked(w, mode, at) = Outcome(v, Told(w, mode, mode))
  BY DEF Locked
<1> HIDE DEF v
<1>3. Signs(w, v, mode, at)
  BY <1>0, <1>1 DEF Signs
<1> QED BY <1>0, <1>2, <1>3, SignSteady

\* The answer of an unlock is right; but what is heard of the agent need not be.
LEMMA UnlockAnswer ==
  ASSUME NEW at \in TrackingStart .. MaxTime, NEW last \in TrackingStart .. at,
         NEW w, Fresh(w, at, last)
  PROVE  /\ Answer(w, Unlocked(w), at, last)
         /\ at <= last + 1 => AgentSilent(Unlocked(w).watcher, at, last)
<1> DEFINE v == [w EXCEPT !.lock = None]
           told == Silence
<1>1. /\ v \in Watchers /\ v.mode = w.mode /\ v.lock = None
      /\ v.lastActivity = w.lastActivity /\ v.lastManual = w.lastManual /\ v.lastAi = w.lastAi
      /\ v.manualFlush = w.manualFlush /\ v.aiFlush = w.aiFlush
  BY DEF Fresh, Watchers
<1>2. told \in Reports /\ told.idleSince = 0 /\ told.activity = None
  BY SilenceIs
<1>3. Unlocked(w) = Outcome(v, told)
  BY DEF Unlocked
<1> HIDE DEF v, told
<1>4. Answers(w, v, told, at, last)
  BY <1>1, <1>2 DEF Answers, HeardOf, Fresh
<1>5. at <= last + 1 => AgentSilent(v, at, last)
  BY DEF AgentSilent, TrackingStart
<1> QED BY <1>3, <1>4, <1>5 DEF Answer, Outcome

\* A debounce timer reports an activity and leaves the mode alone.
LEMMA FlushSteady ==
  ASSUME NEW at \in TrackingStart .. MaxTime, NEW last \in TrackingStart .. at,
         NEW w, Fresh(w, at, last)
  PROVE  /\ w.manualFlush # 0 => Steady(w, ManualFlushed(w, at), at, last)
         /\ w.aiFlush # 0 => Steady(w, AiFlushed(w, at), at, last)
<1> DEFINE v == [w EXCEPT !.manualFlush = 0, !.manualBeat = at]
           u == [w EXCEPT !.aiFlush = 0, !.aiBeat = at]
<1>0. /\ at \in Times /\ w \in Watchers /\ 0 \in 0 .. MaxTime + 1
      /\ {"manual", "ai"} \subseteq Modes /\ w.mode \in Modes \union {"idle"}
  BY MaxTimeAssumption DEF Fresh, Times, Modes, TrackingStart, Watchers
<1>1. /\ v \in Watchers /\ v.mode = w.mode /\ v.lock = w.lock
      /\ v.lastActivity = w.lastActivity /\ v.lastManual = w.lastManual /\ v.lastAi = w.lastAi
      /\ v.manualFlush = 0 /\ v.aiFlush = w.aiFlush /\ v["manualFlush"] = 0
  BY <1>0 DEF Watchers
<1>2. /\ u \in Watchers /\ u.mode = w.mode /\ u.lock = w.lock
      /\ u.lastActivity = w.lastActivity /\ u.lastManual = w.lastManual /\ u.lastAi = w.lastAi
      /\ u.manualFlush = w.manualFlush /\ u.aiFlush = 0 /\ u["aiFlush"] = 0
  BY <1>0 DEF Watchers
<1>3. w["manualFlush"] = w.manualFlush /\ w["aiFlush"] = w.aiFlush
  OBVIOUS
<1> HIDE DEF v, u
<1>4. Fresh(v, at, last) /\ Fresh(u, at, last)
  <2>1. at \in Nat /\ at > 0 /\ w.lastManual \in Nat /\ w.lastAi \in Nat
    BY <1>0 DEF Watchers, Times, TrackingStart
  <2> QED BY <1>1, <1>2, <2>1 DEF Fresh
<1>5. ASSUME NEW x, Fresh(x, at, last), x.mode = w.mode, x.lock = w.lock,
             x.lastActivity = w.lastActivity, x.lastManual = w.lastManual, x.lastAi = w.lastAi,
             NEW flush \in {"manualFlush", "aiFlush"}, w[flush] # 0, x[flush] = 0,
             NEW activity \in {"manual", "ai"}
      PROVE  Steady(w, Outcome(x, Told(w, w.mode, activity)), at, last)
  <2> DEFINE told == Told(w, w.mode, activity)
  <2>1. told \in Reports /\ told.idleSince = 0
    BY <1>0, TellsMode
  <2> HIDE DEF told
  <2>2. Answers(w, x, told, at, last)
    BY <1>5, <2>1 DEF Answers, HeardOf
  <2>3. AgentSilent(w, at, last) => AgentSilent(x, at, last)
    BY <1>5 DEF AgentSilent
  <2> QED BY <2>2, <2>3 DEF Steady, Answer, Outcome, told
<1>6. ManualFlushed(w, at) = Outcome(v, Told(w, w.mode, "manual"))
  BY DEF ManualFlushed, v
<1>7. AiFlushed(w, at) = Outcome(u, Told(w, w.mode, "ai"))
  BY DEF AiFlushed, u
<1>8. w.manualFlush # 0 => Steady(w, ManualFlushed(w, at), at, last)
  BY <1>1, <1>3, <1>4, <1>5, <1>6
<1>9. w.aiFlush # 0 => Steady(w, AiFlushed(w, at), at, last)
  BY <1>2, <1>3, <1>4, <1>5, <1>7
<1> QED BY <1>8, <1>9

\* Falling idle: the debounce timers that are left are late.
LEMMA IdleSteady ==
  ASSUME NEW at \in TrackingStart .. MaxTime, NEW last \in TrackingStart .. at,
         NEW w, Fresh(w, at, last),
         w.lock = None, NEW since,
         \/ /\ w.mode = "manual" /\ IdleLimit > 0 /\ at - w.lastManual >= IdleLimit
            /\ since = w.lastManual
         \/ w.mode = "ai" /\ at - w.lastAi >= Cooldown /\ since = w.lastActivity
  PROVE  Steady(w, FellIdle(w, since), at, last)
<1> DEFINE v == [w EXCEPT !.mode = "idle"]
           said == Told(w, "idle", None)
           told == [said EXCEPT !.idleSince = since]
<1>0. /\ w \in Watchers /\ at \in Nat /\ last \in Nat /\ last <= at
      /\ w.lastManual \in Nat /\ w.lastAi \in Nat /\ w.manualFlush \in Nat /\ w.aiFlush \in Nat
      /\ IdleLimit \in Nat /\ Cooldown \in Nat \ {0, 1}
  BY WatcherAssumption DEF Fresh, Watchers, Times, TrackingStart
<1>1. /\ v \in Watchers /\ v.mode = "idle" /\ v.lock = w.lock
      /\ v.lastActivity = w.lastActivity /\ v.lastManual = w.lastManual /\ v.lastAi = w.lastAi
      /\ v.manualFlush = w.manualFlush /\ v.aiFlush = w.aiFlush
  BY <1>0 DEF Watchers
<1>2. said \in Reports /\ said.activity = None
  BY <1>0, TellsMode
<1>3. said.modeChange \notin Modes
  BY DEF Told, Silence, Modes, None
<1>4. since \in Times /\ since # 0
  BY <1>0 DEF Fresh, SeenBy, Watchers, TrackingStart
<1> HIDE DEF v, said
<1>5. /\ told \in Reports /\ told.activity = None /\ told.idleSince = since
      /\ told.modeChange = said.modeChange
  BY <1>2, <1>4 DEF Reports
<1>6. FellIdle(w, since) = Outcome(v, told)
  BY DEF FellIdle, v, said
<1> HIDE DEF told
<1>7. Fresh(v, at, last)
  <2>1. ASSUME NEW flush \in {w.manualFlush, w.aiFlush}
        PROVE flush <= at + 1 /\ (IdleLimit # 1 => flush < at)
    <3>1. /\ flush \in Nat /\ flush <= at + 1
          /\ w.mode = "manual" => flush <= w.lastManual + 1
          /\ w.mode = "ai" => flush <= w.lastAi + 1
      BY <1>0 DEF Fresh
    <3>2. CASE w.mode = "manual"
      BY <1>0, <3>1, <3>2
    <3>3. CASE w.mode = "ai"
      BY <1>0, <3>1, <3>3
    <3> QED BY <3>2, <3>3
  <2>2. /\ v.lock = None
        /\ SeenBy(v.lastActivity, at, last) /\ SeenBy(v.lastManual, at, last) /\ v.lastAi <= at
    BY <1>1 DEF Fresh
  <2> QED BY <1>1, <2>1, <2>2 DEF Fresh
<1>8. FallsIdle(w, told, at, last)
  BY <1>3, <1>5 DEF FallsIdle
<1>9. Answers(w, v, told, at, last)
  BY <1>1, <1>4, <1>5, <1>7, <1>8 DEF Answers, HeardOf
<1>10. AgentSilent(v, at, last)
  BY <1>1 DEF AgentSilent
<1> QED BY <1>6, <1>9, <1>10 DEF Steady, Answer, Outcome

LEMMA TickSteady ==
  ASSUME NEW at \in TrackingStart .. MaxTime, NEW last \in TrackingStart .. at,
         NEW w, Fresh(w, at, last)
  PROVE  Steady(w, Ticked(w, at), at, last)
<1> DEFINE v == [w EXCEPT !.lastActivity = at]
<1>0. /\ w \in Watchers /\ at \in Nat /\ w.lastManual \in Nat /\ w.lastAi \in Nat
      /\ at \in Times /\ IdleLimit \in Nat /\ Cooldown \in Nat
  BY WatcherAssumption DEF Fresh, Watchers, Times, TrackingStart
<1>1. /\ v \in Watchers /\ v.mode = w.mode /\ v.lock = w.lock /\ v.lastActivity = at
      /\ v.lastManual = w.lastManual /\ v.lastAi = w.lastAi
      /\ v.manualFlush = w.manualFlush /\ v.aiFlush = w.aiFlush
  BY <1>0 DEF Watchers
<1>2. ASSUME NEW mode \in Modes, w.mode = mode,
             w.mode = "ai" /\ w.lock = None => at - w.lastAi < Cooldown
      PROVE  Steady(w, Outcome(v, Told(w, w.mode, mode)), at, last)
  <2> DEFINE told == Told(w, w.mode, mode)
  <2>1. told \in Reports /\ told.idleSince = 0
    BY <1>0, <1>2, TellsMode
  <2> HIDE DEF told, v
  <2>2. Fresh(v, at, last)
    BY <1>1 DEF Fresh, SeenBy
  <2>3. v.mode # "idle"
    BY <1>1, <1>2 DEF Modes
  <2>4. Answers(w, v, told, at, last)
    BY <1>1, <2>1, <2>2, <2>3 DEF Answers, HeardOf
  <2>5. AgentSilent(v, at, last)
    BY <1>1, <1>2 DEF AgentSilent
  <2> QED BY <2>4, <2>5 DEF Steady, Answer, Outcome, told
<1>3. CASE w.lock # None
  <2>1. w.mode = w.lock /\ w.lock \in Modes
    BY <1>0, <1>3, WatcherAssumption DEF Fresh, Watchers, Modes
  <2>2. Ticked(w, at) = Outcome(v, Told(w, w.mode, w.lock))
    BY <1>3 DEF Ticked
  <2> QED BY <1>2, <1>3, <2>1, <2>2
<1>4. CASE w.lock = None /\ w.mode = "manual" /\ ManualSilent(w, at)
  <2>1. Ticked(w, at) = FellIdle(w, w.lastManual)
    BY <1>4 DEF Ticked
  <2> QED BY <1>4, <2>1, IdleSteady DEF ManualSilent
<1>5. CASE w.lock = None /\ w.mode = "ai" /\ at - w.lastAi < Cooldown
  <2>1. /\ w.mode # "manual" /\ ~(at - w.lastAi >= Cooldown)
        /\ w.mode \in Modes /\ w.mode = "ai"
    BY <1>0, <1>5 DEF Modes
  <2>2. Ticked(w, at) = Outcome(v, Told(w, w.mode, w.mode))
    BY <1>5, <2>1 DEF Ticked
  <2> QED BY <1>2, <1>5, <2>1, <2>2
<1>6. CASE w.lock = None /\ w.mode = "ai" /\ ~(at - w.lastAi < Cooldown)
  <2>1. at - w.lastAi >= Cooldown
    BY <1>0, <1>6
  <2>2. Ticked(w, at) = FellIdle(w, w.lastActivity)
    BY <1>6, <2>1 DEF Ticked
  <2> QED BY <1>6, <2>1, <2>2, IdleSteady
<1>7. CASE w.lock = None /\ w.mode # "ai"
           /\ ~(w.mode = "manual" /\ ManualSilent(w, at))
  <2>1. Ticked(w, at) = Outcome(w, Silence)
    BY <1>7 DEF Ticked
  <2> QED BY <2>1, QuietSteady
<1> QED BY <1>3, <1>4, <1>5, <1>6, <1>7

-----------------------------------------------------------------------------
(* What the engine's methods do to the sessions.                           *)

Same(t, u) ==
  /\ u.running = t.running /\ u.sessionStart = t.sessionStart
  /\ u.sessions = t.sessions /\ u.total = t.total

\* The running session of t is recorded up to end, unless that is before its start.
Gains(t, u, end) ==
  /\ end > t.sessionStart =>
       /\ u.sessions = t.sessions \union {[start |-> t.sessionStart, end |-> end]}
       /\ u.total = t.total + (end - t.sessionStart)
  /\ end <= t.sessionStart => u.sessions = t.sessions /\ u.total = t.total

LEMMA SwitchedSame ==
  ASSUME NEW t \in Timers, NEW mode, NEW at
  PROVE  Same(t, Switched(t, mode, at))
BY DEF Same, Switched, Timers

LEMMA ResetKeeps ==
  ASSUME NEW t \in Timers, NEW start \in Nat
  PROVE  LET u == PointersReset(t, start)
         IN  /\ u.running = t.running /\ u.sessionStart = start
             /\ u.sessions = t.sessions /\ u.total = t.total
BY DEF PointersReset, Timers

LEMMA BookedGains ==
  ASSUME NEW t \in Timers, NEW end \in Nat, end >= t.sessionStart,
         NEW manual \in Nat, NEW ai \in Nat
  PROVE  LET u == Booked(t, end, manual, ai)
         IN  /\ u.running = t.running
             /\ u.sessions = t.sessions \union {[start |-> t.sessionStart, end |-> end]}
             /\ u.total = t.total + (end - t.sessionStart)
<1>1. Elapsed(t.sessionStart, end) = end - t.sessionStart
  BY DEF Elapsed, Timers
<1> QED BY <1>1 DEF Booked, Timers

LEMMA ResumedStarts ==
  ASSUME NEW t \in Timers, NEW at \in Nat, at > 0, t.idleStart <= at
  PROVE  LET u == ResumedAt(t, at)
         IN  u.running /\ u.sessionStart = at /\ u.sessions = t.sessions /\ u.total = t.total
<1> DEFINE start == Later(1, t.idleStart)
           awake == [t EXCEPT !.running = TRUE, !.pausedIdle = FALSE, !.idleStart = 0]
           rested == [awake EXCEPT !.idle = @ + (at - start),
                                   !.idles = @ \union {[start |-> start, end |-> at]}]
           before == IF at = start THEN awake ELSE rested
<1>1. start \in Nat /\ start <= at /\ Later(start, at) = at
  BY DEF Later, Timers
<1>2. /\ awake \in Timers /\ awake.running /\ awake.sessions = t.sessions
      /\ awake.total = t.total /\ awake.idle = t.idle /\ awake.idles = t.idles
  BY DEF Timers
<1>3. /\ rested \in Timers /\ rested.running
      /\ rested.sessions = t.sessions /\ rested.total = t.total
  <2>1. t.idle + (at - start) \in Nat
    BY <1>1 DEF Timers
  <2>2. t.idles \union {[start |-> start, end |-> at]} \subseteq Intervals
    BY <1>1 DEF Timers, Intervals
  <2>3. rested = [awake EXCEPT !.idle = t.idle + (at - start),
                               !.idles = t.idles \union {[start |-> start, end |-> at]}]
    BY <1>2 DEF Timers
  <2> HIDE DEF awake, rested, start
  <2> QED BY <1>2, <2>1, <2>2, <2>3 DEF Timers
<1>4. /\ before \in Timers /\ before.running
      /\ before.sessions = t.sessions /\ before.total = t.total
  BY <1>2, <1>3
<1>5. ResumedAt(t, at) = PointersReset(before, at)
  BY <1>1 DEF ResumedAt
<1> HIDE DEF before
<1> QED BY <1>4, <1>5, ResetKeeps

LEMMA PausedGains ==
  ASSUME NEW t \in Timers, NEW at \in Nat, Filled(t, at), t.running, NEW since \in 1 .. at
  PROVE  LET u == PausedAt(t, since) IN ~u.running /\ Gains(t, u, since)
<1> DEFINE end == Later(t.sessionStart, since)
           elapsed == end - t.sessionStart
           manual == IF end >= t.segmentStart THEN ManualAt(t, end)
                     ELSE RoundedShare(elapsed, t.manualAcc, Later(1, t.manualAcc + t.aiAcc))
           ai == IF end >= t.segmentStart THEN AiAt(t, end) ELSE elapsed - manual
           paused == [t EXCEPT !.running = FALSE, !.pausedIdle = TRUE, !.idleStart = since]
           booked == IF elapsed = 0
                       THEN [paused EXCEPT !.manual = @ + manual, !.ai = @ + ai]
                       ELSE Booked(paused, end, manual, ai)
<1>1. /\ t.sessionStart \in Nat /\ t.segmentStart \in Nat /\ t.manualAcc \in Nat /\ t.aiAcc \in Nat
      /\ t.total \in Nat /\ t.sessionStart <= t.segmentStart /\ t.segmentStart <= at
  BY DEF Timers, Filled
<1>2. end \in Nat /\ t.sessionStart <= end /\ elapsed \in Nat
  BY <1>1 DEF Later
<1>3. manual \in Nat /\ ai \in Nat
  <2>1. CASE end >= t.segmentStart
    BY <1>2, <2>1, ModesLemma
  <2>2. CASE ~(end >= t.segmentStart)
    <3>1. /\ Later(1, t.manualAcc + t.aiAcc) \in Nat
          /\ Later(1, t.manualAcc + t.aiAcc) > 0
          /\ t.manualAcc <= Later(1, t.manualAcc + t.aiAcc)
      BY <1>1 DEF Later
    <3>2. manual \in 0 .. elapsed
      BY <1>1, <1>2, <2>2, <3>1, ShareLemma
    <3> QED BY <1>2, <2>2, <3>2
  <2> QED BY <2>1, <2>2
<1> HIDE DEF manual, ai
<1>4. /\ paused \in Timers /\ ~paused.running /\ paused.sessionStart = t.sessionStart
      /\ paused.total = t.total /\ paused.sessions = t.sessions
      /\ paused.manual \in Nat /\ paused.ai \in Nat
  <2>1. since \in Nat
    OBVIOUS
  <2> HIDE DEF elapsed, end
  <2> QED BY <2>1 DEF Timers
<1> HIDE DEF paused
<1>5. CASE elapsed = 0
  <2>1. booked = [paused EXCEPT !.manual = paused.manual + manual, !.ai = paused.ai + ai]
    BY <1>4, <1>5 DEF Timers
  <2>2. paused.manual + manual \in Nat /\ paused.ai + ai \in Nat
    BY <1>3, <1>4
  <2> HIDE DEF booked
  <2>3. /\ booked \in Timers /\ ~booked.running
        /\ booked.sessions = t.sessions /\ booked.total = t.total
    BY <1>4, <2>1, <2>2 DEF Timers
  <2>4. PausedAt(t, since) = PointersReset(booked, 0)
    BY DEF PausedAt, booked, paused, manual, ai
  <2>5. since <= t.sessionStart
    BY <1>1, <1>5 DEF Later
  <2> QED BY <1>1, <2>3, <2>4, <2>5, ResetKeeps DEF Gains
<1>6. CASE elapsed # 0
  <2>1. booked = Booked(paused, end, manual, ai)
    BY <1>6
  <2>2. end = since /\ since > t.sessionStart
    BY <1>1, <1>6 DEF Later
  <2> HIDE DEF booked, elapsed, end
  <2>3. booked \in Timers
    BY <1>2, <1>3, <1>4, <2>1, BookedLemma
  <2>4. /\ ~booked.running
        /\ booked.sessions = t.sessions \union {[start |-> t.sessionStart, end |-> end]}
        /\ booked.total = t.total + (end - t.sessionStart)
    BY <1>2, <1>3, <1>4, <2>1, BookedGains
  <2>5. PausedAt(t, since) = PointersReset(booked, 0)
    BY DEF PausedAt, booked, paused, manual, ai, end, elapsed
  <2> QED BY <1>1, <2>2, <2>3, <2>4, <2>5, ResetKeeps DEF Gains
<1> QED BY <1>5, <1>6

LEMMA CutGains ==
  ASSUME NEW t \in Timers, NEW at \in Nat, Filled(t, at), t.running,
         NEW boundary \in 1 .. at, NEW resume \in Nat
  PROVE  LET u == CutAt(t, boundary, resume)
         IN  u.running /\ u.sessionStart = resume /\ Gains(t, u, boundary)
<1> DEFINE manual == ManualAt(t, boundary)
           ai == AiAt(t, boundary)
           booked == Booked(t, boundary, manual, ai)
<1>1. t.sessionStart \in Nat /\ t.total \in Nat /\ boundary \in Nat /\ manual \in Nat /\ ai \in Nat
  BY ModesLemma DEF Timers
<1>2. CASE boundary <= t.sessionStart
  <2>1. CutAt(t, boundary, resume) = PointersReset(t, resume)
    BY <1>2 DEF CutAt
  <2> QED BY <1>1, <1>2, <2>1, ResetKeeps DEF Gains
<1>3. CASE ~(boundary <= t.sessionStart)
  <2>1. CutAt(t, boundary, resume) = PointersReset(booked, resume)
    BY <1>3 DEF CutAt
  <2>2. boundary > t.sessionStart
    BY <1>1, <1>3
  <2> HIDE DEF manual, ai
  <2>3. booked \in Timers
    BY <1>1, <2>2, BookedLemma
  <2>4. /\ booked.running
        /\ booked.sessions = t.sessions \union {[start |-> t.sessionStart, end |-> boundary]}
        /\ booked.total = t.total + (boundary - t.sessionStart)
    <3>1. Elapsed(t.sessionStart, boundary) = boundary - t.sessionStart
      BY <1>1, <2>2 DEF Elapsed
    <3> QED BY <3>1 DEF Booked, Timers
  <2> HIDE DEF booked
  <2> QED BY <1>1, <2>1, <2>2, <2>3, <2>4, ResetKeeps DEF Gains
<1> QED BY <1>2, <1>3

-----------------------------------------------------------------------------
(* The sessions on the line of time, for a timer t at the time at; last is the *)
(* time of the last heartbeat and S the sleeps noticed so far.                *)

Recorded(t, at, last) ==
  /\ \A w \in t.sessions : w.start < w.end /\ w.end <= at /\ w.start <= last
  /\ t.running => SeenBy(t.sessionStart, at, last) /\ \A w \in t.sessions : w.start < t.sessionStart
  /\ IsFiniteSet(t.sessions) /\ t.total = SumOf(t.sessions)

Apart(a, b) == a.end <= b.start \/ b.end <= a.start

\* As long as no lock was released beside a late heartbeat.
Ordered(t, at, last) ==
  /\ \A w \in t.sessions : w.end <= last \/ at <= last + 1
  /\ t.running => \A w \in t.sessions : w.end <= t.sessionStart
  /\ \A a, b \in t.sessions : a # b => Apart(a, b)

Slept(S, t, last) ==
  /\ S \subseteq Intervals
  /\ \A s \in S : s.start < s.end /\ s.end <= last
  /\ t.running => \A s \in S : s.end <= t.sessionStart

SleptApart(S, t) == \A s \in S, w \in t.sessions : Apart(s, w)

Geometry(t, S, at, last, orderly) ==
  /\ Recorded(t, at, last) /\ Slept(S, t, last)
  /\ orderly => Ordered(t, at, last) /\ SleptApart(S, t)

\* A session that is recorded is none that was, and adds its length.
LEMMA GainRecorded ==
  ASSUME NEW t \in Timers, NEW u, NEW at \in Nat, NEW last \in Nat, last <= at,
         Recorded(t, at, last), t.running, NEW end \in 1 .. at, Gains(t, u, end)
  PROVE  /\ IsFiniteSet(u.sessions) /\ u.total = SumOf(u.sessions)
         /\ \A w \in u.sessions : /\ w.start < w.end /\ w.end <= at /\ w.start <= last
                                  /\ w.start <= t.sessionStart
                                  /\ w \in t.sessions \/ (w.start = t.sessionStart /\ w.end = end)
                                  /\ w.start = t.sessionStart => w.start < end
<1> DEFINE new == [start |-> t.sessionStart, end |-> end]
<1>1. t.sessionStart \in Nat /\ t.sessions \subseteq Intervals /\ end \in Nat
  BY DEF Timers
<1>2. CASE end <= t.sessionStart
  BY <1>1, <1>2 DEF Gains, Recorded, Intervals
<1>3. CASE ~(end <= t.sessionStart)
  <2>1. /\ u.sessions = t.sessions \union {new} /\ u.total = t.total + (end - t.sessionStart)
        /\ t.sessionStart < end
    BY <1>1, <1>3 DEF Gains
  <2>2. new \in Intervals /\ new.start = t.sessionStart /\ new.end = end
    BY <1>1 DEF Intervals
  <2>3. new \notin t.sessions
    BY <1>1, <2>2 DEF Recorded
  <2>4. new.start <= last
    BY <1>1, <2>1, <2>2 DEF Recorded, SeenBy, TrackingStart
  <2> HIDE DEF new
  <2>5. IsFiniteSet(u.sessions) /\ u.total = SumOf(u.sessions)
    <3>1. /\ SumOf(t.sessions \union {new}) = SumOf(t.sessions) + Span(new)
          /\ IsFiniteSet(t.sessions \union {new})
      BY <1>1, <2>2, <2>3, SumWith DEF Recorded
    <3>2. t.total = SumOf(t.sessions)
      BY DEF Recorded
    <3> QED BY <2>1, <2>2, <3>1, <3>2 DEF Span
  <2>6. ASSUME NEW w \in u.sessions
        PROVE  /\ w.start < w.end /\ w.end <= at /\ w.start <= last /\ w.start <= t.sessionStart
               /\ w \in t.sessions \/ (w.start = t.sessionStart /\ w.end = end)
               /\ w.start = t.sessionStart => w.start < end
    <3>1. CASE w \in t.sessions
      <4>1. w.start \in Nat
        BY <1>1, <3>1 DEF Intervals
      <4> QED BY <1>1, <2>1, <3>1, <4>1 DEF Recorded
    <3>2. CASE w = new
      BY <1>1, <2>1, <2>2, <2>4, <3>2
    <3> QED BY <2>1, <3>1, <3>2
  <2> QED BY <2>5, <2>6
<1> QED BY <1>2, <1>3

\* What Gains adds lies after what there was.
LEMMA GainOrdered ==
  ASSUME NEW t \in Timers, NEW u, NEW at \in Nat, NEW last \in Nat, last <= at,
         Recorded(t, at, last), Ordered(t, at, last), t.running, NEW end \in 1 .. at, Gains(t, u, end)
  PROVE  /\ \A a, b \in u.sessions : a # b => Apart(a, b)
         /\ \A w \in u.sessions : w.end <= t.sessionStart \/ (t.sessionStart < end /\ w.end = end)
<1> DEFINE new == [start |-> t.sessionStart, end |-> end]
<1>1. t.sessionStart \in Nat /\ t.sessions \subseteq Intervals /\ end \in Nat
  BY DEF Timers
<1>2. CASE end <= t.sessionStart
  BY <1>1, <1>2 DEF Gains, Ordered
<1>3. CASE ~(end <= t.sessionStart)
  <2>1. u.sessions = t.sessions \union {new} /\ t.sessionStart < end
    BY <1>1, <1>3 DEF Gains
  <2>2. new.start = t.sessionStart /\ new.end = end
    OBVIOUS
  <2> HIDE DEF new
  <2>3. \A w \in t.sessions : Apart(w, new) /\ Apart(new, w) /\ w.end <= t.sessionStart
    BY <2>2 DEF Ordered, Apart
  <2> QED BY <2>1, <2>2, <2>3 DEF Ordered
<1> QED BY <1>2, <1>3

LEMMA SameGeometry ==
  ASSUME NEW t \in Timers, NEW u, NEW S, NEW at, NEW last, NEW orderly,
         Geometry(t, S, at, last, orderly), Same(t, u)
  PROVE  Geometry(u, S, at, last, orderly)
BY DEF Geometry, Same, Recorded, Ordered, Slept, SleptApart

\* The clock moves on from a heartbeat.
LEMMA ClockGeometry ==
  ASSUME NEW t \in Timers, NEW S, NEW at \in Nat, at >= TrackingStart, NEW later \in Nat,
         at <= later,
         NEW orderly, Geometry(t, S, at, at, orderly)
  PROVE  Geometry(t, S, later, at, orderly)
<1>1. t.sessions \subseteq Intervals
  BY DEF Timers
<1>2. \A w \in t.sessions : w.end <= at /\ w.end <= later
  BY <1>1 DEF Geometry, Recorded, Intervals
<1>3. Recorded(t, later, at)
  <2>1. t.running => SeenBy(t.sessionStart, later, at)
    BY DEF Geometry, Recorded, SeenBy, TrackingStart
  <2> QED BY <1>2, <2>1 DEF Geometry, Recorded
<1>4. orderly => Ordered(t, later, at)
  BY <1>2 DEF Geometry, Ordered
<1> QED BY <1>3, <1>4 DEF Geometry

\* A resume starts a session now.
LEMMA ResumeGeometry ==
  ASSUME NEW t \in Timers, NEW u, NEW S, NEW at \in Nat, NEW last \in Nat, last <= at,
         NEW orderly, Geometry(t, S, at, last, orderly),
         u.running, u.sessionStart = at, u.sessions = t.sessions, u.total = t.total
  PROVE  Geometry(u, S, at, last, orderly)
<1>1. t.sessions \subseteq Intervals
  BY DEF Timers
<1>2. \A w \in t.sessions : w.start < w.end /\ w.end <= at /\ w.start < at
  <2> TAKE w \in t.sessions
  <2>1. w.start \in Nat /\ w.end \in Nat /\ w.start < w.end /\ w.end <= at
    BY <1>1 DEF Geometry, Recorded, Intervals
  <2> QED BY <2>1
<1>3. Recorded(u, at, last)
  BY <1>2 DEF Geometry, Recorded, SeenBy
<1>4. orderly => Ordered(u, at, last) /\ SleptApart(S, u)
  BY <1>2 DEF Geometry, Ordered, SleptApart
<1>5. Slept(S, u, last)
  <2>1. \A s \in S : s.end <= at
    <3> TAKE s \in S
    <3>1. s.end \in Nat /\ s.end <= last
      BY DEF Geometry, Slept, Intervals
    <3> QED BY <3>1
  <2> QED BY <2>1 DEF Geometry, Slept
<1> QED BY <1>3, <1>4, <1>5 DEF Geometry

\* A pause ends the running session, at a time before the last heartbeat unless
\* the present one is no later than a unit.
LEMMA PauseGeometry ==
  ASSUME NEW t \in Timers, NEW u, NEW S, NEW at \in Nat, NEW last \in Nat, last <= at,
         NEW orderly, Geometry(t, S, at, last, orderly), t.running,
         NEW end \in 1 .. at, Gains(t, u, end), ~u.running,
         orderly => end <= last \/ at <= last + 1
  PROVE  Geometry(u, S, at, last, orderly)
<1>1. /\ t.sessions \subseteq Intervals /\ t.sessionStart \in Nat
      /\ Recorded(t, at, last) /\ Slept(S, t, last)
  BY DEF Timers, Geometry
<1>2. Recorded(u, at, last)
  BY <1>1, GainRecorded DEF Recorded
<1>3. ASSUME orderly PROVE Ordered(u, at, last) /\ SleptApart(S, u)
  <2>1. Ordered(t, at, last) /\ SleptApart(S, t)
    BY <1>3 DEF Geometry
  <2>2. \A a, b \in u.sessions : a # b => Apart(a, b)
    BY <1>1, <2>1, GainOrdered
  <2>3. \A w \in u.sessions : w \in t.sessions \/ (w.start = t.sessionStart /\ w.end = end)
    BY <1>1, GainRecorded
  <2>4. \A w \in u.sessions : w.end <= last \/ at <= last + 1
    BY <1>3, <2>1, <2>3 DEF Ordered
  <2>5. SleptApart(S, u)
    BY <1>1, <2>1, <2>3 DEF SleptApart, Apart, Slept
  <2> QED BY <2>2, <2>4, <2>5 DEF Ordered
<1>4. Slept(S, u, last)
  BY <1>1 DEF Slept
<1> QED BY <1>2, <1>3, <1>4 DEF Geometry

\* A heartbeat cuts the running session and starts the next one at a time after
\* the heartbeat before.
LEMMA CutGeometry ==
  ASSUME NEW t \in Timers, NEW u, NEW S, NEW at \in Nat, NEW last \in Nat, last <= at,
         last >= TrackingStart, NEW orderly, Geometry(t, S, at, last, orderly),
         NEW boundary \in 1 .. at, NEW resume \in boundary .. at, last < resume,
         resume = at \/ (resume = boundary),
         \/ ~t.running /\ u = t
         \/ t.running /\ u.running /\ u.sessionStart = resume /\ Gains(t, u, boundary)
  PROVE  Geometry(u, S, at, at, orderly)
<1>0. /\ t.sessions \subseteq Intervals /\ t.sessionStart \in Nat
      /\ Recorded(t, at, last) /\ Slept(S, t, last)
      /\ at \in Nat /\ boundary \in Nat /\ resume \in Nat /\ boundary <= resume /\ resume <= at
  BY DEF Timers, Geometry
<1>1. \A s \in S : s.end \in Nat /\ s.end <= last /\ s.end <= at /\ s.end <= resume
  <2> TAKE s \in S
  <2>1. s.end \in Nat /\ s.end <= last
    BY <1>0 DEF Slept, Intervals
  <2> QED BY <1>0, <2>1
<1>2. CASE ~t.running /\ u = t
  <2>1. \A w \in t.sessions : w.start \in Nat /\ w.end \in Nat /\ w.start < w.end /\ w.end <= at
    BY <1>0 DEF Recorded, Intervals
  <2>2. \A w \in t.sessions : w.start <= at
    BY <2>1
  <2>3. Recorded(u, at, at)
    BY <1>0, <1>2, <2>1, <2>2 DEF Recorded
  <2>4. orderly => Ordered(u, at, at)
    BY <1>2, <2>1 DEF Geometry, Ordered
  <2>5. Slept(S, u, at)
    BY <1>0, <1>1, <1>2 DEF Slept
  <2> QED BY <1>2, <2>3, <2>4, <2>5 DEF Geometry
<1>3. CASE t.running /\ u.running /\ u.sessionStart = resume /\ Gains(t, u, boundary)
  <2>1. /\ IsFiniteSet(u.sessions) /\ u.total = SumOf(u.sessions)
        /\ \A w \in u.sessions : /\ w.start < w.end /\ w.end <= at /\ w.start <= last
                                 /\ w.start <= t.sessionStart
                                 /\ w \in t.sessions \/ (w.start = t.sessionStart /\ w.end = boundary)
                                 /\ w.start = t.sessionStart => w.start < boundary
    BY <1>0, <1>3, GainRecorded
  <2>2. \A w \in u.sessions : w.start \in Nat /\ w.end \in Nat
    BY <1>0, <2>1 DEF Intervals
  <2>3. \A w \in u.sessions : w.start <= at /\ w.start < resume
    BY <1>0, <2>1, <2>2
  <2>4. Recorded(u, at, at)
    BY <1>0, <1>3, <2>1, <2>3 DEF Recorded, SeenBy, TrackingStart
  <2>5. ASSUME orderly PROVE Ordered(u, at, at) /\ SleptApart(S, u)
    <3>1. Ordered(t, at, last) /\ SleptApart(S, t)
      BY <2>5 DEF Geometry
    <3>2. \A a, b \in u.sessions : a # b => Apart(a, b)
      BY <1>0, <1>3, <3>1, GainOrdered
    <3>3. \A w \in u.sessions : w.end <= resume
      <4> TAKE w \in u.sessions
      <4>1. CASE w \in t.sessions
        <5>1. w.end <= last \/ at <= last + 1
          BY <3>1, <4>1 DEF Ordered
        <5> QED BY <1>0, <2>1, <2>2, <5>1
      <4>2. CASE w.end = boundary
        BY <1>0, <4>2
      <4> QED BY <2>1, <4>1, <4>2
    <3>4. SleptApart(S, u)
      BY <1>0, <1>3, <2>1, <3>1 DEF SleptApart, Apart, Slept
    <3>5. \A w \in u.sessions : w.end <= at
      BY <2>1
    <3> QED BY <1>3, <3>2, <3>3, <3>4, <3>5 DEF Ordered
  <2>6. Slept(S, u, at)
    BY <1>0, <1>1, <1>3 DEF Slept
  <2> QED BY <2>4, <2>5, <2>6 DEF Geometry
<1> QED BY <1>2, <1>3

\* A sleep is noticed: the session was cut where it began and resumed where it ended.
LEMMA SleepGeometry ==
  ASSUME NEW t \in Timers, NEW u \in Timers, NEW S, NEW at \in Nat, NEW last \in Nat,
         last >= TrackingStart, last + 1 < at, NEW orderly, Geometry(t, S, at, last, orderly),
         Geometry(u, S, at, at, orderly),
         \/ ~t.running /\ u = t
         \/ t.running /\ u.running /\ u.sessionStart = at /\ Gains(t, u, last)
  PROVE  Geometry(u, S \union {[start |-> last, end |-> at]}, at, at, orderly)
<1> DEFINE sleep == [start |-> last, end |-> at]
<1>1. sleep \in Intervals /\ sleep.start = last /\ sleep.end = at
  BY DEF Intervals
<1> HIDE DEF sleep
<1>2. /\ last \in 1 .. at /\ last <= at /\ Recorded(t, at, last)
      /\ t.sessions \subseteq Intervals
  BY DEF TrackingStart, Geometry, Timers
<1>3. Slept(S \union {sleep}, u, at)
  BY <1>1 DEF Geometry, Slept
<1>4. ASSUME orderly, NEW w \in u.sessions PROVE Apart(sleep, w)
  <2>1. w \in t.sessions \/ w.end = last
    BY <1>2, GainRecorded
  <2>2. CASE w \in t.sessions
    <3>1. w.end <= last \/ at <= last + 1
      BY <1>4, <2>2 DEF Geometry, Ordered
    <3> QED BY <1>1, <3>1 DEF Apart
  <2>3. CASE w.end = last
    BY <1>1, <2>3 DEF Apart
  <2> QED BY <2>1, <2>2, <2>3
<1>5. orderly => SleptApart(S \union {sleep}, u)
  BY <1>4 DEF Geometry, SleptApart
<1> QED BY <1>3, <1>5 DEF Geometry, sleep

-----------------------------------------------------------------------------
(* The invariant of ActivityTracking.                                      *)

\* A save takes less time than falling idle does.
QuickSaves == MaxWait < Cooldown /\ (IdleLimit = 0 \/ MaxWait < IdleLimit)

Orderly == "lateUnlock" \notin mishaps

Mishaps == {"pauseFailed", "reportDropped", "pausedResuming", "lateFlush", "lateUnlock"}

Ticking ==
  /\ now \in TrackingStart .. MaxTime /\ lastTick \in TrackingStart .. now
  /\ tickDue \in BOOLEAN /\ beatDue \in BOOLEAN
  /\ ~beatDue => lastTick = now
  /\ day = Day(lastTick)

Observing ==
  /\ Fresh(watcher, now, lastTick)
  /\ Orderly => AgentSilent(watcher, now, lastTick)

Sound(t, at) == t \in Timers /\ Filled(t, at) /\ t.idleStart <= at

Serving ==
  /\ state \in {"running", "paused_idle"} /\ pausing \in Nat
  /\ resuming \in Seq(Modes) /\ wait \in 0 .. MaxWait
  /\ mishaps \subseteq Mishaps

\* The running session began in the current day.
Today == timer.running => day <= timer.sessionStart

\* While a pause is being saved, the watcher is idle or has heard somebody since.
HeardSince ==
  pausing > 0 =>
    \/ watcher.mode = "idle"
    \/ watcher.mode = "manual" /\ now - watcher.lastManual <= wait
    \/ watcher.mode = "ai" /\ now - watcher.lastAi <= wait

\* At most one pause is being saved, beside no resume; and a resume finds the
\* engine running.
Followed ==
  {"pauseFailed", "pausedResuming"} \intersect mishaps = {} =>
    /\ pausing = 0 /\ resuming = <<>> => (state = "running" <=> timer.running)
    /\ pausing > 0 => pausing = 1 /\ resuming = <<>> /\ state = "running" /\ ~timer.running
    /\ resuming # <<>> => timer.running

\* An idle watcher's report is being handled, or has been.
Noticed ==
  watcher.mode = "idle" /\ mishaps \subseteq {"lateUnlock"} =>
    pausing > 0 \/ (state = "paused_idle" /\ resuming = <<>>)

TInv ==
  /\ Ticking /\ Observing /\ Serving
  /\ Sound(timer, now) /\ Today /\ Geometry(timer, slept, now, lastTick, Orderly)
  /\ HeardSince
  /\ QuickSaves => Followed /\ (IdleLimit # 1 => Noticed)

-----------------------------------------------------------------------------
LEMMA NowIs ==
  ASSUME TInv
  PROVE  /\ now \in TrackingStart .. MaxTime /\ lastTick \in TrackingStart .. now
         /\ now \in Nat /\ lastTick \in Nat /\ now > 0 /\ lastTick > 0 /\ lastTick <= now
         /\ day \in Nat /\ day <= lastTick /\ day <= now
<1>1. now \in TrackingStart .. MaxTime /\ lastTick \in TrackingStart .. now /\ day = Day(lastTick)
  BY DEF TInv, Ticking
<1>2. now \in Nat /\ lastTick \in Nat /\ now > 0 /\ lastTick > 0 /\ lastTick <= now
  BY <1>1 DEF TrackingStart
<1>3. Day(lastTick) \in Nat /\ Day(lastTick) <= lastTick
  BY <1>2, DayIs
<1> QED BY <1>1, <1>2, <1>3

LEMMA EmptyIs ==
  ASSUME NEW s \in Seq(Modes)
  PROVE  Len(s) \in Nat /\ (Len(s) = 0 <=> s = <<>>)
  OBVIOUS

LEMMA SoundCalls ==
  ASSUME NEW t, NEW at \in Nat, at > 0, Sound(t, at)
  PROVE  /\ \A mode \in Modes : Sound(Switched(t, mode, at), at)
         /\ Sound(ResumedAt(t, at), at)
         /\ \A since \in 1 .. at : Sound(PausedAt(t, since), at)
         /\ \A boundary \in 1 .. at : \A resume \in boundary .. at : Sound(CutAt(t, boundary, resume), at)
<1>1. t \in Timers /\ Filled(t, at) /\ t.idleStart <= at
  BY DEF Sound
<1>2. \A mode \in Modes : GoodStep(t, Switched(t, mode, at), at)
  BY <1>1, SwitchedLemma
<1>3. GoodStep(t, ResumedAt(t, at), at)
  BY <1>1, ResumedLemma
<1>4. \A since \in 1 .. at : GoodStep(t, PausedAt(t, since), at)
  BY <1>1, PausedLemma
<1>5. \A boundary \in 1 .. at : \A resume \in boundary .. at : GoodStep(t, CutAt(t, boundary, resume), at)
  BY <1>1, CutLemma
<1>6. \A u : GoodStep(t, u, at) => Sound(u, at)
  BY DEF GoodStep, Sound
<1> QED BY <1>2, <1>3, <1>4, <1>5, <1>6

\* What a watcher's action does before the listener hears of it.
Informed ==
  /\ now' = now /\ tickDue' \in BOOLEAN /\ UNCHANGED Rest
  /\ Answers(watcher, watcher', sent', now, lastTick)
  /\ AgentSilent(watcher, now, lastTick) => AgentSilent(watcher', now, lastTick)

LEMMA HandleInforms ==
  ASSUME NEW STATE outcome, Steady(watcher, outcome, now, lastTick), Handle(outcome),
         tickDue' \in BOOLEAN, UNCHANGED Rest
  PROVE  Informed
BY DEF Steady, Answer, Handle, Informed

LEMMA WatcherInforms ==
  ASSUME TInv
  PROVE  /\ ManualActivityHeard => Informed /\ Listener
         /\ SignalHeard => Informed /\ Listener
         /\ PassiveHeard => Informed /\ Listener
         /\ TriggerHeard => Informed /\ Listener
         /\ LockHeard => Informed /\ Listener
         /\ FlushManualHeard => Informed /\ Listener
         /\ FlushAiHeard => Informed /\ Listener
         /\ WatcherTick => Informed /\ Listener
<1>1. /\ now \in TrackingStart .. MaxTime /\ lastTick \in TrackingStart .. now
      /\ Fresh(watcher, now, lastTick) /\ tickDue \in BOOLEAN
  BY NowIs DEF TInv, Observing, Ticking
<1>2. ManualActivityHeard => Informed /\ Listener
  BY <1>1, ManualSteady, HandleInforms DEF ManualActivityHeard, ManualActivity, Heard
<1>3. SignalHeard => Informed /\ Listener
  BY <1>1, SignalSteady, HandleInforms DEF SignalHeard, ExternalSignal, Heard
<1>4. PassiveHeard => Informed /\ Listener
  BY <1>1, PassiveSteady, HandleInforms DEF PassiveHeard, PassiveInteraction, Heard
<1>5. TriggerHeard => Informed /\ Listener
  BY <1>1, TriggerSteady, HandleInforms DEF TriggerHeard, TriggerAiActivity, Commanded
<1>6. LockHeard => Informed /\ Listener
  <2> SUFFICES ASSUME LockHeard PROVE Informed /\ Listener
    OBVIOUS
  <2>1. PICK mode \in LockModes : Handle(Locked(watcher, mode, now)) /\ tickDue' = tickDue
    BY DEF LockHeard, SetModeOverride, Commanded
  <2>2. Steady(watcher, Locked(watcher, mode, now), now, lastTick)
    BY <1>1, LockSteady
  <2> QED BY <1>1, <2>1, <2>2, HandleInforms DEF LockHeard
<1>7. FlushManualHeard => Informed /\ Listener
  BY <1>1, FlushSteady, HandleInforms DEF FlushManualHeard, FlushManual, FlushDue, Heard
<1>8. FlushAiHeard => Informed /\ Listener
  BY <1>1, FlushSteady, HandleInforms DEF FlushAiHeard, FlushAi, FlushDue, Heard
<1>9. WatcherTick => Informed /\ Listener
  BY <1>1, TickSteady, HandleInforms DEF WatcherTick, Tick
<1> QED BY <1>2, <1>3, <1>4, <1>5, <1>6, <1>7, <1>8, <1>9

\* Idleness is reported from a time that the heartbeat has seen.
LEMMA IdleDated ==
  ASSUME TInv, Informed, sent'.idleSince # 0
  PROVE  /\ sent'.idleSince \in 1 .. now
         /\ Orderly => sent'.idleSince <= lastTick \/ now <= lastTick + 1
<1>1. /\ Fresh(watcher, now, lastTick) /\ (Orderly => AgentSilent(watcher, now, lastTick))
      /\ FallsIdle(watcher, sent', now, lastTick)
  BY DEF TInv, Observing, Informed, Answers
<1>2. /\ SeenBy(watcher.lastManual, now, lastTick) /\ SeenBy(watcher.lastActivity, now, lastTick)
      /\ watcher.lastAi \in Nat /\ Cooldown \in Nat /\ IdleLimit \in Nat
  BY <1>1, WatcherAssumption DEF Fresh, Watchers, Times
<1>3. now \in Nat /\ lastTick \in Nat /\ now > 0 /\ lastTick <= now
  BY NowIs
<1> DEFINE since == sent'.idleSince
<1>4. CASE watcher.mode = "manual" /\ IdleLimit > 0 /\ now - watcher.lastManual >= IdleLimit
           /\ since = watcher.lastManual
  BY <1>2, <1>3, <1>4 DEF SeenBy, TrackingStart
<1>5. CASE watcher.mode = "ai" /\ watcher.lock = None /\ now - watcher.lastAi >= Cooldown
           /\ since = watcher.lastActivity
  <2>1. since \in 1 .. now
    BY <1>2, <1>3, <1>5 DEF SeenBy, TrackingStart
  <2>2. ASSUME Orderly PROVE since <= lastTick \/ now <= lastTick + 1
    <3>1. ~(watcher.lastActivity = now /\ now > lastTick + 1)
      BY <1>1, <1>2, <1>3, <1>5, <2>2 DEF AgentSilent
    <3> QED BY <1>2, <1>3, <1>5, <3>1 DEF SeenBy, TrackingStart
  <2> QED BY <2>1, <2>2
<1> QED BY <1>1, <1>4, <1>5 DEF FallsIdle

\* The listener's calls of the engine, with what they do to the session.
LEMMA ListenerCalls ==
  ASSUME TInv, Informed
  PROVE  /\ Sound(ModeChanged(timer), now) /\ Same(timer, ModeChanged(timer))
         /\ ActivityResumes => /\ Sound(timer', now) /\ timer'.running /\ timer'.sessionStart = now
                               /\ timer'.sessions = timer.sessions /\ timer'.total = timer.total
         /\ ActivityGoesOn => Sound(timer', now) /\ Same(timer, timer')
         /\ IdlenessPauses => /\ Sound(timer', now)
                              /\ ~timer.running => timer' = timer
                              /\ timer.running => ~timer'.running /\ Gains(timer, timer', sent'.idleSince)
         /\ NothingToDo => Sound(timer', now) /\ Same(timer, timer')
<1>1. now \in Nat /\ now > 0 /\ Sound(timer, now) /\ timer \in Timers
  BY NowIs DEF TInv, Sound
<1> DEFINE t == ModeChanged(timer)
<1>2. Sound(t, now) /\ Same(timer, t) /\ t \in Timers
  <2>1. CASE sent'.modeChange \in Modes
    <3>1. t = Switched(timer, sent'.modeChange, now)
      BY <2>1 DEF ModeChanged
    <3> HIDE DEF t
    <3>2. Sound(t, now)
      BY <1>1, <2>1, <3>1, SoundCalls
    <3> QED BY <1>1, <3>1, <3>2, SwitchedSame DEF Sound
  <2>2. CASE sent'.modeChange \notin Modes
    BY <1>1, <2>2 DEF ModeChanged, Same
  <2> QED BY <2>1, <2>2
<1>3. sent'.activity # None => sent'.activity \in Modes
  BY DEF Informed, Answers, Reports
<1>4. ASSUME ActivityResumes
      PROVE  /\ Sound(timer', now) /\ timer'.running /\ timer'.sessionStart = now
             /\ timer'.sessions = timer.sessions /\ timer'.total = timer.total
  <2>1. timer' = ResumedAt(t, now)
    BY <1>4 DEF ActivityResumes
  <2> HIDE DEF t
  <2>2. t.idleStart <= now
    BY <1>2 DEF Sound
  <2>3. /\ timer'.running /\ timer'.sessionStart = now
        /\ timer'.sessions = t.sessions /\ timer'.total = t.total
    BY <1>1, <1>2, <2>1, <2>2, ResumedStarts
  <2> QED BY <1>1, <1>2, <2>1, <2>3, SoundCalls DEF Same
<1>5. ASSUME ActivityGoesOn PROVE Sound(timer', now) /\ Same(timer, timer')
  <2>1. timer' = Switched(t, sent'.activity, now) /\ sent'.activity \in Modes
    BY <1>3, <1>5 DEF ActivityGoesOn
  <2> HIDE DEF t
  <2>2. Same(t, timer')
    BY <1>2, <2>1, SwitchedSame
  <2> QED BY <1>1, <1>2, <2>1, <2>2, SoundCalls DEF Same
<1>6. ASSUME IdlenessPauses
      PROVE  /\ Sound(timer', now)
             /\ ~timer.running => timer' = timer
             /\ timer.running => ~timer'.running /\ Gains(timer, timer', sent'.idleSince)
  <2>1. timer' = PausedAt(timer, sent'.idleSince) /\ sent'.idleSince \in 1 .. now
    BY <1>6, IdleDated DEF IdlenessPauses
  <2>2. Sound(timer', now)
    BY <1>1, <2>1, SoundCalls
  <2>3. ~timer.running => timer' = timer
    BY <2>1 DEF PausedAt
  <2>4. timer.running => ~timer'.running /\ Gains(timer, timer', sent'.idleSince)
    BY <1>1, <2>1, PausedGains DEF Sound
  <2> QED BY <2>2, <2>3, <2>4
<1>7. ASSUME NothingToDo PROVE Sound(timer', now) /\ Same(timer, timer')
  BY <1>2, <1>7 DEF NothingToDo
<1> QED BY <1>2, <1>4, <1>5, <1>6, <1>7


-----------------------------------------------------------------------------
(* The invariant holds.                                                    *)

\* Whoever pauses has been away for longer than a save takes.
LEMMA OnePause ==
  ASSUME TInv, Informed, QuickSaves, sent'.idleSince # 0
  PROVE  pausing = 0
<1>1. /\ FallsIdle(watcher, sent', now, lastTick) /\ HeardSince /\ watcher \in Watchers
      /\ wait \in 0 .. MaxWait /\ pausing \in Nat
  BY DEF TInv, Informed, Answers, Serving, Observing, Fresh
<1>2. /\ MaxWait \in Nat /\ MaxWait < Cooldown /\ (IdleLimit = 0 \/ MaxWait < IdleLimit)
      /\ Cooldown \in Nat /\ IdleLimit \in Nat
  BY TrackingAssumption, WatcherAssumption DEF QuickSaves
<1>3. /\ now \in Nat /\ watcher.lastManual \in Nat /\ watcher.lastAi \in Nat
  BY <1>1, NowIs DEF Watchers, Times
<1>4. wait <= MaxWait /\ wait \in Nat
  BY <1>1, <1>2
<1>5. ~(watcher.mode = "manual" /\ IdleLimit > 0 /\ now - watcher.lastManual >= IdleLimit
        /\ now - watcher.lastManual <= wait)
  BY <1>2, <1>3, <1>4
<1>6. ~(now - watcher.lastAi >= Cooldown /\ now - watcher.lastAi <= wait)
  BY <1>2, <1>3, <1>4
<1> QED BY <1>1, <1>5, <1>6 DEF FallsIdle, HeardSince

LEMMA ListenerKeeps ==
  ASSUME TInv, Informed, Listener
  PROVE  TInv'
<1>1. /\ now' = now /\ lastTick' = lastTick /\ state' = state /\ wait' = wait /\ day' = day
      /\ beatDue' = beatDue /\ slept' = slept /\ tickDue' \in BOOLEAN
      /\ Answers(watcher, watcher', sent', now, lastTick)
  BY DEF Informed, Rest
<1>2. /\ mishaps \subseteq mishaps'
      /\ mishaps' \subseteq mishaps \union {"lateFlush", "pausedResuming", "reportDropped"}
  BY DEF Listener, ActivityResumes, ActivityGoesOn, IdlenessPauses, NothingToDo
<1>3. Orderly' = Orderly
  BY <1>2 DEF Orderly
<1>4. Ticking'
  BY <1>1 DEF TInv, Ticking
<1>5. Observing'
  <2>1. Fresh(watcher', now, lastTick)
    BY <1>1 DEF Answers
  <2>2. Orderly => AgentSilent(watcher', now, lastTick)
    BY DEF TInv, Observing, Informed
  <2> QED BY <1>1, <1>3, <2>1, <2>2 DEF Observing
<1>6. Serving'
  <2>1. sent'.activity # None => sent'.activity \in Modes
    BY <1>1 DEF Answers, Reports
  <2>2. pausing' \in Nat /\ resuming' \in Seq(Modes)
    BY <2>1
       DEF TInv, Serving, Listener, ActivityResumes, ActivityGoesOn, IdlenessPauses, NothingToDo
  <2>3. mishaps' \subseteq Mishaps
    BY <1>2 DEF TInv, Serving, Mishaps
  <2> QED BY <1>1, <2>2, <2>3 DEF TInv, Serving
<1>7. Sound(timer', now) /\ Today' /\ Geometry(timer', slept, now, lastTick, Orderly)
  <2>1. /\ now \in Nat /\ lastTick \in Nat /\ lastTick <= now /\ timer \in Timers /\ day <= now
        /\ Geometry(timer, slept, now, lastTick, Orderly) /\ Today
    BY NowIs DEF TInv, Sound
  <2>2. ASSUME Same(timer, timer')
        PROVE  Today' /\ Geometry(timer', slept, now, lastTick, Orderly)
    BY <1>1, <2>1, <2>2, SameGeometry DEF Today, Same
  <2>3. CASE ActivityResumes
    <3>1. /\ Sound(timer', now) /\ timer'.running /\ timer'.sessionStart = now
          /\ timer'.sessions = timer.sessions /\ timer'.total = timer.total
      BY <2>3, ListenerCalls
    <3>2. Geometry(timer', slept, now, lastTick, Orderly)
      BY <2>1, <3>1, ResumeGeometry
    <3> QED BY <1>1, <2>1, <3>1, <3>2 DEF Today
  <2>4. CASE ActivityGoesOn
    BY <2>2, <2>4, ListenerCalls
  <2>5. CASE IdlenessPauses /\ timer.running
    <3>1. /\ Sound(timer', now) /\ ~timer'.running /\ Gains(timer, timer', sent'.idleSince)
      BY <2>5, ListenerCalls
    <3>2. /\ sent'.idleSince \in 1 .. now
          /\ Orderly => sent'.idleSince <= lastTick \/ now <= lastTick + 1
      BY <2>5, IdleDated DEF IdlenessPauses
    <3>3. Geometry(timer', slept, now, lastTick, Orderly)
      BY <2>1, <2>5, <3>1, <3>2, PauseGeometry
    <3> QED BY <3>1, <3>3 DEF Today
  <2>6. CASE IdlenessPauses /\ ~timer.running
    BY <2>2, <2>6, ListenerCalls DEF Same
  <2>7. CASE NothingToDo
    BY <2>2, <2>7, ListenerCalls
  <2> QED BY <2>3, <2>4, <2>5, <2>6, <2>7 DEF Listener
<1>8. HeardSince'
  <2>1. HeardOf(watcher, watcher', now) /\ watcher' \in Watchers /\ HeardSince
    BY <1>1 DEF Answers, Fresh, TInv
  <2>2. watcher'.mode \in {"manual", "ai", "idle"}
    BY <2>1 DEF Watchers, Modes
  <2>3. pausing' > 0 => pausing > 0 \/ watcher'.mode = "idle"
    BY <1>1 DEF Answers, Listener, ActivityResumes, ActivityGoesOn, IdlenessPauses, NothingToDo
  <2>4. now - now <= wait
    BY NowIs DEF TInv, Serving
  <2> QED BY <1>1, <2>1, <2>2, <2>3, <2>4 DEF HeardSince, HeardOf
<1>9. ASSUME QuickSaves PROVE Followed'
  <2> SUFFICES ASSUME {"pauseFailed", "pausedResuming"} \intersect mishaps' = {}
               PROVE  /\ pausing' = 0 /\ resuming' = <<>> => (state = "running" <=> timer'.running)
                      /\ pausing' > 0 => pausing' = 1 /\ resuming' = <<>> /\ state = "running" /\ ~timer'.running
                      /\ resuming' # <<>> => timer'.running
    BY <1>1 DEF Followed
  <2>1. /\ pausing = 0 /\ resuming = <<>> => (state = "running" <=> timer.running)
        /\ pausing > 0 => pausing = 1 /\ resuming = <<>> /\ state = "running" /\ ~timer.running
        /\ resuming # <<>> => timer.running
    BY <1>2, <1>9 DEF TInv, Followed
  <2>2. pausing \in Nat /\ resuming \in Seq(Modes)
    BY DEF TInv, Serving
  <2>3. CASE ActivityResumes
    <3>1. timer'.running
      BY <2>3, ListenerCalls
    <3>2. resuming' # <<>>
      BY <2>2, <2>3 DEF ActivityResumes
    <3>3. pausing' = 0
      BY <2>1, <2>2, <2>3 DEF ActivityResumes
    <3> QED BY <3>1, <3>2, <3>3
  <2>4. CASE ActivityGoesOn
    BY <2>1, <2>4, ListenerCalls DEF ActivityGoesOn, Same
  <2>5. CASE IdlenessPauses
    <3>1. pausing = 0 /\ pausing' = 1
      BY <1>9, <2>5, OnePause DEF IdlenessPauses
    <3>2. resuming = <<>> /\ resuming' = <<>> /\ state = "running"
      BY <2>5 DEF IdlenessPauses
    <3>3. ~timer'.running
      BY <2>1, <2>5, <3>1, <3>2, ListenerCalls
    <3> QED BY <3>1, <3>2, <3>3
  <2>6. CASE NothingToDo
    BY <2>1, <2>6, ListenerCalls DEF NothingToDo, Same
  <2> QED BY <2>3, <2>4, <2>5, <2>6 DEF Listener
<1>10. ASSUME QuickSaves, IdleLimit # 1 PROVE Noticed'
  <2> SUFFICES ASSUME watcher'.mode = "idle", mishaps' \subseteq {"lateUnlock"}
               PROVE  pausing' > 0 \/ (state = "paused_idle" /\ resuming' = <<>>)
    BY <1>1 DEF Noticed
  <2>1. state \in {"running", "paused_idle"} /\ pausing \in Nat
    BY DEF TInv, Serving
  <2>2. CASE watcher.mode # "idle"
    <3>1. sent'.idleSince # 0 /\ sent'.activity = None
      BY <1>1, <2>2 DEF Answers, FallsIdle
    <3>2. CASE IdlenessPauses
      BY <2>1, <3>2 DEF IdlenessPauses
    <3>3. CASE NothingToDo
      BY <2>1, <3>1, <3>3 DEF NothingToDo
    <3> QED BY <3>1, <3>2, <3>3 DEF Listener, ActivityResumes, ActivityGoesOn
  <2>3. CASE watcher.mode = "idle"
    <3>1. pausing > 0 \/ (state = "paused_idle" /\ resuming = <<>>)
      BY <1>2, <1>10, <2>3 DEF TInv, Noticed
    <3>2. sent'.idleSince = 0
      BY <1>1, <2>3 DEF Answers, FallsIdle
    <3>3. ~ActivityResumes
      <4> SUFFICES ASSUME ActivityResumes PROVE FALSE
        OBVIOUS
      <4>1. PICK flush \in {"manualFlush", "aiFlush"} : watcher[flush] # 0 /\ watcher'[flush] = 0
        BY <1>1 DEF ActivityResumes, Answers
      <4>2. watcher[flush] < now /\ watcher[flush] \in Nat
        <5>1. Fresh(watcher, now, lastTick)
          BY DEF TInv, Observing
        <5>2. watcher[flush] \in {watcher.manualFlush, watcher.aiFlush}
          OBVIOUS
        <5>3. watcher.manualFlush \in Nat /\ watcher.aiFlush \in Nat
          BY <5>1, MaxTimeAssumption DEF Fresh, Watchers
        <5> QED BY <1>10, <2>3, <5>1, <5>2, <5>3 DEF Fresh
      <4>3. watcher[flush] \in 1 .. now - 1
        BY <4>1, <4>2, NowIs
      <4>4. LateFlush
        BY <4>1, <4>3 DEF LateFlush
      <4> QED BY <4>4 DEF ActivityResumes
    <3>4. ~IdlenessPauses
      BY <3>2 DEF IdlenessPauses
    <3> QED BY <3>1, <3>3, <3>4 DEF Listener, ActivityGoesOn, NothingToDo
  <2> QED BY <2>2, <2>3
<1>11. Sound(timer, now)' /\ Geometry(timer, slept, now, lastTick, Orderly)'
  BY <1>1, <1>3, <1>7
<1> QED BY <1>4, <1>5, <1>6, <1>7, <1>8, <1>9, <1>10, <1>11 DEF TInv, QuickSaves

LEMMA UnlockKeeps ==
  ASSUME TInv, LockReleased
  PROVE  TInv'
<1> DEFINE v == [watcher EXCEPT !.lock = None]
<1>1. /\ now' = now /\ lastTick' = lastTick /\ state' = state /\ wait' = wait /\ day' = day
      /\ beatDue' = beatDue /\ slept' = slept /\ tickDue' = tickDue /\ timer' = timer
      /\ pausing' = pausing /\ resuming' = resuming /\ watcher' = Unlocked(watcher).watcher
  BY DEF LockReleased, ClearModeOverride, Commanded, Handle, Rest
<1>2. /\ mishaps \subseteq mishaps' /\ mishaps' \subseteq mishaps \union {"lateUnlock"}
      /\ now - lastTick > 1 => "lateUnlock" \in mishaps'
  BY DEF LockReleased
<1>3. /\ watcher' = v /\ v.mode = watcher.mode
      /\ v.lastManual = watcher.lastManual /\ v.lastAi = watcher.lastAi
  BY <1>1 DEF Unlocked, Outcome, TInv, Observing, Fresh, Watchers
<1> HIDE DEF v
<1>4. now \in TrackingStart .. MaxTime /\ lastTick \in TrackingStart .. now
      /\ now \in Nat /\ lastTick \in Nat
  BY NowIs
<1>5. Observing'
  <2>1. /\ Answer(watcher, Unlocked(watcher), now, lastTick)
        /\ now <= lastTick + 1 => AgentSilent(watcher', now, lastTick)
    BY <1>1, <1>4, UnlockAnswer DEF TInv, Observing
  <2>2. Fresh(watcher', now, lastTick)
    BY <1>1, <2>1 DEF Answer, Answers
  <2>3. Orderly' => now <= lastTick + 1
    BY <1>2, <1>4 DEF Orderly
  <2> QED BY <1>1, <2>1, <2>2, <2>3 DEF Observing
<1>6. Ticking' /\ Serving'
  BY <1>1, <1>2 DEF TInv, Ticking, Serving, Mishaps
<1>7. Sound(timer, now)' /\ Today' /\ HeardSince'
  BY <1>1, <1>3 DEF TInv, Today, HeardSince
<1>8. Geometry(timer, slept, now, lastTick, Orderly)'
  <2>1. Orderly' => Orderly
    BY <1>2 DEF Orderly
  <2> QED BY <1>1, <2>1 DEF TInv, Geometry
<1>9. QuickSaves => Followed' /\ (IdleLimit # 1 => Noticed')
  BY <1>1, <1>2, <1>3 DEF TInv, Followed, Noticed
<1> QED BY <1>5, <1>6, <1>7, <1>8, <1>9 DEF TInv, QuickSaves

\* The answers to the calls that were awaited change neither watcher nor clock.
LEMMA Answered ==
  ASSUME TInv, UNCHANGED Unwatched, Serving', Sound(timer, now)', Same(timer, timer'),
         mishaps' \in {mishaps, mishaps \union {"pauseFailed"}},
         pausing' > 0 => pausing > 0 /\ wait' = wait,
         QuickSaves => Followed' /\ (IdleLimit # 1 => Noticed')
  PROVE  TInv'
<1>1. /\ now' = now /\ lastTick' = lastTick /\ day' = day /\ beatDue' = beatDue /\ slept' = slept
      /\ tickDue' = tickDue /\ watcher' = watcher
  BY DEF Unwatched
<1>2. Orderly' = Orderly
  BY DEF Orderly
<1>3. Ticking' /\ Observing' /\ Today' /\ HeardSince'
  BY <1>1, <1>2 DEF TInv, Ticking, Observing, Today, HeardSince, Same
<1>4. Geometry(timer, slept, now, lastTick, Orderly)'
  <2>1. Geometry(timer', slept, now, lastTick, Orderly)
    BY SameGeometry DEF TInv, Sound
  <2> QED BY <1>1, <1>2, <2>1
<1> QED BY <1>3, <1>4 DEF TInv, QuickSaves

LEMMA InFlightIs ==
  ASSUME TInv, wait' = IF InFlight = 1 THEN 0 ELSE wait
  PROVE  /\ wait' \in 0 .. MaxWait
         /\ pausing > 1 \/ (pausing > 0 /\ resuming # <<>>) => wait' = wait
<1>1. /\ pausing \in Nat /\ resuming \in Seq(Modes) /\ wait \in 0 .. MaxWait /\ MaxWait \in Nat
  BY TrackingAssumption DEF TInv, Serving
<1>2. Len(resuming) \in Nat /\ (Len(resuming) = 0 <=> resuming = <<>>)
  BY <1>1, EmptyIs
<1>3. pausing > 1 \/ (pausing > 0 /\ resuming # <<>>) => InFlight # 1
  BY <1>1, <1>2 DEF InFlight
<1> QED BY <1>1, <1>3

LEMMA PauseCompletesKeeps ==
  ASSUME TInv, PauseCompletes
  PROVE  TInv'
<1>1. /\ pausing > 0 /\ pausing' = pausing - 1 /\ state' = "paused_idle" /\ timer' = timer
      /\ resuming' = resuming /\ mishaps' = mishaps /\ UNCHANGED Unwatched
      /\ wait' = IF InFlight = 1 THEN 0 ELSE wait
  BY DEF PauseCompletes
<1>2. pausing \in Nat /\ pausing - 1 \in Nat
  BY <1>1 DEF TInv, Serving
<1>3. wait' \in 0 .. MaxWait /\ (pausing' > 0 => wait' = wait)
  BY <1>1, <1>2, InFlightIs
<1>4. Serving' /\ Same(timer, timer')
  BY <1>1, <1>2, <1>3 DEF TInv, Serving, Same
<1>5. Sound(timer, now)'
  BY <1>1 DEF TInv, Unwatched
<1>6. ASSUME QuickSaves PROVE Followed' /\ (IdleLimit # 1 => Noticed')
  <2>1. {"pauseFailed", "pausedResuming"} \intersect mishaps = {} =>
          pausing = 1 /\ resuming = <<>> /\ ~timer.running
    BY <1>1, <1>6 DEF TInv, Followed
  <2>2. Followed'
    BY <1>1, <2>1 DEF Followed
  <2>3. Noticed'
    BY <1>1, <2>1 DEF Noticed
  <2> QED BY <2>2, <2>3
<1> QED BY <1>1, <1>2, <1>3, <1>4, <1>5, <1>6, Answered

LEMMA PauseFailsKeeps ==
  ASSUME TInv, PauseFails
  PROVE  TInv'
<1>1. /\ pausing > 0 /\ pausing' = pausing - 1 /\ state' = state /\ timer' = timer
      /\ resuming' = resuming /\ mishaps' = mishaps \union {"pauseFailed"} /\ UNCHANGED Unwatched
      /\ wait' = IF InFlight = 1 THEN 0 ELSE wait
  BY DEF PauseFails
<1>2. pausing \in Nat /\ pausing - 1 \in Nat
  BY <1>1 DEF TInv, Serving
<1>3. wait' \in 0 .. MaxWait /\ (pausing' > 0 => wait' = wait)
  BY <1>1, <1>2, InFlightIs
<1>4. Serving' /\ Same(timer, timer')
  BY <1>1, <1>2, <1>3 DEF TInv, Serving, Same, Mishaps
<1>5. Sound(timer, now)'
  BY <1>1 DEF TInv, Unwatched
<1>6. Followed' /\ Noticed'
  BY <1>1 DEF Followed, Noticed
<1> QED BY <1>1, <1>2, <1>3, <1>4, <1>5, <1>6, Answered

LEMMA ResumeCompletesKeeps ==
  ASSUME TInv, ResumeCompletes
  PROVE  TInv'
<1>1. PICK i \in DOMAIN resuming :
        /\ timer' = Switched(timer, resuming[i], now)
        /\ resuming' = RemoveAt(resuming, i)
  BY DEF ResumeCompletes
<1>2. /\ pausing' = pausing /\ state' = "running" /\ mishaps' = mishaps /\ UNCHANGED Unwatched
      /\ wait' = IF InFlight = 1 THEN 0 ELSE wait
  BY DEF ResumeCompletes
<1>3. /\ pausing \in Nat /\ resuming \in Seq(Modes) /\ i \in 1 .. Len(resuming)
      /\ Len(resuming) \in Nat
  BY <1>1 DEF TInv, Serving
<1>4. resuming # <<>> /\ resuming[i] \in Modes
  BY <1>3
<1>5. wait' \in 0 .. MaxWait /\ (pausing' > 0 => wait' = wait)
  BY <1>2, <1>3, <1>4, InFlightIs
<1>6. resuming' \in Seq(Modes)
  <2>1. SubSeq(resuming, 1, i - 1) \in Seq(Modes)
    BY <1>3
  <2>2. SubSeq(resuming, i + 1, Len(resuming)) \in Seq(Modes)
    BY <1>3
  <2> QED BY <1>1, <2>1, <2>2 DEF RemoveAt
<1>7. Serving'
  BY <1>2, <1>3, <1>5, <1>6 DEF TInv, Serving
<1>8. Sound(timer, now)' /\ Same(timer, timer')
  <2>1. now \in Nat /\ now > 0 /\ Sound(timer, now) /\ now' = now
    BY <1>2, NowIs DEF TInv, Unwatched
  <2>2. Sound(timer', now)
    BY <1>1, <1>4, <2>1, SoundCalls
  <2> QED BY <1>1, <2>1, <2>2, SwitchedSame DEF Sound
<1>9. ASSUME QuickSaves PROVE Followed' /\ (IdleLimit # 1 => Noticed')
  <2>1. {"pauseFailed", "pausedResuming"} \intersect mishaps = {} => pausing = 0 /\ timer.running
    BY <1>3, <1>4, <1>9 DEF TInv, Followed
  <2>2. Followed'
    BY <1>2, <1>8, <2>1 DEF Followed, Same
  <2>3. ASSUME IdleLimit # 1 PROVE Noticed'
    <3>1. ~(watcher.mode = "idle" /\ mishaps \subseteq {"lateUnlock"})
      BY <1>4, <1>9, <2>1, <2>3 DEF TInv, Noticed
    <3> QED BY <1>2, <3>1 DEF Noticed, Unwatched
  <2> QED BY <2>2, <2>3
<1> QED BY <1>2, <1>5, <1>7, <1>8, <1>9, Answered

\* What was right before a heartbeat is right after it.
LEMMA BeatGeometry ==
  ASSUME NEW t \in Timers, NEW S, NEW at \in Nat, NEW last \in Nat, last <= at,
         NEW orderly, Geometry(t, S, at, last, orderly)
  PROVE  Geometry(t, S, at, at, orderly)
<1>1. \A w \in t.sessions : w.start \in Nat /\ w.end \in Nat /\ w.start < w.end /\ w.end <= at
  BY DEF Geometry, Recorded, Timers, Intervals
<1>2. \A w \in t.sessions : w.start <= at
  BY <1>1
<1>3. t.running => SeenBy(t.sessionStart, at, at)
  BY DEF Geometry, Recorded, SeenBy, TrackingStart
<1>4. \A s \in S : s.end <= at
  <2> TAKE s \in S
  <2>1. s.end \in Nat /\ s.end <= last
    BY DEF Geometry, Slept, Intervals
  <2> QED BY <2>1
<1>5. Recorded(t, at, at)
  BY <1>1, <1>2, <1>3 DEF Geometry, Recorded
<1>6. orderly => Ordered(t, at, at) /\ SleptApart(S, t)
  BY <1>1 DEF Geometry, Ordered
<1>7. Slept(S, t, at)
  BY <1>4 DEF Geometry, Slept
<1> QED BY <1>5, <1>6, <1>7 DEF Geometry

\* What a heartbeat makes of the timer, and of the sleeps.
LEMMA BeatCuts ==
  ASSUME TInv, WakeUp \/ Beat
  PROVE  /\ Sound(timer', now) /\ timer'.running = timer.running
         /\ timer'.running => Day(now) <= timer'.sessionStart
         /\ Geometry(timer', slept', now, now, Orderly)
<1>1. /\ now \in Nat /\ lastTick \in Nat /\ lastTick <= now /\ lastTick > 0 /\ now > 0
      /\ lastTick >= TrackingStart
  BY NowIs DEF TrackingStart
<1>2. /\ timer \in Timers /\ Filled(timer, now) /\ Sound(timer, now)
      /\ Geometry(timer, slept, now, lastTick, Orderly)
  BY DEF TInv, Sound
<1>3. /\ Day(now) \in Nat /\ Day(now) <= now /\ day = Day(lastTick)
      /\ Day(now) # day => lastTick < Day(now)
  BY <1>1, DayIs, DayGrows DEF TInv, Ticking
<1>4. ASSUME NEW boundary \in 1 .. now, NEW resume \in boundary .. now, lastTick < resume,
             resume = now \/ resume = boundary, Day(now) <= resume,
             timer' = CutAt(timer, boundary, resume)
      PROVE  /\ Sound(timer', now) /\ timer'.running = timer.running
             /\ timer'.running => Day(now) <= timer'.sessionStart
             /\ Geometry(timer', slept, now, now, Orderly)
             /\ \/ ~timer.running /\ timer' = timer
                \/ timer.running /\ timer'.running /\ timer'.sessionStart = resume /\ Gains(timer, timer', boundary)
  <2>1. Sound(timer', now)
    BY <1>1, <1>2, <1>4, SoundCalls
  <2>2. resume \in Nat
    BY <1>4
  <2>3. \/ ~timer.running /\ timer' = timer
        \/ timer.running /\ timer'.running /\ timer'.sessionStart = resume /\ Gains(timer, timer', boundary)
    <3>1. CASE timer.running
      BY <1>1, <1>2, <1>4, <2>2, <3>1, CutGains
    <3>2. CASE ~timer.running
      BY <1>4, <3>2 DEF CutAt
    <3> QED BY <3>1, <3>2
  <2>4. Geometry(timer', slept, now, now, Orderly)
    BY <1>1, <1>2, <1>4, <2>3, CutGeometry
  <2>5. timer'.running = timer.running
    BY <1>2, <2>1, <2>3 DEF Sound, Timers
  <2>6. timer'.running => Day(now) <= timer'.sessionStart
    BY <1>4, <2>3, <2>5
  <2> QED BY <2>1, <2>3, <2>4, <2>5, <2>6
<1>5. CASE WakeUp
  <2>1. /\ timer' = CutAt(timer, lastTick, now) /\ now - lastTick > SleepGap
        /\ slept' = slept \union {[start |-> lastTick, end |-> now]}
    BY <1>5 DEF WakeUp, Awoken
  <2>2. lastTick + 1 < now /\ lastTick < now /\ lastTick \in 1 .. now /\ now \in lastTick .. now
    BY <1>1, <2>1, TrackingAssumption
  <2>3. /\ Sound(timer', now) /\ timer'.running = timer.running
        /\ timer'.running => Day(now) <= timer'.sessionStart
        /\ Geometry(timer', slept, now, now, Orderly)
        /\ \/ ~timer.running /\ timer' = timer
           \/ timer.running /\ timer'.running /\ timer'.sessionStart = now /\ Gains(timer, timer', lastTick)
    BY <1>3, <1>4, <2>1, <2>2
  <2>4. timer' \in Timers
    BY <2>3 DEF Sound
  <2>5. Geometry(timer', slept', now, now, Orderly)
    BY <1>1, <1>2, <2>1, <2>2, <2>3, <2>4, SleepGeometry
  <2> QED BY <2>3, <2>5
<1>6. CASE Beat /\ Day(now) # day
  <2>1. timer' = CutAt(timer, Day(now), Day(now)) /\ slept' = slept
    BY <1>6 DEF Beat, Rotated
  <2>2. /\ Day(now) \in 1 .. now /\ Day(now) \in Day(now) .. now
        /\ lastTick < Day(now) /\ Day(now) <= Day(now)
    BY <1>1, <1>3, <1>6
  <2> QED BY <1>4, <2>1, <2>2
<1>7. CASE Beat /\ Day(now) = day
  <2>1. timer' = timer /\ slept' = slept
    BY <1>7 DEF Beat
  <2>2. timer'.running => Day(now) <= timer'.sessionStart
    BY <1>7, <2>1 DEF TInv, Today
  <2> QED BY <1>1, <1>2, <2>1, <2>2, BeatGeometry
<1> QED BY <1>5, <1>6, <1>7

LEMMA HeartbeatKeeps ==
  ASSUME TInv, Heartbeat
  PROVE  TInv'
<1>1. /\ now' = now /\ lastTick' = now /\ beatDue' = FALSE /\ day' = Day(now) /\ (WakeUp \/ Beat)
      /\ watcher' = watcher /\ tickDue' = tickDue /\ state' = state /\ pausing' = pausing
      /\ resuming' = resuming /\ wait' = wait /\ mishaps' = mishaps
  BY DEF Heartbeat, DayAfter
<1>2. now \in TrackingStart .. MaxTime /\ now \in Nat /\ lastTick \in Nat /\ lastTick <= now
  BY NowIs
<1>3. Ticking'
  <2>1. now' \in TrackingStart .. MaxTime /\ lastTick' \in TrackingStart .. now'
    BY <1>1, <1>2 DEF TrackingStart
  <2>2. day' = Day(lastTick')
    BY <1>1
  <2>3. tickDue' \in BOOLEAN /\ beatDue' \in BOOLEAN /\ (~beatDue' => lastTick' = now')
    BY <1>1 DEF TInv, Ticking
  <2> QED BY <2>1, <2>2, <2>3 DEF Ticking
<1>4. Observing'
  <2>1. SeenBy(watcher.lastActivity, now, now) /\ SeenBy(watcher.lastManual, now, now)
    BY <1>2 DEF TInv, Observing, Fresh, SeenBy, TrackingStart
  <2>2. Fresh(watcher, now, now)
    BY <2>1 DEF TInv, Observing, Fresh
  <2>3. AgentSilent(watcher, now, now)
    BY <1>2 DEF AgentSilent
  <2> QED BY <1>1, <2>2, <2>3 DEF Observing
<1>5. Serving' /\ HeardSince'
  BY <1>1 DEF TInv, Serving, HeardSince
<1>6. /\ Sound(timer, now)' /\ Today'
      /\ Geometry(timer, slept, now, lastTick, Orderly)' /\ timer'.running = timer.running
  <2>1. Orderly' = Orderly
    BY <1>1 DEF Orderly
  <2> QED BY <1>1, <2>1, BeatCuts DEF Today
<1>7. QuickSaves => Followed' /\ (IdleLimit # 1 => Noticed')
  BY <1>1, <1>6 DEF TInv, Followed, Noticed
<1> QED BY <1>3, <1>4, <1>5, <1>6, <1>7 DEF TInv, QuickSaves

LEMMA ClockKeeps ==
  ASSUME TInv, AdvanceClock
  PROVE  TInv'
<1>1. PICK d \in Steps : now + d <= MaxTime /\ now' = now + d
  BY DEF AdvanceClock, ClockAdvances
<1>2. /\ ~beatDue /\ beatDue' = TRUE /\ tickDue' = TRUE /\ watcher' = watcher /\ timer' = timer
      /\ state' = state /\ pausing' = pausing /\ resuming' = resuming /\ lastTick' = lastTick
      /\ day' = day /\ slept' = slept /\ mishaps' = mishaps
      /\ wait' = (IF InFlight = 0 THEN 0 ELSE wait + (now' - now)) /\ wait' <= MaxWait
  BY DEF AdvanceClock, ClockAdvances
<1>3. /\ now \in Nat /\ now' \in Nat /\ now < now' /\ d \in Nat /\ lastTick = now /\ now >= TrackingStart
      /\ now' \in TrackingStart .. MaxTime /\ now \in TrackingStart .. now'
  BY <1>1, <1>2, NowIs, TrackingAssumption, WatcherAssumption, MaxTimeAssumption DEF TInv, Ticking, TrackingStart
<1>4. wait \in Nat /\ pausing \in Nat /\ Len(resuming) \in Nat /\ wait' \in 0 .. MaxWait
      /\ (pausing > 0 => wait' = wait + (now' - now))
  <2>1. wait \in Nat /\ pausing \in Nat /\ Len(resuming) \in Nat
    BY EmptyIs, TrackingAssumption DEF TInv, Serving
  <2>2. wait + (now' - now) \in Nat
    <3>1. \A sooner, later, waited \in Nat : sooner < later => waited + (later - sooner) \in Nat
      OBVIOUS
    <3> QED BY <1>3, <2>1, <3>1
  <2>3. pausing > 0 => InFlight # 0
    BY <2>1 DEF InFlight
  <2>4. wait' \in Nat /\ (pausing > 0 => wait' = wait + (now' - now))
    BY <1>2, <2>2, <2>3
  <2> QED BY <1>2, <2>1, <2>4, TrackingAssumption, WatcherAssumption
<1>5. Ticking'
  BY <1>2, <1>3 DEF TInv, Ticking
<1>6. watcher \in Watchers /\ watcher.lastManual \in Nat /\ watcher.lastAi \in Nat
      /\ watcher.manualFlush \in Nat /\ watcher.aiFlush \in Nat /\ watcher.lastActivity \in Nat
  BY DEF TInv, Observing, Fresh, Watchers, Times
<1>7. Observing'
  <2>1. SeenBy(watcher.lastActivity, now', now) /\ SeenBy(watcher.lastManual, now', now)
    BY <1>3 DEF TInv, Observing, Fresh, SeenBy, TrackingStart
  <2>2. watcher.lastAi <= now'
    BY <1>3, <1>6 DEF TInv, Observing, Fresh
  <2>3. ASSUME NEW flush \in {watcher.manualFlush, watcher.aiFlush}
        PROVE  /\ flush <= now' + 1
               /\ watcher.mode = "manual" => flush <= watcher.lastManual + 1
               /\ watcher.mode = "ai" => flush <= watcher.lastAi + 1
               /\ watcher.mode = "idle" /\ IdleLimit # 1 => flush < now'
    BY <1>3, <1>6 DEF TInv, Observing, Fresh
  <2>4. Fresh(watcher, now', now)
    BY <1>6, <2>1, <2>2, <2>3 DEF TInv, Observing, Fresh
  <2>5. watcher.lastActivity # now'
    BY <1>3, <1>6 DEF TInv, Observing, Fresh, SeenBy, TrackingStart
  <2>6. AgentSilent(watcher, now', now)
    BY <2>5 DEF AgentSilent
  <2> QED BY <1>2, <1>3, <2>4, <2>6 DEF Observing
<1>8. Serving'
  BY <1>2, <1>4 DEF TInv, Serving
<1>9. Sound(timer, now)' /\ Today'
  <2>1. timer.segmentStart \in Nat /\ timer.idleStart \in Nat
    BY DEF TInv, Sound, Timers
  <2> QED BY <1>2, <1>3, <2>1 DEF TInv, Sound, Filled, Today
<1>10. Geometry(timer, slept, now, lastTick, Orderly)'
  <2>1. Orderly' = Orderly
    BY <1>2 DEF Orderly
  <2>2. timer \in Timers /\ Geometry(timer, slept, now, now, Orderly)
    BY <1>3 DEF TInv, Sound
  <2>3. Geometry(timer, slept, now', now, Orderly)
    BY <1>3, <2>2, ClockGeometry
  <2> QED BY <1>2, <1>3, <2>1, <2>3
<1>11. HeardSince'
  <2>1. \A at, sooner, later, waited \in Nat :
          sooner - at <= waited => later - at <= waited + (later - sooner)
    OBVIOUS
  <2>2. /\ now - watcher.lastManual <= wait => now' - watcher.lastManual <= wait + (now' - now)
        /\ now - watcher.lastAi <= wait => now' - watcher.lastAi <= wait + (now' - now)
    BY <1>3, <1>4, <1>6, <2>1
  <2> QED BY <1>2, <1>4, <2>2 DEF TInv, HeardSince
<1>12. QuickSaves => Followed' /\ (IdleLimit # 1 => Noticed')
  BY <1>2 DEF TInv, Followed, Noticed
<1> QED BY <1>5, <1>7, <1>8, <1>9, <1>10, <1>11, <1>12 DEF TInv, QuickSaves

LEMMA TrackingInit == Init => TInv
<1> SUFFICES ASSUME Init PROVE TInv
  OBVIOUS
<1> DEFINE w == NewWatcher(2)
<1>1. /\ now = 2 /\ lastTick = 2 /\ watcher = w /\ tickDue = FALSE /\ beatDue = FALSE /\ day = Day(2)
      /\ timer = Started(NewTimer, 2) /\ state = "running" /\ pausing = 0
      /\ resuming = <<>> /\ wait = 0 /\ slept = {} /\ mishaps = {}
  BY DEF Init, TrackingStart
<1>2. MaxTime \in Nat /\ MaxTime >= 2 /\ MaxWait \in Nat
  BY TrackingAssumption, WatcherAssumption, MaxTimeAssumption
<1>3. Ticking
  <2>1. now \in TrackingStart .. MaxTime /\ lastTick \in TrackingStart .. now
    BY <1>1, <1>2 DEF TrackingStart
  <2>2. day = Day(lastTick) /\ tickDue \in BOOLEAN /\ beatDue \in BOOLEAN /\ lastTick = now
    BY <1>1
  <2> QED BY <2>1, <2>2 DEF Ticking
<1>4. Observing
  <2>1. /\ w.mode = "manual" /\ w.lock = None /\ w.lastActivity = 2 /\ w.lastManual = 2
        /\ w.lastAi = 0 /\ w.manualFlush = 0 /\ w.aiFlush = 0 /\ w \in Watchers
    BY <1>2 DEF NewWatcher, Watchers, Modes, Times
  <2> HIDE DEF w
  <2>2. Fresh(w, 2, 2)
    BY <2>1 DEF Fresh, SeenBy, TrackingStart
  <2>3. AgentSilent(w, 2, 2)
    BY <2>1 DEF AgentSilent
  <2> QED BY <1>1, <2>2, <2>3 DEF Observing
<1>5. Serving
  BY <1>1, <1>2 DEF Serving, Mishaps
<1>6. /\ NewTimer \in Timers /\ ~NewTimer.running /\ NewTimer.idleStart = 0
      /\ NewTimer.sessions = {} /\ NewTimer.total = 0
  BY DEF NewTimer, Timers, Modes
<1>7. Sound(timer, 2)
  <2>1. GoodStep(NewTimer, timer, 2)
    BY <1>1, <1>6, StartedLemma DEF Filled
  <2> QED BY <2>1 DEF GoodStep, Sound
<1>8. timer.running /\ timer.sessionStart = 2 /\ timer.sessions = {} /\ timer.total = 0
  BY <1>1, <1>6 DEF Started, PointersReset, Timers
<1>9. Today
  <2>1. Day(2) <= 2
    BY DayIs
  <2> QED BY <1>1, <1>8, <2>1 DEF Today
<1>10. Geometry(timer, slept, now, lastTick, Orderly)
  BY <1>1, <1>8, SumOfNone DEF Geometry, Recorded, SeenBy, TrackingStart, Ordered, Slept, SleptApart
<1>11. HeardSince
  BY <1>1 DEF HeardSince
<1>12. Followed /\ Noticed
  <2>1. w.mode # "idle"
    BY DEF NewWatcher
  <2> QED BY <1>1, <1>8, <2>1 DEF Followed, Noticed
<1> QED BY <1>1, <1>3, <1>4, <1>5, <1>7, <1>9, <1>10, <1>11, <1>12 DEF TInv

LEMMA TrackingStep ==
  ASSUME TInv, [Next]_vars
  PROVE  TInv'
<1>1. CASE AdvanceClock
  BY <1>1, ClockKeeps
<1>2. CASE \/ ManualActivityHeard \/ SignalHeard \/ PassiveHeard \/ TriggerHeard
           \/ LockHeard \/ FlushManualHeard \/ FlushAiHeard \/ WatcherTick
  BY <1>2, WatcherInforms, ListenerKeeps
<1>3. CASE LockReleased
  BY <1>3, UnlockKeeps
<1>4. CASE Heartbeat
  BY <1>4, HeartbeatKeeps
<1>5. CASE PauseCompletes
  BY <1>5, PauseCompletesKeeps
<1>6. CASE PauseFails
  BY <1>6, PauseFailsKeeps
<1>7. CASE ResumeCompletes
  BY <1>7, ResumeCompletesKeeps
<1>8. CASE UNCHANGED vars
  <2>1. /\ now' = now /\ lastTick' = lastTick /\ day' = day /\ beatDue' = beatDue /\ slept' = slept
        /\ tickDue' = tickDue /\ watcher' = watcher /\ timer' = timer /\ state' = state
        /\ pausing' = pausing /\ resuming' = resuming /\ wait' = wait /\ mishaps' = mishaps
    BY <1>8 DEF vars
  <2>2. Orderly' = Orderly
    BY <2>1 DEF Orderly
  <2>3. Ticking' /\ Observing' /\ Serving' /\ Today' /\ HeardSince'
    BY <2>1, <2>2 DEF TInv, Ticking, Observing, Serving, Today, HeardSince
  <2>4. Sound(timer, now)' /\ Geometry(timer, slept, now, lastTick, Orderly)'
    BY <2>1, <2>2 DEF TInv
  <2>5. QuickSaves => Followed' /\ (IdleLimit # 1 => Noticed')
    BY <2>1 DEF TInv, Followed, Noticed
  <2> QED BY <2>3, <2>4, <2>5 DEF TInv, QuickSaves
<1> QED BY <1>1, <1>2, <1>3, <1>4, <1>5, <1>6, <1>7, <1>8 DEF Next

\* The invariant of a running session: what its parts claim is above.
THEOREM TrackingInvariance == Spec => []TInv
<1>1. Init => TInv
  BY TrackingInit
<1>2. TInv /\ [Next]_vars => TInv'
  BY TrackingStep
<1> QED BY <1>1, <1>2, PTL DEF Spec

\* The state of a running session keeps its types, and the heartbeat is never
\* ahead of the clock.
THEOREM TrackingTyped == Spec => []TypeOK
<1>1. TInv => TypeOK
  <2> SUFFICES ASSUME TInv PROVE TypeOK
    OBVIOUS
  <2>1. day \in {0} \union Midnights
    BY NowIs, DayIs DEF TInv, Ticking
  <2>2. watcher \in Watchers /\ timer \in Timers
    BY DEF TInv, Observing, Fresh, Sound
  <2>3. slept \subseteq Intervals
    BY DEF TInv, Geometry, Slept
  <2> QED BY <2>1, <2>2, <2>3 DEF TInv, Ticking, Serving, Mishaps, TypeOK
<1> QED BY <1>1, TrackingInvariance, PTL

\* After each heartbeat the running session lies in the current day: no pause,
\* resume or sleep over a midnight leaves one that the rotation missed
\* (checkMidnightRotation, handleSystemResume).
THEOREM SessionsStartToday == Spec => []SessionStartsToday
<1>1. TInv => SessionStartsToday
  <2> SUFFICES ASSUME TInv, timer.running, ~beatDue
               PROVE  Day(timer.sessionStart) = Day(now) /\ day = Day(now)
    BY DEF SessionStartsToday
  <2>1. now \in Nat /\ day \in Nat /\ day <= now /\ day = Day(now)
    BY NowIs DEF TInv, Ticking
  <2>2. timer.sessionStart \in day .. now
    <3>1. timer.sessionStart \in Nat /\ timer.segmentStart \in Nat
      BY DEF TInv, Sound, Timers
    <3> QED BY <2>1, <3>1 DEF TInv, Sound, Filled, Today
  <2>3. Day(day) = Day(now)
    BY <2>1, DayGrows
  <2>4. Day(timer.sessionStart) = Day(now)
    BY <2>1, <2>2, <2>3, DayGrows
  <2> QED BY <2>1, <2>4
<1> QED BY <1>1, TrackingInvariance, PTL

\* Where saves are quick, the orchestrator's state follows the engine through
\* every order of pauses and resumes (handleIdlePause, handleIdleResume).
THEOREM StateFollows == ASSUME QuickSaves PROVE Spec => []StateFollowsEngine
<1>1. TInv => StateFollowsEngine
  <2> SUFFICES ASSUME TInv, InFlight = 0, {"pauseFailed", "pausedResuming"} \intersect mishaps = {}
               PROVE  state = "running" <=> timer.running
    BY DEF StateFollowsEngine
  <2>1. pausing \in Nat /\ Len(resuming) \in Nat /\ (Len(resuming) = 0 <=> resuming = <<>>)
    BY EmptyIs DEF TInv, Serving
  <2>2. pausing = 0 /\ resuming = <<>>
    BY <2>1 DEF InFlight
  <2> QED BY <2>2 DEF TInv, Followed
<1> QED BY <1>1, TrackingInvariance, PTL

\* Where saves are quick, an idle watcher ends the counting, but for the mishaps
\* that are named.
THEOREM IdlenessNoticed ==
  ASSUME QuickSaves, IdleLimit # 1
  PROVE  Spec => []IdlenessIsNoticed
<1>1. TInv => IdlenessIsNoticed
  <2> SUFFICES ASSUME TInv, InFlight = 0, watcher.mode = "idle", mishaps \subseteq {"lateUnlock"}
               PROVE  state = "paused_idle"
    BY DEF IdlenessIsNoticed
  <2>1. pausing \in Nat /\ Len(resuming) \in Nat
    BY EmptyIs DEF TInv, Serving
  <2>2. pausing = 0
    BY <2>1 DEF InFlight
  <2> QED BY <2>2 DEF TInv, Noticed
<1> QED BY <1>1, TrackingInvariance, PTL

\* What is worked is a set of intervals, those recorded and the open one.
LEMMA WorkedIs ==
  ASSUME TInv, NEW w \in Worked
  PROVE  /\ w.start \in Nat /\ w.end \in Nat /\ w.start <= w.end
         /\ w \in timer.sessions \/ (timer.running /\ w = OpenSession)
<1>1. /\ timer.sessions \subseteq Intervals /\ timer.sessionStart \in Nat
      /\ timer.segmentStart \in Nat
  BY DEF TInv, Sound, Timers
<1>2. CASE w \in timer.sessions
  BY <1>1, <1>2 DEF TInv, Geometry, Recorded, Intervals
<1>3. CASE timer.running /\ w = OpenSession
  <2>1. timer.sessionStart <= now
    BY <1>1, <1>3, NowIs DEF TInv, Sound, Filled
  <2> QED BY <1>1, <1>3, <2>1, NowIs DEF OpenSession
<1> QED BY <1>2, <1>3 DEF Worked

\* No time asleep is worked, whichever of the watcher, the heartbeat and the user
\* comes first after it (checkSystemResume, handleSystemResume).
THEOREM SleepNotWorked == Spec => []SleepIsNotWorked
<1>1. TInv => SleepIsNotWorked
  <2> SUFFICES ASSUME TInv, Orderly, NEW s \in slept, NEW w \in Worked
               PROVE  ~Overlap(s, w)
    BY DEF SleepIsNotWorked, Orderly
  <2>1. /\ w.start \in Nat /\ w.end \in Nat /\ s.start \in Nat /\ s.end \in Nat
    BY WorkedIs DEF TInv, Geometry, Slept, Intervals
  <2>2. Apart(s, w)
    <3>1. CASE w \in timer.sessions
      BY <3>1 DEF TInv, Geometry, SleptApart
    <3>2. CASE timer.running /\ w = OpenSession
      BY <3>2 DEF TInv, Geometry, Slept, Apart, OpenSession
    <3> QED BY <3>1, <3>2, WorkedIs
  <2> QED BY <2>1, <2>2 DEF Apart, Overlap
<1> QED BY <1>1, TrackingInvariance, PTL

\* No second is worked twice, and the total is the sum of the recorded sessions
\* (pauseForIdle, rotateSession, resumeFromSleep and resumeFromIdle in any order).
THEOREM NotCountedTwice == Spec => []NothingCountedTwice
<1>1. TInv => NothingCountedTwice
  <2> SUFFICES ASSUME TInv PROVE NothingCountedTwice
    OBVIOUS
  <2>1. ASSUME Orderly, NEW a \in Worked, NEW b \in Worked, a # b PROVE ~Overlap(a, b)
    <3>1. a.start \in Nat /\ a.end \in Nat /\ b.start \in Nat /\ b.end \in Nat
      BY WorkedIs
    <3>2. \A w \in timer.sessions : timer.running => w.end <= timer.sessionStart
      BY <2>1 DEF TInv, Geometry, Ordered
    <3>3. Apart(a, b)
      <4>1. CASE a \in timer.sessions /\ b \in timer.sessions
        BY <2>1, <4>1 DEF TInv, Geometry, Ordered
      <4>2. CASE a \in timer.sessions /\ timer.running /\ b = OpenSession
        BY <3>2, <4>2 DEF Apart, OpenSession
      <4>3. CASE timer.running /\ a = OpenSession /\ b \in timer.sessions
        BY <3>2, <4>3 DEF Apart, OpenSession
      <4> QED BY <2>1, <4>1, <4>2, <4>3, WorkedIs
    <3> QED BY <3>1, <3>3 DEF Apart, Overlap
  <2>2. timer.total = MapThenSumSet(LAMBDA s : s.end - s.start, timer.sessions)
    BY DEF TInv, Geometry, Recorded, SumOf
  <2> QED BY <2>1, <2>2 DEF NothingCountedTwice, Orderly
<1> QED BY <1>1, TrackingInvariance, PTL
=============================================================================

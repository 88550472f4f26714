-------------------------- MODULE ActivityTracking --------------------------
(***************************************************************************)
(* One running session of workspace-timing: the ActivityWatcher, the       *)
(* heartbeat of application/Scheduler.ts, and the handlers of              *)
(* TimerOrchestrator.ts and SessionManager.ts that turn their reports into *)
(* calls of the TimerEngine.                                               *)
(*                                                                         *)
(* A handler calls the engine before its first await and changes the       *)
(* orchestrator's state after its last one, so every pause and every       *)
(* resume is two steps with other handlers in between.  The unit of time   *)
(* is one second, the period of the heartbeat and of the watcher's tick.   *)
(* Starting, stopping and what is written to disk are not part of this     *)
(* module.                                                                 *)
(***************************************************************************)
EXTENDS TimerEngine, ActivityWatcher, Sequences, SequencesExt, FiniteSets, FiniteSetsExt

CONSTANTS
  SleepGap,       \* SLEEP_DETECT_GAP_MS: a longer step of the clock is sleep
  Midnights,      \* when days begin
  MaxWait,        \* for how long the saves of a pause or a resume may take
  TruncateFails   \* the truncation of the journal may fail
ASSUME TrackingAssumption ==
  /\ MaxTime # 1
  /\ SleepGap \in Nat \ {0} /\ Midnights \subseteq Nat /\ MaxWait \in Nat
  /\ TruncateFails \in BOOLEAN

VARIABLES
  state,      \* the state of the TimerOrchestrator
  pausing,    \* how many calls of handleIdlePause await the journal and the store
  resuming,   \* the modes of the calls of handleActivity that await handleIdleResume
  wait,       \* for how long calls have been waiting
  lastTick,   \* _lastTickMs of the Scheduler
  day,        \* its _currentDayStr
  beatDue,    \* whether its interval has yet to fire
  slept,      \* the sleeps it has noticed
  mishaps     \* history: a pause failed, a report of idleness was dropped or came while a
              \* resume was saved, a late debounce timer ended a pause, a lock was released
              \* while the heartbeat was late

vars == <<now, watcher, sent, tickDue, watcherHistory, timer, state, pausing, resuming, wait,
          lastTick, day, beatDue, slept, mishaps>>

\* Tracking begins after the epoch, which is 1.
TrackingStart == 2

\* parseLocalDate(todayStr())
Day(at) == Max({0} \union {m \in Midnights : m <= at})

Init ==
  /\ now = TrackingStart
  /\ watcher = NewWatcher(now) /\ sent = Silence /\ tickDue = FALSE
  /\ notified = [m \in Modes |-> 0] /\ assumed = 0
  /\ timer = Started(NewTimer, now)
  /\ state = "running"
  /\ pausing = 0 /\ resuming = <<>> /\ wait = 0
  /\ lastTick = now /\ day = Day(now) /\ beatDue = FALSE
  /\ slept = {} /\ mishaps = {}

-----------------------------------------------------------------------------
(* The watcher's reports.                                                  *)

\* handleModeChange; extension.ts passes on no change to idle.
ModeChanged(t) ==
  IF sent'.modeChange \in Modes THEN Switched(t, sent'.modeChange, now) ELSE t

\* A debounce timer fires when it has been due for a unit or more: the event loop
\* was held up, or the computer asleep.
LateFlush ==
  \E flush \in {"manualFlush", "aiFlush"} :
    watcher[flush] \in 1 .. now - 1 /\ watcher'[flush] = 0

\* handleActivity up to its await.
ActivityResumes ==
  /\ sent'.activity # None /\ state = "paused_idle"
  /\ timer' = ResumedAt(ModeChanged(timer), now)
  /\ resuming' = Append(resuming, sent'.activity)
  /\ mishaps' = IF LateFlush THEN mishaps \union {"lateFlush"} ELSE mishaps
  /\ UNCHANGED pausing

ActivityGoesOn ==
  /\ sent'.activity # None /\ state # "paused_idle"
  /\ timer' = Switched(ModeChanged(timer), sent'.activity, now)
  /\ UNCHANGED <<pausing, resuming, mishaps>>

\* handleIdleTimeout up to its await.
IdlenessPauses ==
  /\ sent'.idleSince # 0 /\ state = "running"
  /\ timer' = PausedAt(timer, sent'.idleSince)
  /\ pausing' = pausing + 1
  /\ mishaps' = IF resuming # <<>> THEN mishaps \union {"pausedResuming"} ELSE mishaps
  /\ UNCHANGED resuming

NothingToDo ==
  /\ sent'.activity = None /\ (sent'.idleSince # 0 => state # "running")
  /\ timer' = ModeChanged(timer)
  /\ mishaps' = IF sent'.idleSince # 0 /\ resuming # <<>> THEN mishaps \union {"reportDropped"}
                ELSE mishaps
  /\ UNCHANGED <<pausing, resuming>>

Listener == ActivityResumes \/ ActivityGoesOn \/ IdlenessPauses \/ NothingToDo

Rest == <<state, wait, lastTick, day, beatDue, slept>>

ManualActivityHeard == ManualActivity /\ Listener /\ UNCHANGED Rest
SignalHeard == ExternalSignal /\ Listener /\ UNCHANGED Rest
PassiveHeard == PassiveInteraction /\ Listener /\ UNCHANGED Rest
TriggerHeard == TriggerAiActivity /\ Listener /\ UNCHANGED Rest
LockHeard == SetModeOverride /\ Listener /\ UNCHANGED Rest
LockReleased ==
  /\ ClearModeOverride    \* tells the listener nothing
  /\ mishaps' = IF now - lastTick > 1 THEN mishaps \union {"lateUnlock"} ELSE mishaps
  /\ UNCHANGED <<timer, pausing, resuming, Rest>>
FlushManualHeard == FlushManual /\ Listener /\ UNCHANGED Rest
FlushAiHeard == FlushAi /\ Listener /\ UNCHANGED Rest
WatcherTick == Tick /\ Listener /\ UNCHANGED Rest

-----------------------------------------------------------------------------
(* The handlers after their awaits.                                        *)

InFlight == pausing + Len(resuming)

\* A timer that is late by a whole unit fires before the answer to a call made
\* in this one.
TimersCaughtUp ==
  \A flush \in {watcher.manualFlush, watcher.aiFlush} : flush = 0 \/ flush >= now

Unwatched == <<now, watcher, tickDue, watcherHistory, lastTick, day, beatDue, slept>>

\* Mutants: a completed handler forgets the orchestrator's state.
PauseCompletesWithoutState ==
  /\ pausing > 0 /\ TimersCaughtUp
  /\ pausing' = pausing - 1
  /\ wait' = IF InFlight = 1 THEN 0 ELSE wait
  /\ sent' = Silence
  /\ UNCHANGED <<timer, state, resuming, mishaps, Unwatched>>
ResumeCompletesWithoutState ==
  /\ TimersCaughtUp
  /\ \E i \in DOMAIN resuming :
       /\ timer' = Switched(timer, resuming[i], now)
       /\ resuming' = RemoveAt(resuming, i)
  /\ wait' = IF InFlight = 1 THEN 0 ELSE wait
  /\ sent' = Silence
  /\ UNCHANGED <<state, pausing, mishaps, Unwatched>>

PauseCompletes ==
  /\ pausing > 0 /\ TimersCaughtUp
  /\ pausing' = pausing - 1
  /\ state' = "paused_idle"
  /\ wait' = IF InFlight = 1 THEN 0 ELSE wait
  /\ sent' = Silence
  /\ UNCHANGED <<timer, resuming, mishaps, Unwatched>>

\* handleIdlePause rejects: the orchestrator's state stays what it was.
PauseFails ==
  /\ TruncateFails /\ pausing > 0 /\ TimersCaughtUp
  /\ pausing' = pausing - 1
  /\ wait' = IF InFlight = 1 THEN 0 ELSE wait
  /\ sent' = Silence
  /\ mishaps' = mishaps \union {"pauseFailed"}
  /\ UNCHANGED <<timer, state, resuming, Unwatched>>

ResumeCompletes ==
  /\ TimersCaughtUp
  /\ \E i \in DOMAIN resuming :
       /\ timer' = Switched(timer, resuming[i], now)
       /\ resuming' = RemoveAt(resuming, i)
  /\ state' = "running"
  /\ wait' = IF InFlight = 1 THEN 0 ELSE wait
  /\ sent' = Silence
  /\ UNCHANGED <<pausing, mishaps, Unwatched>>

-----------------------------------------------------------------------------
(* The scheduler.                                                          *)

\* onHeartbeat with checkSystemResume, handleSystemResume
WakeUp ==
  /\ now - lastTick > SleepGap
  /\ timer' = Awoken(timer, lastTick, now)
  /\ slept' = slept \union {[start |-> lastTick, end |-> now]}

\* Mutant: no rotation at midnight.
BeatWithoutRotation == now - lastTick <= SleepGap /\ UNCHANGED <<timer, slept>>

\* and with checkMidnightRotation, rotateSessionAtMidnight.
Beat ==
  /\ now - lastTick <= SleepGap
  /\ timer' = IF Day(now) # day THEN Rotated(timer, Day(now)) ELSE timer
  /\ UNCHANGED slept

\* Mutant: the day is not brought up to date after a sleep.
DayAfterBeatOnly == IF now - lastTick > SleepGap THEN day ELSE Day(now)

DayAfter == Day(now)

Heartbeat ==
  /\ beatDue /\ beatDue' = FALSE
  /\ WakeUp \/ Beat
  /\ lastTick' = now
  /\ day' = DayAfter
  /\ sent' = Silence
  /\ UNCHANGED <<now, watcher, tickDue, watcherHistory, state, pausing, resuming, wait, mishaps>>

AdvanceClock ==
  /\ ~beatDue /\ beatDue' = TRUE
  /\ ClockAdvances
  /\ wait' = IF InFlight = 0 THEN 0 ELSE wait + (now' - now)
  /\ wait' <= MaxWait
  /\ UNCHANGED <<timer, state, pausing, resuming, lastTick, day, slept, mishaps>>

Next ==
  \/ AdvanceClock
  \/ ManualActivityHeard
  \/ SignalHeard
  \/ PassiveHeard
  \/ TriggerHeard
  \/ LockHeard
  \/ LockReleased
  \/ FlushManualHeard
  \/ FlushAiHeard
  \/ WatcherTick
  \/ Heartbeat
  \/ PauseCompletes
  \/ PauseFails
  \/ ResumeCompletes

Spec == Init /\ [][Next]_vars

-----------------------------------------------------------------------------
(* Properties.                                                             *)

TypeOK ==
  /\ now \in TrackingStart .. MaxTime /\ lastTick \in TrackingStart .. now
  /\ watcher \in Watchers /\ timer \in Timers
  /\ state \in {"running", "paused_idle"}
  /\ pausing \in Nat /\ resuming \in Seq(Modes) /\ wait \in 0 .. MaxWait
  /\ day \in {0} \union Midnights /\ {tickDue, beatDue} \subseteq BOOLEAN
  /\ slept \subseteq Intervals
  /\ mishaps \subseteq
       {"pauseFailed", "reportDropped", "pausedResuming", "lateFlush", "lateUnlock"}

OpenSession == [start |-> timer.sessionStart, end |-> now]
Worked == timer.sessions \union (IF timer.running THEN {OpenSession} ELSE {})
Overlap(a, b) == a.start < b.end /\ b.start < a.end

\* No second is worked twice, whatever pauses, midnights and sleeps cut a session
\* into, and the total is the sum of what was recorded; but a lock that is released
\* while the heartbeat is late ends a session with that moment, and the rotation
\* that follows may start the next one before it.
NothingCountedTwice ==
  /\ "lateUnlock" \notin mishaps =>
       \A a, b \in Worked : a # b => ~Overlap(a, b)
  /\ timer.total = MapThenSumSet(LAMBDA s : s.end - s.start, timer.sessions)

\* "The time asleep does not count as work", also when the computer sleeps over a
\* midnight or an idle limit, and whichever of the watcher, the heartbeat and the
\* user comes first when it wakes up, unless a lock is released at that moment.
SleepIsNotWorked ==
  "lateUnlock" \notin mishaps => \A s \in slept, w \in Worked : ~Overlap(s, w)

\* After each heartbeat the running session lies in the current day.
SessionStartsToday ==
  timer.running /\ ~beatDue => Day(timer.sessionStart) = Day(now) /\ day = Day(now)

\* When no handler waits for the disk, the orchestrator and the engine agree; if
\* they did not, an activity would never end a pause.  Two things part them: a
\* pause whose truncation of the journal fails, and idleness that comes while a
\* resume is still being saved, which then ends after the pause it came before.
StateFollowsEngine ==
  InFlight = 0 /\ {"pauseFailed", "pausedResuming"} \intersect mishaps = {}
    => (state = "running" <=> timer.running)

\* The watcher reports idleness once, and nobody's time goes on being counted,
\* whatever a flush, a lock, a midnight or a sleep does in between; but for a pause
\* that fails, a report that comes while a resume is still being saved, and a
\* debounce timer that a stall holds up until after the report and that passes on
\* the activity from before it.
IdlenessIsNoticed ==
  InFlight = 0 /\ watcher.mode = "idle" /\ mishaps \subseteq {"lateUnlock"}
    => state = "paused_idle"

\* "Retroactively cut to the moment of leaving": no time is both worked and away.
AwayIsNotWorked == \A i \in timer.idles, w \in Worked : ~Overlap(i, w)

\* An idle record is the record of an absence, which began after tracking did.
IdleRecordsAreAbsences == \A i \in timer.idles : i.start >= TrackingStart
=============================================================================

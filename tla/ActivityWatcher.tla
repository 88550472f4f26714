-------------------------- MODULE ActivityWatcher --------------------------
(***************************************************************************)
(* workspace-timing/src/integration/ActivityWatcher.ts: decides from the   *)
(* editor's events whether the user works, an agent works, or nobody does, *)
(* and tells its listener.                                                 *)
(*                                                                         *)
(* Like TimerEngine, the watcher is one record and every handler a         *)
(* function; its value has the new record and what the listener is told,   *)
(* in the order mode change, then activity or idleness.  One unit of time  *)
(* is MS_PER_SECOND: the period of the tick and of both debounce windows.  *)
(* Times start at 1, 0 means none.                                         *)
(***************************************************************************)
EXTENDS WorkClock

CONSTANTS
  Steps,        \* by how much the clock may advance at once
  IdleLimit,    \* idleTimeoutMinutes, in units; 0 switches the detection off
  Cooldown,     \* aiCooldownSeconds, in units
  AiDetection,  \* aiDetectionEnabled
  LockModes     \* the modes a command may lock
ASSUME WatcherAssumption ==
  /\ Steps \subseteq Nat \ {0} /\ 1 \in Steps
  /\ IdleLimit \in Nat /\ Cooldown \in Nat \ {0, 1}   \* MIN_AI_COOLDOWN_SECONDS is 10
  /\ AiDetection \in BOOLEAN /\ LockModes \subseteq {"manual", "ai"}

None == "none"

VARIABLES
  watcher,    \* the ActivityWatcher
  sent,       \* what the listener was told in the last step
  tickDue,    \* the interval has yet to fire since the clock moved
  notified,   \* history: how often activity in each mode was passed on since the clock
              \* moved, but for the notifications that a command asked for
  assumed     \* history: when a tick last took a lock on manual for activity

watcherHistory == <<notified, assumed>>
watcherVars == <<now, watcher, sent, tickDue, watcherHistory>>

NewWatcher(at) ==
  [mode |-> "manual", lock |-> None, lastActivity |-> at, lastManual |-> at, lastAi |-> 0,
   manualBeat |-> 0, aiBeat |-> 0, manualFlush |-> 0, aiFlush |-> 0]

Silence == [modeChange |-> None, activity |-> None, idleSince |-> 0]
Outcome(w, told) == [watcher |-> w, sent |-> told]

\* setMode(mode), followed by notifyActivity(activity).
Told(w, mode, activity) ==
  [Silence EXCEPT !.modeChange = IF w.mode = mode THEN None ELSE mode, !.activity = activity]

\* Within a debounce window only its first event is passed on at once.
Beats(flush, beat, at) == flush = 0 /\ at - beat >= 1

\* The event that opens a window sets its timer.
FlushAfter(flush, at) == IF flush = 0 THEN at + 1 ELSE flush

\* recordManualActivity
ManualRecorded(w, at) ==
  LET beats == Beats(w.manualFlush, w.manualBeat, at)
      heard == [w EXCEPT !.mode = "manual", !.lastManual = at, !.lastActivity = at,
                         !.manualFlush = FlushAfter(@, at),
                         !.manualBeat = IF beats THEN at ELSE @]
  IN  IF w.lock = "ai" THEN Outcome([w EXCEPT !.lastActivity = at], Silence)
      ELSE Outcome(heard, Told(w, "manual", IF beats THEN "manual" ELSE None))

\* handleExternalSignal
SignalRecorded(w, at) ==
  LET beats == Beats(w.aiFlush, w.aiBeat, at)
      heard == [w EXCEPT !.mode = "ai", !.lastAi = at, !.lastActivity = at,
                         !.aiFlush = FlushAfter(@, at),
                         !.aiBeat = IF beats THEN at ELSE @]
  IN  IF ~AiDetection \/ w.lock = "manual" THEN Outcome(w, Silence)
      ELSE Outcome(heard, Told(w, "ai", IF beats THEN "ai" ELSE None))

\* handlePassiveInteraction: reading the code while an agent works.
PassiveRecorded(w, at) ==
  IF (w.mode = "ai" /\ at - w.lastAi < Cooldown) \/ w.lock = "ai"
    THEN Outcome([w EXCEPT !.lastActivity = at], Silence)
    ELSE ManualRecorded(w, at)

\* triggerAiActivity
AiTriggered(w, at) ==
  IF ~AiDetection \/ w.lock = "manual" THEN Outcome(w, Silence)
  ELSE Outcome([w EXCEPT !.mode = "ai", !.lastAi = at, !.lastActivity = at], Told(w, "ai", "ai"))

\* setModeOverride(mode)
Locked(w, mode, at) ==
  Outcome([w EXCEPT !.lock = mode, !.mode = mode, !.lastActivity = at,
                    !.lastManual = IF mode = "manual" THEN at ELSE @,
                    !.lastAi = IF mode = "ai" THEN at ELSE @],
          Told(w, mode, mode))
\* setModeOverride(null)
Unlocked(w) == Outcome([w EXCEPT !.lock = None], Silence)

\* The callbacks of the two debounce timers.
ManualFlushed(w, at) ==
  Outcome([w EXCEPT !.manualFlush = 0, !.manualBeat = at], Told(w, w.mode, "manual"))
\* Mutant: the flush of the agents' window does not record its beat.
AiFlushedUnrecorded(w, at) == Outcome([w EXCEPT !.aiFlush = 0], Told(w, w.mode, "ai"))
AiFlushed(w, at) ==
  Outcome([w EXCEPT !.aiFlush = 0, !.aiBeat = at], Told(w, w.mode, "ai"))

FellIdle(w, since) ==
  Outcome([w EXCEPT !.mode = "idle"], [Told(w, "idle", None) EXCEPT !.idleSince = since])

ManualSilent(w, at) == IdleLimit > 0 /\ at - w.lastManual >= IdleLimit

\* Mutant: idleness after an agent's work dates from its last signal.
TickedSinceSignal(w, at) ==
  CASE w.lock # None ->
         Outcome([w EXCEPT !.lastActivity = at], Told(w, w.mode, w.lock))
    [] w.lock = None /\ w.mode = "manual" /\ ManualSilent(w, at) -> FellIdle(w, w.lastManual)
    [] w.lock = None /\ w.mode = "ai" -> FellIdle(w, w.lastAi)
    [] OTHER -> Outcome(w, Silence)

\* tick
Ticked(w, at) ==
  CASE w.lock # None ->
         Outcome([w EXCEPT !.lastActivity = at], Told(w, w.mode, w.lock))
    [] w.lock = None /\ w.mode = "manual" /\ ManualSilent(w, at) -> FellIdle(w, w.lastManual)
    [] w.lock = None /\ w.mode = "ai" /\ at - w.lastAi < Cooldown ->
         Outcome([w EXCEPT !.lastActivity = at], Told(w, w.mode, "ai"))
    [] w.lock = None /\ w.mode = "ai" /\ at - w.lastAi >= Cooldown -> FellIdle(w, w.lastActivity)
    [] OTHER -> Outcome(w, Silence)

-----------------------------------------------------------------------------
WatcherInit ==
  /\ now = 1
  /\ watcher = NewWatcher(1)
  /\ sent = Silence
  /\ tickDue = FALSE
  /\ notified = [m \in Modes |-> 0] /\ assumed = 0

FlushDue(flush) == flush # 0 /\ flush <= now

\* Timers fire before the clock moves on, in any order; a step of more than one
\* unit is an event loop that stalls, or a computer asleep.
ClockAdvances ==
  /\ ~tickDue
  /\ ~FlushDue(watcher.manualFlush)
  /\ ~FlushDue(watcher.aiFlush)
  /\ \E d \in Steps : now + d <= MaxTime /\ now' = now + d
  /\ tickDue' = TRUE
  /\ sent' = Silence
  /\ notified' = [m \in Modes |-> 0]
  /\ UNCHANGED <<watcher, assumed>>

Handle(outcome) ==
  /\ watcher' = outcome.watcher
  /\ sent' = outcome.sent
  /\ UNCHANGED now

\* An event or a debounce timer, and a command.
Heard(outcome) ==
  /\ Handle(outcome)
  /\ notified' = [m \in Modes |-> notified[m] + IF outcome.sent.activity = m THEN 1 ELSE 0]
  /\ UNCHANGED <<tickDue, assumed>>
Commanded(outcome) == Handle(outcome) /\ UNCHANGED <<tickDue, watcherHistory>>

\* handleDocumentChange is one of the next two: which one hangs on the text of
\* the change and on how long ago the last signal was.
ManualActivity == Heard(ManualRecorded(watcher, now))
ExternalSignal == Heard(SignalRecorded(watcher, now))
PassiveInteraction == Heard(PassiveRecorded(watcher, now))
TriggerAiActivity == Commanded(AiTriggered(watcher, now))
\* toggleModeOverride, which goes round auto, ai and manual, is this and the next.
SetModeOverride == \E mode \in LockModes : Commanded(Locked(watcher, mode, now))
ClearModeOverride == Commanded(Unlocked(watcher))
FlushManual == FlushDue(watcher.manualFlush) /\ Heard(ManualFlushed(watcher, now))
FlushAi == FlushDue(watcher.aiFlush) /\ Heard(AiFlushed(watcher, now))
Tick ==
  /\ tickDue /\ tickDue' = FALSE
  /\ Handle(Ticked(watcher, now))
  /\ notified' = [m \in Modes |-> notified[m] + IF sent'.activity = m THEN 1 ELSE 0]
  /\ assumed' = IF watcher.lock = "manual" THEN now ELSE assumed

WatcherNext ==
  \/ ClockAdvances
  \/ ManualActivity
  \/ ExternalSignal
  \/ PassiveInteraction
  \/ TriggerAiActivity
  \/ SetModeOverride
  \/ ClearModeOverride
  \/ FlushManual
  \/ FlushAi
  \/ Tick

WatcherSpec == WatcherInit /\ [][WatcherNext]_watcherVars

-----------------------------------------------------------------------------
(* Properties.                                                             *)

Times == 0 .. MaxTime

Watchers ==
  [mode : Modes \union {"idle"}, lock : LockModes \union {None},
   lastActivity : Times, lastManual : Times, lastAi : Times,
   manualBeat : Times, aiBeat : Times,
   manualFlush : 0 .. MaxTime + 1, aiFlush : 0 .. MaxTime + 1]

WatcherTypeOK ==
  /\ now \in 1 .. MaxTime /\ tickDue \in BOOLEAN
  /\ watcher \in Watchers
  /\ sent \in [modeChange : {None, "idle"} \union Modes, activity : {None} \union Modes,
               idleSince : Times]
  /\ notified \in [Modes -> Nat] /\ assumed \in Times

\* Idleness never dates from before the last sign of activity, or time in which
\* somebody was there is taken out of the worked time.  There is one exception: a
\* lock on manual, which every tick takes for activity although it leaves the time of
\* the last manual activity alone.  When it is released and nobody does anything,
\* the ticks under it do not count after all, and idleness dates from when the user
\* was last heard, or set the lock.
IdleDatesFromLastActivity ==
  sent.idleSince # 0 =>
    \/ sent.idleSince = watcher.lastActivity
    \/ watcher.lastActivity = assumed /\ sent.idleSince = watcher.lastManual

\* "Debounced heartbeats clamp high-frequency keyboard/fs bursts to minimum
\* intervals": however many key presses and signals come, in whatever order with
\* the timers of the debounce windows, each mode is notified once per unit, and a
\* second time only by the tick of that unit, which has no debounce: it speaks for an
\* agent within its cooldown and for a lock.
BeatsAreThrottled == \A m \in Modes : notified[m] <= IF tickDue THEN 1 ELSE 2
=============================================================================

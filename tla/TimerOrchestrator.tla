------------------------- MODULE TimerOrchestrator -------------------------
(***************************************************************************)
(* How sessions begin and end in workspace-timing:                         *)
(* application/TimerOrchestrator.ts over SessionManager.ts, Scheduler.ts   *)
(* and DisableManager.ts.                                                  *)
(*                                                                         *)
(* A call of the orchestrator runs from await to await, and other calls    *)
(* run in between.  Toggles, new periods, resets and restores go through a *)
(* queue; the commands that enable and disable, changes of the settings,   *)
(* the activity watcher's reports and the deactivation do not.  How much   *)
(* time is counted, and what becomes of the data, is left to               *)
(* ActivityTracking, SessionRecovery and StorageCoordinator.               *)
(***************************************************************************)
EXTENDS Naturals, Sequences, FiniteSets

CONSTANTS
  Operations, \* the queued operations that the window calls
  Switches,  \* calls of onDisableStateChanged that may be in flight at a time
  Handlers,  \* idle pauses and resumes that may be in flight at a time
  MaxQueue,  \* bounds the operations in the queue
  Faults     \* the operations of the journal that may fail
ASSUME OrchestratorAssumption ==
  /\ IsFiniteSet(Switches) /\ Switches # {} /\ IsFiniteSet(Handlers)
  /\ Switches \intersect Handlers = {} /\ {"op", "quit"} \intersect (Switches \union Handlers) = {}
  /\ Operations \subseteq {"toggleWorkspace", "toggleGlobal", "newPeriod", "clearHistory",
                           "resetAllData", "restoreFrom"}
  /\ MaxQueue \in Nat /\ Faults \subseteq {"flush", "truncate"}

VARIABLES
  config,    \* the enabled and globalDisabled of the DisableManager
  state,     \* the orchestrator's _state
  ticking,   \* the Scheduler's _running
  active,    \* the SessionManager's _sessionActive
  engine,    \* the TimerEngine: stopped, counting, or paused by idleness
  idle,      \* the ActivityWatcher's isIdle: it reports again after an activity
  queue,     \* _opQueue: the operations that have not settled, the running one first
  pc,        \* what each call awaits
  mishaps    \* history: what has gone wrong, recorded at its cause

session == <<state, ticking, active, engine>>
vars == <<config, queue, session, idle, pc, mishaps>>

Toggles == {"toggleWorkspace", "toggleGlobal"}
Periods == {"newPeriod", "clearHistory", "resetAllData", "restoreFrom"}
Threads == {"op", "quit"} \union Switches \union Handlers
Configs == [enabled: BOOLEAN, globalDisabled: BOOLEAN]

\* What a call awaits in start, in stop, in a period operation, in a handler.
InStart == {"recovering"}
InStop == {"parking", "flushing", "ending"}
InWork == {"snapshotting", "replacing"}
InHandler == {"pausing", "resuming"}

Busy(labels) == \E t \in Threads : pc[t] \in labels
AtRest == queue = <<>> /\ \A t \in Threads : pc[t] \in {"idle", "gone"}

\* shouldCount; resolveState is "enabled" exactly then.
ShouldCount(c) == c.enabled /\ ~c.globalDisabled

Goto(t, label) == pc' = [pc EXCEPT ![t] = label]
Record(what) == mishaps' = mishaps \union {what}
RecordIf(condition, what) == IF condition THEN Record(what) ELSE UNCHANGED mishaps

Init ==
  /\ config \in Configs
     \* activate has applied the settings and called start.
  /\ state = IF ShouldCount(config) THEN "idle" ELSE "disabled"
  /\ LET first == CHOOSE s \in Switches : TRUE
     IN  pc = [t \in Threads |-> IF t = first /\ ShouldCount(config) THEN "recovering" ELSE "idle"]
  /\ ticking = FALSE /\ active = FALSE /\ engine = "stopped"
  /\ idle = FALSE
  /\ queue = <<>>
  /\ mishaps = {}

-----------------------------------------------------------------------------
(* The parts that calls share.                                             *)

Returns(t) ==
  /\ Goto(t, IF t = "quit" THEN "gone" ELSE "idle")
  /\ queue' = IF t = "op" THEN Tail(queue) ELSE queue

\* Mutant: start does not test whether time should be counted.
BeginStartUntested(t) ==
  Goto(t, "recovering") /\ RecordIf(Busy(InStop), "overlap") /\ UNCHANGED <<state, queue>>

\* start, up to its await
BeginStart(t) ==
  IF ShouldCount(config')
  THEN /\ Goto(t, "recovering") /\ RecordIf(Busy(InStop), "overlap")
       /\ UNCHANGED <<state, queue>>
  ELSE state' = "disabled" /\ Returns(t) /\ UNCHANGED mishaps

\* stop, up to its first await: the Scheduler's timers are cleared.
BeginStop(t) ==
  /\ ticking' = FALSE
  /\ Goto(t, "parking") /\ RecordIf(Busy(InStart), "overlap")
  /\ UNCHANGED <<state, queue>>

\* onDisableStateChanged, up to its first await
Enabled(t) ==
  /\ ShouldCount(config')
  /\ IF state \in {"disabled", "stopped"}
     THEN BeginStart(t)
     ELSE Returns(t) /\ RecordIf(Busy(InStop), "overlap") /\ UNCHANGED state
  /\ UNCHANGED <<ticking, active, engine, idle>>

Disabled(t) ==
  /\ ~ShouldCount(config')
  /\ IF state = "running"
     THEN BeginStop(t)
     ELSE /\ Returns(t)
          /\ mishaps' = mishaps \union (IF state = "paused_idle" THEN {"disabledPaused"} ELSE {})
                               \union (IF Busy(InStart) THEN {"overlap"} ELSE {})
          /\ UNCHANGED <<state, ticking>>
  /\ UNCHANGED <<active, engine, idle>>

OnDisableStateChanged(t) == Enabled(t) \/ Disabled(t)

-----------------------------------------------------------------------------
(* start after recover, which never rejects: the ERROR state is not        *)
(* reached.                                                                *)

SessionStarts(t) ==
  /\ pc[t] = "recovering"
  /\ engine' = "counting" /\ active' = TRUE /\ ticking' = TRUE /\ state' = "running"
  /\ Returns(t) /\ RecordIf(idle, "absenceMissed")
  /\ UNCHANGED <<config, idle>>

-----------------------------------------------------------------------------
(* stop, and what its caller does when it returns.                         *)

\* A period operation goes on to replace the data; newPeriod resets the engine.
StopReturns(t) ==
  IF t = "op" /\ Head(queue) \in Periods
  THEN /\ state' = "stopped"
       /\ engine' = IF Head(queue) = "newPeriod" THEN "stopped" ELSE engine
       /\ Goto(t, "replacing") /\ UNCHANGED queue
  ELSE /\ state' = IF t = "quit" THEN "stopped" ELSE "disabled"
       /\ Returns(t)
       /\ UNCHANGED engine

\* The Scheduler's checkpoint, if any, is written; endSession returns at once
\* when there is no session.
SchedulerStopped(t) ==
  /\ pc[t] = "parking"
  /\ IF active THEN Goto(t, "flushing") /\ UNCHANGED <<state, engine, queue>> ELSE StopReturns(t)
  /\ UNCHANGED <<config, ticking, active, idle, mishaps>>

\* flushAll has resolved.
SessionEnds(t) ==
  /\ pc[t] = "flushing"
  /\ engine' = "stopped" /\ active' = FALSE
  /\ Goto(t, "ending")
  /\ UNCHANGED <<config, queue, state, ticking, idle, mishaps>>

\* The data is saved and the journal truncated.
SessionEnded(t) ==
  /\ pc[t] = "ending"
  /\ StopReturns(t)
  /\ UNCHANGED <<config, ticking, active, idle, mishaps>>

\* stop rejects: its caller goes no further, and the state is not assigned.
StopFails(t) ==
  /\ \/ pc[t] = "flushing" /\ "flush" \in Faults
     \/ pc[t] = "ending" /\ "truncate" \in Faults
  /\ Record("stopFailed")
  /\ Returns(t)
  /\ UNCHANGED <<config, session, idle>>

-----------------------------------------------------------------------------
(* Calls that begin and end sessions.                                      *)

\* No call is made once the window is closing.
Free(t) == pc[t] = "idle" /\ pc["quit"] = "idle"

\* applyConfig, and the commands that enable, disable and toggle
Switch(s) ==
  /\ Free(s)
  /\ config' \in Configs
  /\ OnDisableStateChanged(s)

Enqueue(operation) ==
  /\ pc["quit"] = "idle" /\ Len(queue) < MaxQueue
  /\ queue' = Append(queue, operation)
  /\ UNCHANGED <<config, session, idle, pc, mishaps>>

\* The queue runs its next operation when the one before has settled.
NextIs(operations) == pc["op"] = "idle" /\ queue # <<>> /\ Head(queue) \in operations

Toggle ==
  /\ NextIs(Toggles)
  /\ config' = IF Head(queue) = "toggleWorkspace" THEN [config EXCEPT !.enabled = ~@]
               ELSE [config EXCEPT !.globalDisabled = ~@]
  /\ OnDisableStateChanged("op")

\* A new period takes no snapshot, and a setting may spare the others theirs.
BeginPeriod ==
  /\ NextIs(Periods)
  /\ \/ BeginStop("op")
     \/ /\ Head(queue) # "newPeriod"
        /\ Goto("op", "snapshotting") /\ UNCHANGED <<state, ticking, queue, mishaps>>
  /\ UNCHANGED <<config, active, engine, idle>>

SnapshotTaken ==
  /\ pc["op"] = "snapshotting"
  /\ BeginStop("op")
  /\ UNCHANGED <<config, active, engine, idle>>

\* Mutant: a period operation does not start the new session.
PeriodStartsNothing ==
  /\ pc["op"] = "replacing"
  /\ Returns("op")
  /\ UNCHANGED <<config, session, idle, mishaps>>

PeriodStarts ==
  /\ pc["op"] = "replacing"
  /\ UNCHANGED <<config, ticking, active, engine, idle>>
  /\ BeginStart("op")

Deactivate ==
  /\ pc["quit"] = "idle"
  /\ BeginStop("quit")
  /\ UNCHANGED <<config, active, engine, idle>>

-----------------------------------------------------------------------------
(* The activity watcher's reports.                                         *)

\* handleIdleTimeout; without a session only the state changes.
IdleTimeout(h) ==
  /\ Free(h) /\ ~idle
  /\ idle' = TRUE
  /\ \/ /\ state = "running" /\ active
        /\ Goto(h, "pausing")
        /\ engine' = IF engine = "counting" THEN "paused" ELSE engine
        /\ UNCHANGED <<state, mishaps>>
     \/ /\ state = "running" /\ ~active
        /\ state' = "paused_idle"
        /\ UNCHANGED <<engine, pc, mishaps>>
     \/ /\ state # "running"
        /\ RecordIf(state = "paused_idle", "absenceMissed")
        /\ UNCHANGED <<state, engine, pc>>
  /\ UNCHANGED <<config, queue, ticking, active>>

\* Mutant: a pause that fails is undone.
PauseFailsUndone(h) ==
  /\ pc[h] = "pausing" /\ "truncate" \in Faults
  /\ Goto(h, "idle") /\ Record("pauseFailed")
  /\ engine' = IF engine = "paused" THEN "counting" ELSE engine
  /\ UNCHANGED <<config, queue, state, ticking, active, idle>>

\* The journal could not be truncated: handleIdlePause rejects.
PauseFails(h) ==
  /\ pc[h] = "pausing" /\ "truncate" \in Faults
  /\ Goto(h, "idle") /\ Record("pauseFailed")
  /\ UNCHANGED <<config, queue, session, idle>>

\* handleActivity, which is told of every activity
Activity(h) ==
  /\ Free(h)
  /\ idle' = FALSE
  /\ \/ /\ state = "paused_idle" /\ active
        /\ Goto(h, "resuming")
        /\ engine' = "counting"
        /\ UNCHANGED state
     \/ /\ state = "paused_idle" /\ ~active
        /\ state' = "running"
        /\ UNCHANGED <<engine, pc>>
     \/ state # "paused_idle" /\ UNCHANGED <<state, engine, pc>>
  /\ UNCHANGED <<config, queue, ticking, active, mishaps>>

\* The state follows the handler, whatever has happened meanwhile.
PauseSaved(h) ==
  /\ pc[h] = "pausing"
  /\ state' = "paused_idle"
  /\ Goto(h, "idle") /\ RecordIf(engine # "paused", "lateHandler")
  /\ UNCHANGED <<config, queue, ticking, active, engine, idle>>

\* Mutant: the state is left alone when the user is away again.
ResumeSavedUnlessIdle(h) ==
  /\ pc[h] = "resuming"
  /\ state' = IF idle THEN state ELSE "running"
  /\ Goto(h, "idle") /\ RecordIf(engine # "counting", "lateHandler")
  /\ UNCHANGED <<config, queue, ticking, active, engine, idle>>

ResumeSaved(h) ==
  /\ pc[h] = "resuming"
  /\ state' = "running"
  /\ Goto(h, "idle") /\ RecordIf(engine # "counting", "lateHandler")
  /\ UNCHANGED <<config, queue, ticking, active, engine, idle>>

-----------------------------------------------------------------------------
\* The window has closed, and nothing is left that would be cut short.
Closed == AtRest /\ pc["quit"] = "gone" /\ UNCHANGED vars

Calls ==
  \/ \E s \in Switches : Switch(s)
  \/ \E operation \in Operations : Enqueue(operation)
  \/ \E h \in Handlers : IdleTimeout(h) \/ Activity(h)
  \/ Deactivate

\* What a call does when what it awaits has settled.
Continues(t) ==
  \/ SessionStarts(t) \/ SchedulerStopped(t) \/ SessionEnds(t) \/ SessionEnded(t) \/ StopFails(t)
OperationContinues == Toggle \/ BeginPeriod \/ SnapshotTaken \/ PeriodStarts
HandlerContinues(h) == PauseFails(h) \/ PauseSaved(h) \/ ResumeSaved(h)

Next ==
  \/ Calls
  \/ \E t \in Threads : Continues(t)
  \/ OperationContinues
  \/ \E h \in Handlers : HandlerContinues(h)
  \/ Closed

Spec == Init /\ [][Next]_vars

-----------------------------------------------------------------------------
Labels == {"idle", "gone"} \union InStart \union InStop \union InWork \union InHandler
Mishaps == {"overlap", "disabledPaused", "stopFailed", "pauseFailed", "lateHandler",
            "absenceMissed"}

TypeOK ==
  /\ config \in Configs
  /\ state \in {"idle", "running", "paused_idle", "disabled", "stopped"}
  /\ ticking \in BOOLEAN /\ active \in BOOLEAN /\ engine \in {"stopped", "counting", "paused"}
  /\ idle \in BOOLEAN
  /\ queue \in Seq(Operations) /\ Len(queue) <= MaxQueue
  /\ pc \in [Threads -> Labels]
  /\ mishaps \subseteq Mishaps

-----------------------------------------------------------------------------
Open == AtRest /\ pc["quit"] = "idle"
Without(causes) == mishaps \intersect causes = {}

\* A workspace that is disabled counts no time, once every call has settled,
\* unless: two calls of start and stop overlapped, outside the queue; it was
\* disabled while paused, which onDisableStateChanged ignores, and an activity
\* resumed it; or a stop rejected half way.
DisabledCountsNothing ==
  Open /\ ~ShouldCount(config) /\ Without({"overlap", "disabledPaused", "stopFailed"}) =>
    engine = "stopped"

\* And one that is enabled has a session, unless calls overlapped, a stop
\* rejected, or an idle pause assigned its state over that of a later stop.
EnabledIsCounting ==
  Open /\ ShouldCount(config) /\ Without({"overlap", "lateHandler", "stopFailed"}) =>
    engine # "stopped"

\* The state, which decides what enabling, disabling and the watcher's reports
\* do next, tells what the engine does, though the two are assigned on either
\* side of an await.
StateIsTrue ==
  Open /\ Without({"overlap", "pauseFailed", "stopFailed", "lateHandler", "disabledPaused"}) =>
    /\ state = "running" <=> engine = "counting"
    /\ state = "paused_idle" <=> engine = "paused"

\* Time away is not counted: once the watcher has reported an absence the
\* engine does not count, unless the report found another state than RUNNING or
\* a session started after it (the watcher does not report twice).
AbsenceIsNotCounted ==
  Open /\ idle /\ Without({"absenceMissed", "overlap", "lateHandler", "stopFailed", "disabledPaused"}) =>
    engine # "counting"
=============================================================================

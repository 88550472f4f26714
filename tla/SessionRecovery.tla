-------------------------- MODULE SessionRecovery --------------------------
(***************************************************************************)
(* What a crash leaves of the time that workspace-timing has counted:      *)
(* application/SessionManager.ts and RecoveryService.ts over               *)
(* persistence/StorageCoordinator.ts and the journal.                      *)
(*                                                                         *)
(* Time is counted in ticks of the heartbeat; tick t is the time between   *)
(* t - 1 and t, and the slice with timestamp t stands for it.  A duration  *)
(* is kept as the bag of the ticks it is the sum of (total[t] is how often *)
(* tick t is in totalMs), so that time lost and time counted twice do not  *)
(* cancel out.  Every asynchronous method is a call with the I/O           *)
(* operations it has still to do; the clock waits for them.  Modes, idle   *)
(* records and folding, which leave the total alone, are left out.  The    *)
(* journal's mutex and ring buffer are in JournalWriter; what an append    *)
(* leaves in the file, also one that is cut short, is here as it is there. *)
(***************************************************************************)
EXTENDS Integers, Sequences, SequencesExt, FiniteSets, FiniteSetsExt

CONSTANTS
  MaxTime,      \* bounds the clock
  MaxCalls,     \* bounds the calls in flight
  MaxCrashes,   \* bounds the crashes of the process
  MaxIncidents, \* bounds the incidents of one behaviour
  Incidents,    \* the incidents that may happen
  Midnights,    \* when days begin
  SleepGap,     \* SLEEP_DETECT_GAP_MS: a longer gap between heartbeats is a sleep
  SleepTicks,   \* how long the computer sleeps or stalls at most
  SaveEvery,    \* fullSaveIntervalMs
  CompLimit     \* MS_PER_MINUTE: how far compensation goes beyond the last save
ASSUME RecoveryAssumption ==
  /\ {MaxTime, MaxCalls, SleepGap, SleepTicks, SaveEvery, CompLimit} \subseteq Nat \ {0}
  /\ {MaxCrashes, MaxIncidents} \subseteq Nat /\ Midnights \subseteq Nat
  /\ Incidents \subseteq {"flush", "truncate", "clear", "primary", "backup",  \* that failed
                          "earlyPause", "save", "lateSave"}

VARIABLES
  now, lastTick,  \* Date.now(); the last heartbeat
  beatDue,        \* whether the heartbeat of now has yet to fire
  state,          \* of the TimerOrchestrator ("stopped": or not started); "down": no process
  ticking,        \* whether the Scheduler runs
  mem,            \* TimerEngine and _sessionActive
  buffer, file,   \* the journal: timestamps in memory, and how many lines of the
                  \* file each has
  openLine,       \* what the unfinished last line of the file says: nothing ({}: there
                  \* is none), its timestamp, or 0 for a line broken off before its end
  disk,           \* what workspaceState (primary) and the JSON file (backup) hold
  backupCount,    \* _fileBackupCount
  lastSave,       \* when the last checkpoint began
  calls,          \* in the order in which their current operations were issued
  crashes, happened, \* how many crashes and incidents there have been
  \* history
  incidents,      \* their kinds: operations that failed, pauses dated too early, saves
                  \* by command during a session and before or after one
  rewritten,      \* slices in the file that a failed append has kept for its retry
  uncovered       \* ticks of sessions since the journal was last emptied, or the process
                  \* died, that no slice stands for

clock == <<now, lastTick, beatDue>>
journal == <<buffer, file, openLine, rewritten, uncovered>>
storage == <<disk, backupCount>>
counts == <<crashes, happened, incidents>>
vars == <<clock, state, ticking, mem, journal, storage, lastSave, calls, counts>>

-----------------------------------------------------------------------------
(* Timing data.                                                            *)

NoTime == [t \in 1 .. MaxTime |-> 0]
Span(a, b) == a + 1 .. b
Add(total, ticks) == [t \in DOMAIN total |-> IF t \in ticks THEN total[t] + 1 ELSE total[t]]
Plus(total, lines) == [t \in DOMAIN total |-> total[t] + lines[t]]
Since(lines, mark) == [t \in DOMAIN lines |-> IF t > mark THEN lines[t] ELSE 0]
Ticks(total) == {t \in DOMAIN total : total[t] > 0}
Repeated(total) == {t \in DOMAIN total : total[t] > 1}

\* What readJournal returns: a line that is broken off or joined to another is skipped.
Lines == Add(file, openLine)
Slices == buffer \union Ticks(Lines)

\* totalMs, currentSessionStartMs, lastSavedAtMs, metadata.lastJournalTs
EmptyData == [total |-> NoTime, start |-> 0, saved |-> 0, watermark |-> 0]
Missing == [EmptyData EXCEPT !.saved = -1]

NewMem == [data |-> EmptyData, running |-> FALSE, paused |-> FALSE, active |-> FALSE]

\* The running session moves to a new start; what ends with it enters the total.
Sealed(d, end, start) ==
  [d EXCEPT !.total = Add(@, Span(d.start, end)), !.start = start,
            !.saved = IF start > 0 THEN start ELSE @]

\* What storage.save writes.
Stamped(d) == [d EXCEPT !.saved = now]

\* Mutant: the backup first.
LoadedFromBackup == IF disk.backup # Missing THEN disk.backup
                    ELSE IF disk.primary # Missing THEN disk.primary ELSE EmptyData

\* load: the backup only counts when the primary has nothing.
Loaded == IF disk.primary # Missing THEN disk.primary
          ELSE IF disk.backup # Missing THEN disk.backup ELSE EmptyData

\* Mutant: the slice after the watermark is taken for one replayed before.
ReplayedPastWatermark(d) ==
  LET lines == Since(Lines, d.watermark + 1)
  IN  IF Ticks(lines) = {} THEN d
      ELSE [d EXCEPT !.total = Plus(@, lines), !.watermark = Max(Ticks(lines))]

\* replayJournal: every line counts, a repeated one again.
Replayed(d) ==
  LET lines == Since(Lines, d.watermark)
  IN  IF Ticks(lines) = {} THEN d
      ELSE [d EXCEPT !.total = Plus(@, lines), !.watermark = Max(Ticks(lines))]

\* compensateUnfinishedSession
Compensated(d) ==
  LET end == Min({now, Max({d.saved, d.start}) + CompLimit})
  IN  IF d.start > 0 THEN [d EXCEPT !.total = Add(@, Span(d.start, end))] ELSE d

\* recover, up to its save.
Recovered(d) ==
  LET replayed == Replayed(d)
  IN  [(IF replayed = d THEN Compensated(d) ELSE replayed) EXCEPT !.start = 0]

-----------------------------------------------------------------------------
(* Calls.                                                                  *)

Call(kind, todo, data, force) == [kind |-> kind, todo |-> todo, data |-> data, force |-> force]
Save(kind, data) == Call(kind, <<"primary">>, Stamped(data), FALSE)

InFlight(kind) == \E i \in DOMAIN calls : calls[i].kind = kind
Issue(call) == Len(calls) < MaxCalls /\ calls' = Append(calls, call)

\* workspaceState and the journal writer serve in the order of issue.  "clear"
\* is the truncation by recovery, which does not go through the writer.
Ordered == {"primary", "flush", "truncate"}
SameDevice(op1, op2) == op1 = op2 \/ {op1, op2} = {"flush", "truncate"}
Serves(i, op) ==
  /\ i \in DOMAIN calls /\ Head(calls[i].todo) = op
  /\ op \in Ordered => \A j \in 1 .. i - 1 : ~SameDevice(Head(calls[j].todo), op)

Happens(incident) ==
  /\ incident \in Incidents /\ happened < MaxIncidents /\ happened' = happened + 1
  /\ incidents' = incidents \union {incident}
  /\ UNCHANGED crashes
Fails(op) == Happens(op)
Works == UNCHANGED counts

\* The call issues its next operation, or is done.
Continues(i, call) == calls' = Append(RemoveAt(calls, i), call)
Ends(i) == calls' = RemoveAt(calls, i)
After(i) == Tail(calls[i].todo)

\* The end of a call that has no more to do.
Done(i) ==
  /\ Ends(i)
  /\ CASE calls[i].kind = "pause" -> state' = "paused_idle" /\ UNCHANGED <<mem, ticking, lastTick, lastSave>>
       [] calls[i].kind = "resume" -> state' = "running" /\ UNCHANGED <<mem, ticking, lastTick, lastSave>>
       [] calls[i].kind = "start" ->
            /\ state' = "running" /\ ticking' = TRUE /\ lastTick' = now /\ lastSave' = now
            /\ mem' = [data |-> [calls[i].data EXCEPT !.start = now, !.saved = now],
                       running |-> TRUE, paused |-> FALSE, active |-> TRUE]
       [] OTHER -> UNCHANGED <<mem, state, ticking, lastTick, lastSave>>

Proceeds(i, call) ==
  IF call.todo = <<>> THEN Done(i)
  ELSE Continues(i, call) /\ UNCHANGED <<mem, state, ticking, lastTick, lastSave>>

-----------------------------------------------------------------------------
(* The journal file.                                                       *)

\* The first line of an append continues an unfinished one, and is lost with it.
Appended(slices) == Add(file, {t \in slices : openLine = {} \/ \E u \in slices : u < t})

Loses == uncovered' = uncovered \union (Slices \ Slices')

\* flushNow of what is in memory
AppendWorks ==
  /\ file' = Appended(buffer) /\ buffer' = {}
  /\ openLine' = IF buffer = {} THEN openLine ELSE {}
  /\ Loses /\ UNCHANGED rewritten

\* The append is rejected, or the process dies in it, after some lines and perhaps
\* a part of the next one: all but its end, or all but its newline.  What is in
\* memory stays there, to be written whole the next time.
AppendFails ==
  /\ buffer # {}
  /\ \E n \in {0} \union buffer :
       LET whole == {t \in buffer : t <= n}
           next  == {t \in buffer \ whole : \A u \in buffer \ whole : t <= u}
           then  == IF next = {} THEN {{}} ELSE {{}, {0}, next}
       IN  \E part \in then :
             /\ file' = Appended(whole)
             /\ openLine' = IF openLine = {} \/ whole # {} THEN part
                            ELSE IF part = {} THEN openLine ELSE {0}
  /\ rewritten' = rewritten \union (buffer \intersect Ticks(Lines'))
  /\ UNCHANGED buffer /\ Loses

\* storage.truncate
Emptied == file' = NoTime /\ openLine' = {} /\ uncovered' = {}
EmptiedOrNot == Emptied \/ UNCHANGED <<file, openLine, uncovered>>

-----------------------------------------------------------------------------
(* The I/O operations.                                                     *)

\* load, exists and readJournal
Read(i) ==
  /\ Serves(i, "read") /\ Works
  /\ Proceeds(i, [calls[i] EXCEPT !.todo = After(i), !.data = Stamped(Recovered(Loaded))])
  /\ UNCHANGED <<journal, storage>>

\* truncate of replayJournal: a failure is swallowed.
Clear(i) ==
  /\ Serves(i, "clear")
  /\ \/ Works /\ Emptied
     \/ Fails("clear") /\ EmptiedOrNot
  /\ Proceeds(i, [calls[i] EXCEPT !.todo = After(i)])
  /\ UNCHANGED <<buffer, rewritten, storage>>

\* Every third save writes the backup.
CountAfter == (backupCount + 1) % 3

\* save: a failing primary forces the backup; every error is swallowed.
SavePrimary(i) ==
  LET then(bad) ==
        IF calls[i].force \/ bad \/ CountAfter = 0 THEN <<"backup">> \o After(i) ELSE After(i)
  IN  /\ Serves(i, "primary")
      /\ \/ /\ Works /\ disk' = [disk EXCEPT !.primary = calls[i].data]
            /\ Proceeds(i, [calls[i] EXCEPT !.todo = then(FALSE)])
         \/ /\ Fails("primary") /\ UNCHANGED disk
            /\ Proceeds(i, [calls[i] EXCEPT !.todo = then(TRUE)])
      /\ backupCount' = CountAfter
      /\ UNCHANGED journal

SaveBackup(i) ==
  /\ Serves(i, "backup")
  /\ \/ Works /\ disk' = [disk EXCEPT !.backup = calls[i].data]
     \/ Fails("backup") /\ UNCHANGED disk
  /\ Proceeds(i, [calls[i] EXCEPT !.todo = After(i)])
  /\ UNCHANGED <<journal, backupCount>>

\* The rest of handleIdlePause: saveCheckpoint.
PauseTruncates(i) ==
  /\ Serves(i, "truncate") /\ calls[i].kind = "pause"
  /\ buffer' = {}
  /\ \/ Works /\ Emptied /\ Continues(i, Save("pause", mem.data))
     \/ Fails("truncate") /\ EmptiedOrNot /\ Ends(i)
  /\ UNCHANGED <<mem, state, ticking, lastTick, lastSave, rewritten, storage>>

\* The rest of endSession: the watermark in memory is reset.
EndTruncates(i) ==
  /\ Serves(i, "truncate") /\ calls[i].kind = "end"
  /\ buffer' = {} /\ Ends(i)
  /\ \/ /\ Works /\ Emptied
        /\ mem' = [mem EXCEPT !.data.watermark = 0]
        /\ state' = "stopped"
     \/ Fails("truncate") /\ EmptiedOrNot /\ UNCHANGED <<mem, state>>
  /\ UNCHANGED <<ticking, lastTick, lastSave, rewritten, storage>>

\* Scheduler.stop has waited for its checkpoint; endSession begins.
Settle(i) ==
  /\ Serves(i, "settle") /\ ~InFlight("checkpoint") /\ Works
  /\ \/ mem.active /\ Continues(i, [calls[i] EXCEPT !.todo = After(i)]) /\ UNCHANGED state
     \/ ~mem.active /\ Ends(i) /\ state' = "stopped"
  /\ UNCHANGED <<mem, ticking, lastTick, lastSave, journal, storage>>

Halted(d) == IF mem.running THEN [Sealed(d, now, 0) EXCEPT !.saved = now] ELSE d

\* Mutant: what is saved at the end carries the old watermark.
EndDataWithoutWatermark == Halted(mem.data)

EndData ==
  LET d == Halted(mem.data)
  IN  [d EXCEPT !.watermark = IF d.saved > 0 THEN d.saved ELSE now]

\* The rest of endSession after flushAll: the timer stops, and all is saved.
EndFlushes(i) ==
  /\ Serves(i, "flush")
  /\ \/ /\ Works /\ AppendWorks
        /\ mem' = [data |-> Halted(mem.data), running |-> FALSE, paused |-> FALSE, active |-> FALSE]
        /\ Continues(i, Call("end", <<"primary", "truncate">>, Stamped(EndData), TRUE))
     \/ Fails("flush") /\ AppendFails /\ Ends(i) /\ UNCHANGED mem
  /\ UNCHANGED <<state, ticking, lastTick, lastSave, storage>>

IO ==
  /\ \E i \in DOMAIN calls :
       \/ Read(i)
       \/ Clear(i)
       \/ SavePrimary(i)
       \/ SaveBackup(i)
       \/ PauseTruncates(i)
       \/ EndTruncates(i)
       \/ Settle(i)
       \/ EndFlushes(i)
  /\ UNCHANGED <<now, beatDue>>

-----------------------------------------------------------------------------
(* The calls' beginnings.                                                  *)

\* start, also after a crash; the calls of the session before are over.
Start ==
  /\ state \in {"down", "stopped"} /\ calls = <<>>
  /\ state' = "stopped"
  /\ Issue(Call("start", <<"read", "clear", "primary">>, EmptyData, TRUE))
  /\ UNCHANGED <<clock, ticking, mem, journal, storage, lastSave, counts>>

\* stop
Stop ==
  /\ state \in {"running", "paused_idle"} /\ ~InFlight("end")
  /\ ticking' = FALSE /\ beatDue' = FALSE
  /\ Issue(Call("end", <<"settle", "flush">>, EmptyData, TRUE))
  /\ UNCHANGED <<now, lastTick, state, mem, journal, storage, lastSave, counts>>

\* saveOnce, saveCheckpoint
Checkpoint ==
  /\ ticking /\ ~InFlight("checkpoint") /\ now - lastSave >= SaveEvery
  /\ lastSave' = now
  /\ Issue(Save("checkpoint", mem.data))
  /\ UNCHANGED <<clock, state, ticking, mem, journal, storage, counts>>

\* saveNow, which does not ask whether a session is active
SaveNow ==
  /\ state # "down" /\ ~InFlight("save")
  /\ Happens(IF mem.active THEN "save" ELSE "lateSave")
  /\ Issue(Save("save", mem.data))
  /\ UNCHANGED <<clock, state, ticking, mem, journal, storage, lastSave>>

\* tryFlush, behind what the journal writer is doing
Flush ==
  /\ ticking /\ buffer # {}
  /\ \A i \in DOMAIN calls : Head(calls[i].todo) \notin {"flush", "truncate"}
  /\ \/ Works /\ AppendWorks
     \/ Fails("flush") /\ AppendFails
  /\ UNCHANGED <<clock, state, ticking, mem, storage, lastSave, calls>>

\* handleIdleTimeout, handleIdlePause.  Idleness began an idle limit ago, and so
\* before the last heartbeat; the watcher reports again only after another one, by
\* when the pause is over.  That idleness began before the session or the watermark
\* is an incident.
IdlePause ==
  /\ state = "running" /\ ~InFlight("pause")
  /\ \E idleStart \in 1 .. lastTick :
       LET end == Max({mem.data.start, idleStart})
           cut == [Sealed(mem.data, end, 0) EXCEPT !.saved = end]
           d   == IF mem.running THEN cut ELSE mem.data
       IN  /\ IF idleStart >= Max({mem.data.start, mem.data.watermark})
              THEN UNCHANGED counts ELSE Happens("earlyPause")
           /\ \/ /\ mem.active
                 /\ mem' = [mem EXCEPT !.data = [d EXCEPT !.watermark = idleStart],
                                       !.paused = @ \/ mem.running, !.running = FALSE]
                 /\ Issue(Call("pause", <<"truncate">>, EmptyData, FALSE))
                 /\ UNCHANGED state
              \/ ~mem.active /\ state' = "paused_idle" /\ UNCHANGED <<mem, calls>>
  /\ UNCHANGED <<clock, ticking, journal, storage, lastSave>>

\* handleActivity, handleIdleResume; a second activity in the same tick would
\* move nothing.
IdleResume ==
  /\ state = "paused_idle" /\ ~InFlight("resume")
  /\ \/ /\ mem.active
        /\ mem' = [mem EXCEPT !.data.start = now, !.data.saved = now, !.data.watermark = now,
                              !.running = TRUE, !.paused = FALSE]
        /\ Issue(Save("resume", mem'.data))
        /\ UNCHANGED state
     \/ ~mem.active /\ state' = "running" /\ UNCHANGED <<mem, calls>>
  /\ UNCHANGED <<clock, ticking, journal, storage, lastSave, counts>>

-----------------------------------------------------------------------------
(* The heartbeat and the clock.                                            *)

Day(at) == Max({0} \union {m \in Midnights : m <= at})

Cut(end, start) == IF mem.running THEN Sealed(mem.data, end, start) ELSE mem.data
WithWatermark(d, boundary) == [mem EXCEPT !.data = [d EXCEPT !.watermark = boundary]]

\* One slice of one tick, however long ago the last heartbeat was.
SlicePushed(without) ==
  IF mem'.paused THEN UNCHANGED <<buffer, uncovered>>
  ELSE /\ buffer' = buffer \union {now}
       /\ uncovered' = uncovered \union Span(lastTick, now - 1) \union without

\* checkMidnightRotation, rotateSessionAtMidnight, pushSliceAndFlush: a session that
\* was resumed after midnight, in a stall, starts at midnight all the same.
Rotates ==
  /\ mem.active /\ Day(now) # Day(lastTick)
  /\ mem' = WithWatermark(Cut(Day(now), Day(now)), Day(now))
  /\ Issue(Save("rotate", mem'.data))
  /\ SlicePushed(Span(Day(now), mem.data.start))

\* checkSystemResume, handleSystemResume
WakesUp ==
  /\ mem.active /\ now - lastTick > SleepGap
  /\ mem' = WithWatermark(Cut(lastTick, now), now)
  /\ Issue(Save("wake", mem'.data))
  /\ UNCHANGED <<buffer, uncovered>>

BeatsOn ==
  /\ Day(now) = Day(lastTick) \/ ~mem.active
  /\ UNCHANGED <<mem, calls>>
  /\ SlicePushed({})

Heartbeat ==
  /\ ticking /\ beatDue /\ beatDue' = FALSE
  /\ WakesUp \/ (now - lastTick <= SleepGap /\ (Rotates \/ BeatsOn))
  /\ lastTick' = now
  /\ UNCHANGED <<now, file, openLine, rewritten, state, ticking, storage, lastSave, counts>>

\* Between a heartbeat and the next the calls are over.  The next may be late.
AdvanceClock ==
  /\ calls = <<>> /\ (ticking => ~beatDue /\ now - lastSave < SaveEvery)
  /\ \E step \in 1 .. SleepTicks : now + step <= MaxTime /\ now' = now + step
  /\ beatDue' = ticking
  /\ UNCHANGED <<lastTick, state, ticking, mem, journal, storage, lastSave, calls, counts>>

\* The process is killed, or exits.
Crash ==
  /\ state # "down" /\ crashes < MaxCrashes
  /\ state' = "down" /\ ticking' = FALSE /\ beatDue' = FALSE
  /\ mem' = NewMem /\ buffer' = {} /\ uncovered' = {} /\ calls' = <<>> /\ backupCount' = 0
  /\ crashes' = crashes + 1
  /\ UNCHANGED <<now, lastTick, file, openLine, rewritten, disk, lastSave, happened, incidents>>

Init ==
  /\ now = 1 /\ lastTick = 1 /\ beatDue = FALSE
  /\ state = "down" /\ ticking = FALSE /\ mem = NewMem
  /\ buffer = {} /\ file = NoTime /\ openLine = {}
  /\ disk = [primary |-> Missing, backup |-> Missing] /\ backupCount = 0
  /\ lastSave = 1 /\ calls = <<>> /\ crashes = 0 /\ happened = 0
  /\ incidents = {} /\ rewritten = {} /\ uncovered = {}

Next ==
  \/ IO
  \/ Start
  \/ Stop
  \/ Checkpoint
  \/ SaveNow
  \/ Flush
  \/ IdlePause
  \/ IdleResume
  \/ Heartbeat
  \/ AdvanceClock
  \/ Crash

Spec == Init /\ [][Next]_vars

-----------------------------------------------------------------------------
(* Properties.                                                             *)

Data == [total : [1 .. MaxTime -> Nat], start : 0 .. MaxTime, saved : -1 .. MaxTime,
         watermark : 0 .. MaxTime]

TypeOK ==
  /\ now \in 1 .. MaxTime /\ lastTick \in 1 .. now /\ lastSave \in 1 .. now
  /\ state \in {"down", "stopped", "running", "paused_idle"}
  /\ {beatDue, ticking} \subseteq BOOLEAN
  /\ mem \in [data : Data, running : BOOLEAN, paused : BOOLEAN, active : BOOLEAN]
  /\ {buffer, rewritten} \subseteq SUBSET (1 .. now) /\ uncovered \subseteq 1 .. MaxTime
  /\ file \in [1 .. MaxTime -> Nat] /\ openLine \subseteq 0 .. now
  /\ disk \in [primary : Data, backup : Data] /\ backupCount \in 0 .. 2
  /\ \A i \in DOMAIN calls : calls[i].data \in Data /\ calls[i].todo # <<>>

\* What the process counts now, and what the next one would start with.
Counted == IF mem.running THEN Add(mem.data.total, Span(mem.data.start, now)) ELSE mem.data.total
Restored == Recovered(Loaded).total

Without(kinds) == incidents \intersect kinds = {}

\* "Journal replay recovers uncheckpointed deltas on restart without double
\* counting": no tick is counted twice by this process, or would be by one that
\* started now, whatever was saved, replayed or truncated before the last crash
\* and whatever was written to disk of it, as long as no pause dated from before the
\* watermark and no command saved half a session.  The exceptions are the slices
\* that an append had written when it failed, and wrote again.
NoDoubleCounting ==
  Without({"earlyPause", "lateSave"}) =>
    Repeated(Counted) \union Repeated(Restored) \subseteq rewritten

\* The same without that exception: an append that has written a line when it
\* fails, its retry and a crash refute it.  The replay adds every line it reads.
CountedOnce ==
  Without({"earlyPause", "lateSave"}) => Repeated(Counted) \union Repeated(Restored) = {}

\* A crash now would lose no more than the slices still in memory, what came after
\* the last heartbeat, and the ticks without a slice: those of a stall too short for
\* a sleep, but for the last one, those that a late rotation adds before the start of
\* the session, and those whose line an unfinished line has spoilt.
WorkSurvivesCrash ==
  (Ticks(Counted) \intersect 1 .. lastTick) \ (buffer \union uncovered) \subseteq Ticks(Restored)

\* "Guarantees zero data loss": a crash during recovery loses nothing of what
\* that recovery has restored.
RecoverySurvivesCrash ==
  \A i \in DOMAIN calls :
    calls[i].kind = "start" /\ Head(calls[i].todo) # "read" =>
      Ticks(calls[i].data.total) \subseteq Ticks(Restored)

\* A pause and a recovery empty the journal before they save.
Exposed ==
  \E i \in DOMAIN calls : calls[i].kind \in {"pause", "start"} /\ Head(calls[i].todo) = "primary"

\* A crash may cost more than that only between those truncations and their saves,
\* as long as the save succeeds and nothing else is left out of it.
CrashCostsOnlySlicesInMemory ==
  Without({"primary", "truncate", "lateSave"}) /\ ~Exposed =>
    WorkSurvivesCrash /\ RecoverySurvivesCrash

\* The same without the ticks that have no slice, and with no failure at all: a
\* heartbeat that is a tick late and a crash refute it.
StallsSurviveCrash ==
  Without(Incidents) /\ ~Exposed =>
    (Ticks(Counted) \intersect 1 .. lastTick) \ buffer \subseteq Ticks(Restored)

\* "Zero data loss on deactivation": nothing that was counted is lost once stop
\* has returned.
StopLosesNothing == state = "stopped" /\ calls = <<>> => Ticks(mem.data.total) \subseteq Ticks(Restored)

\* It holds as long as workspaceState can be written.
StopLosesNothingUnlessPrimaryFails == Without({"primary"}) => StopLosesNothing
=============================================================================

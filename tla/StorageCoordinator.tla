------------------------- MODULE StorageCoordinator -------------------------
(***************************************************************************)
(* The stores of workspace-timing while the data is replaced:              *)
(* persistence/StorageCoordinator.ts over WorkspaceStateProvider.ts (the   *)
(* primary) and FileStorageProvider.ts (the JSON backup and its staging    *)
(* file), with their callers: checkpoints and saves by command, the end    *)
(* and the start of sessions, and the operations that erase or replace the *)
(* data.                                                                   *)
(*                                                                         *)
(* The operations run one after the other (TimerOrchestrator shows when    *)
(* they do not); saves run beside them and beside each other.  Of data     *)
(* only its age is kept: "old" data holds something of what there was      *)
(* before the first erasure, "new" data nothing, and "none" is no data.    *)
(***************************************************************************)
EXTENDS Naturals, FiniteSets

CONSTANTS
  Commands,    \* saves by command, pause or resume that may be in flight at a time
  MaxCrashes,  \* bounds the crashes of the process
  Faults       \* the stores that may refuse to write
ASSUME StorageAssumption ==
  /\ IsFiniteSet(Commands) /\ {"op", "beat"} \intersect Commands = {}
  /\ MaxCrashes \in Nat /\ Faults \subseteq {"primary", "backup"}

VARIABLES
  mem,      \* the age of the TimerEngine's data; an empty engine is "new"
  active,   \* the SessionManager's _sessionActive
  primary,  \* what workspaceState holds
  backup,   \* what the JSON file holds,
  staging,  \* and its staging file
  count,    \* _fileBackupCount
  pc, held, \* what each call awaits, and what it has loaded or is saving
  operation,\* the operation that runs
  erasure,  \* history: whether an erasure has begun, or is done
  crashes,
  mishaps   \* history: what has gone wrong, recorded at its cause

files == <<backup, staging>>
calls == <<pc, held, operation>>
vars == <<mem, active, primary, files, count, calls, erasure, crashes, mishaps>>

Ages == {"old", "new", "none"}
Threads == {"op", "beat"} \union Commands
Erasers == {"newPeriod", "clearHistory", "resetAllData", "restoreFrom"}
BackupEveryN == 3  \* FILE_BACKUP_EVERY_N

\* A file that is not whole is one whose writer has not finished.
File(data, whole) == [data |-> data, whole |-> whole]
NoFile == File("none", TRUE)

\* A save: its data, whether it must go to the file, what the caller does next.
SaveOf(data, toFile, then) == [data |-> data, toFile |-> toFile, then |-> then]
NoSave == SaveOf("none", FALSE, "idle")

Goto(t, label) == pc' = [pc EXCEPT ![t] = label]
Record(whats) == mishaps' = mishaps \union whats
Mishap(condition, what) == IF condition THEN {what} ELSE {}

Init ==
  /\ mem = "new" /\ active = FALSE
  /\ primary = "old" /\ backup \in {File("old", TRUE), NoFile} /\ staging = NoFile
  /\ count = 0
  /\ pc = [t \in Threads |-> "idle"]
  /\ held = [t \in Threads |-> NoSave]
  /\ operation = "none"
  /\ erasure = "none" /\ crashes = 0 /\ mishaps = {}

-----------------------------------------------------------------------------
(* save, load                                                              *)

\* save, up to its first await: workspaceState has the data at once, or fails.
BeginSave(t, data, forced, then, mishap) ==
  /\ Goto(t, "settling")
  /\ \/ /\ primary' = data
        /\ held' = [held EXCEPT ![t] = SaveOf(data, forced, then)]
        /\ Record(mishap)
     \/ /\ "primary" \in Faults
        /\ held' = [held EXCEPT ![t] = SaveOf(data, TRUE, then)]
        /\ Record(mishap \union {"primaryFailed"})
        /\ UNCHANGED primary

\* save returns; startSession still needs what recover has saved.
Returns(t) ==
  /\ Goto(t, held[t].then)
  /\ held' = IF held[t].then = "beginning" THEN held ELSE [held EXCEPT ![t] = NoSave]

\* Mutant: the target is written in place.
PrimarySettlesInPlace(t) ==
  /\ pc[t] = "settling"
  /\ count' = (count + 1) % BackupEveryN
  /\ IF held[t].toFile \/ count' = 0
     THEN /\ Goto(t, "writing")
          /\ backup' = File(held[t].data, FALSE)
          /\ Record(Mishap(\E u \in Threads \ {t} : pc[u] \in {"writing", "renaming"}, "twoWriters"))
          /\ UNCHANGED held
     ELSE Returns(t) /\ UNCHANGED <<backup, mishaps>>
  /\ UNCHANGED <<mem, active, primary, staging, operation, erasure, crashes>>

\* The update of workspaceState has settled.  Not every save goes to the file.
PrimarySettles(t) ==
  /\ pc[t] = "settling"
  /\ count' = (count + 1) % BackupEveryN
  /\ IF held[t].toFile \/ count' = 0
     THEN /\ Goto(t, "writing")
          /\ staging' = File(held[t].data, FALSE)
          /\ Record(Mishap(\E u \in Threads \ {t} : pc[u] \in {"writing", "renaming"}, "twoWriters"))
          /\ UNCHANGED held
     ELSE Returns(t) /\ UNCHANGED <<staging, mishaps>>
  /\ UNCHANGED <<mem, active, primary, backup, operation, erasure, crashes>>

\* The staging file is written.  When two calls write it, the one that is done
\* last decides what is in it, or they mix, or what is left of it was renamed.
Written(t) ==
  /\ pc[t] = "writing"
  /\ Goto(t, "renaming")
  /\ LET mine == File(held[t].data, TRUE)
     IN  IF "twoWriters" \in mishaps
         THEN \/ staging' \in {mine, File(held[t].data, FALSE)} /\ UNCHANGED backup
              \/ staging = NoFile /\ backup' \in {backup, mine} /\ UNCHANGED staging
         ELSE staging' = mine /\ UNCHANGED backup
  /\ UNCHANGED <<mem, active, primary, count, held, operation, erasure, crashes, mishaps>>

\* rename, which fails when another save has renamed the staging file before.
Renamed(t) ==
  /\ pc[t] = "renaming"
  /\ IF staging = NoFile THEN UNCHANGED files ELSE backup' = staging /\ staging' = NoFile
  /\ Returns(t)
  /\ UNCHANGED <<mem, active, primary, count, operation, erasure, crashes, mishaps>>

\* writeFile or rename rejects: the save goes on, and logs it.
BackupFails(t) ==
  /\ pc[t] \in {"writing", "renaming"} /\ "backup" \in Faults
  /\ Returns(t)
  /\ Record({"backupFailed"})
  /\ UNCHANGED <<mem, active, primary, files, count, operation, erasure, crashes>>

\* What a file holds for load, which does not parse half of one.
Readable(file) == IF file.whole THEN file.data ELSE "none"

\* Mutant: the backup first.
LoadedFromBackup == IF Readable(backup) = "none" THEN "new" ELSE Readable(backup)

\* load: the backup only counts when the primary has nothing.
Loaded ==
  IF primary # "none" THEN primary
  ELSE IF Readable(backup) # "none" THEN Readable(backup)
  ELSE "new"

-----------------------------------------------------------------------------
(* The callers.                                                            *)

\* saveCheckpoint, by the Scheduler while it runs
Checkpoint ==
  /\ pc["beat"] = "idle" /\ active
  /\ BeginSave("beat", mem, FALSE, "idle", {})
  /\ UNCHANGED <<mem, active, files, count, operation, erasure, crashes>>

\* saveCheckpoint, by saveNow at any time, or by a pause or a resume: the data may
\* be that of an engine that is still empty, or has kept what was erased.
SaveNow(c) ==
  /\ pc[c] = "idle"
  /\ BeginSave(c, mem, FALSE, "idle",
               Mishap(erasure # "none" /\ mem = "old", "oldSaved")
                 \union Mishap(erasure = "none" /\ mem = "new", "emptySaved"))
  /\ UNCHANGED <<mem, active, files, count, operation, erasure, crashes>>

Settles == Goto("op", "idle") /\ operation' = "none"

Start ==
  /\ pc["op"] = "idle" /\ ~active
  /\ operation' = "start" /\ Goto("op", "loading")
  /\ UNCHANGED <<mem, active, primary, files, count, held, erasure, crashes, mishaps>>

\* stop, by the caller "what".  The Scheduler has waited for its checkpoint, and
\* the final save is forced.
Stop(what) ==
  /\ pc["op"] = "idle" /\ pc["beat"] = "idle"
  /\ what \in Erasers => erasure = "none"
  /\ operation' = what
  /\ active' = FALSE
  /\ IF active THEN BeginSave("op", mem, TRUE, "replacing", {})
     ELSE Goto("op", "replacing") /\ UNCHANGED <<primary, held, mishaps>>
  /\ UNCHANGED <<mem, files, count, erasure, crashes>>

\* Saves of old data that are in flight when the erasure begins.
InFlight == {t \in Threads : pc[t] \notin {"idle", "replacing"} /\ held[t].data = "old"}

BeginErasure ==
  /\ pc["op"] = "replacing" /\ operation \in Erasers
  /\ erasure' = "begun"

\* newPeriod and clearHistory replace the engine's data, then what is stored.
ReplaceData ==
  /\ BeginErasure /\ operation \in {"newPeriod", "clearHistory"}
  /\ mem' = "new"
  /\ Goto("op", "saving")
  /\ Record(Mishap(InFlight # {}, "oldSaved"))
  /\ UNCHANGED <<active, primary, files, count, held, operation, crashes>>

\* storage.save(fresh, true)
SaveFresh ==
  /\ pc["op"] = "saving"
  /\ BeginSave("op", mem, TRUE, "loading", {})
  /\ UNCHANGED <<mem, active, files, count, operation, erasure, crashes>>

\* restoreFrom replaces what is stored; the engine keeps its data until start.
RestoreData ==
  /\ BeginErasure /\ operation = "restoreFrom"
  /\ Goto("op", "settling")
  /\ held' = [held EXCEPT !["op"] = SaveOf("new", TRUE, "loading")]
  /\ \/ primary' = "new" /\ Record(Mishap(InFlight # {}, "oldSaved"))
     \/ "primary" \in Faults /\ Record({"primaryFailed"}) /\ UNCHANGED primary
  /\ UNCHANGED <<mem, active, files, count, operation, crashes>>

\* deleteAll: first the primary, then the file; an error is ignored.
DeletePrimary ==
  /\ BeginErasure /\ operation = "resetAllData"
  /\ \/ primary' = "none" /\ Record(Mishap(InFlight # {}, "oldSaved"))
     \/ "primary" \in Faults /\ Record({"primaryFailed"}) /\ UNCHANGED primary
  /\ Goto("op", "deleting")
  /\ UNCHANGED <<mem, active, files, count, held, operation, crashes>>

\* Mutant: the file is not deleted.
DeletePrimaryOnly ==
  /\ pc["op"] = "deleting"
  /\ Goto("op", "loading")
  /\ UNCHANGED <<mem, active, primary, files, count, held, operation, erasure, crashes, mishaps>>

DeleteBackup ==
  /\ pc["op"] = "deleting"
  /\ \/ backup' = NoFile /\ UNCHANGED mishaps
     \/ "backup" \in Faults /\ Record({"backupFailed"}) /\ UNCHANGED backup
  /\ Goto("op", "loading")
  /\ UNCHANGED <<mem, active, primary, staging, count, held, operation, erasure, crashes>>

Disable ==
  /\ pc["op"] = "replacing" /\ operation \notin Erasers
  /\ Settles
  /\ UNCHANGED <<mem, active, primary, files, count, held, erasure, crashes, mishaps>>

\* Whether an eraser has got to its start.
ErasureDone == erasure' = IF operation \in Erasers THEN "done" ELSE erasure

\* start of a workspace that is disabled: the engine keeps what it has.
StartRefused ==
  /\ pc["op"] = "loading"
  /\ Settles
  /\ ErasureDone
  /\ Record(Mishap(operation \in Erasers /\ mem = "old", "oldKept"))
  /\ UNCHANGED <<mem, active, primary, files, count, held, crashes>>

\* recover: the data is loaded, the journal replayed, and the result saved.
Load ==
  /\ pc["op"] = "loading"
  /\ Goto("op", "recovering")
  /\ held' = [held EXCEPT !["op"] = SaveOf(Loaded, TRUE, "beginning")]
  /\ ErasureDone
  /\ UNCHANGED <<mem, active, primary, files, count, operation, crashes, mishaps>>

SaveRecovered ==
  /\ pc["op"] = "recovering"
  /\ BeginSave("op", held["op"].data, TRUE, "beginning", {})
  /\ UNCHANGED <<mem, active, files, count, operation, erasure, crashes>>

\* replaceData, and the session starts.
SessionStarts ==
  /\ pc["op"] = "beginning"
  /\ mem' = held["op"].data /\ active' = TRUE
  /\ Settles /\ held' = [held EXCEPT !["op"] = NoSave]
  /\ UNCHANGED <<primary, files, count, erasure, crashes, mishaps>>

\* The process dies; the stores and the files stay.
Crash ==
  /\ crashes < MaxCrashes /\ crashes' = crashes + 1
  /\ mem' = "new" /\ active' = FALSE /\ count' = 0
  /\ pc' = [t \in Threads |-> "idle"]
  /\ held' = [t \in Threads |-> NoSave]
  /\ operation' = "none"
  /\ UNCHANGED <<primary, files, erasure, mishaps>>

-----------------------------------------------------------------------------
Operation ==
  \/ Start
  \/ \E what \in Erasers \union {"disable"} : Stop(what)
  \/ ReplaceData \/ SaveFresh \/ RestoreData \/ DeletePrimary \/ DeleteBackup \/ Disable
  \/ StartRefused \/ Load \/ SaveRecovered \/ SessionStarts
Saving(t) == PrimarySettles(t) \/ Written(t) \/ Renamed(t) \/ BackupFails(t)

Next ==
  \/ Operation
  \/ Checkpoint
  \/ \E c \in Commands : SaveNow(c)
  \/ \E t \in Threads : Saving(t)
  \/ Crash

Spec == Init /\ [][Next]_vars

-----------------------------------------------------------------------------
Labels == {"idle", "settling", "writing", "renaming", "replacing", "saving", "deleting",
           "loading", "recovering", "beginning"}

\* What a caller may do when its save has returned.
Continuations == {"idle", "replacing", "loading", "beginning"}

Saves == [data : Ages, toFile : BOOLEAN, then : Continuations]
Files == [data : Ages, whole : BOOLEAN]

TypeOK ==
  /\ mem \in Ages /\ active \in BOOLEAN
  /\ primary \in Ages /\ backup \in Files /\ staging \in Files
  /\ count \in 0 .. BackupEveryN - 1
  /\ pc \in [Threads -> Labels]
  /\ held \in [Threads -> Saves]
  /\ operation \in Erasers \union {"none", "start", "disable"}
  /\ erasure \in {"none", "begun", "done"} /\ crashes \in 0 .. MaxCrashes
  /\ mishaps \subseteq {"oldSaved", "emptySaved", "oldKept", "primaryFailed", "backupFailed", "twoWriters"}

AtRest == \A t \in Threads : pc[t] = "idle"
Without(causes) == mishaps \intersect causes = {}

\* Data that was erased does not come back: neither the stores nor the engine
\* have any of it once every call has settled, unless a store refused to write,
\* a save of the old data overlapped the erasure or came after it, or the engine
\* kept the old data because start was refused.
ErasedStaysErased ==
  AtRest /\ erasure = "done" /\ Without({"oldSaved", "oldKept", "primaryFailed", "backupFailed"}) =>
    "old" \notin {primary, backup.data, mem}

\* And data that nobody erased stays: whatever fails, crashes or overlaps, the
\* next start finds it, unless an engine that was still empty was saved.
KeptUnlessErased ==
  AtRest /\ erasure = "none" /\ Without({"emptySaved"}) => Loaded = "old" /\ (active => mem = "old")

\* The backup is all or nothing at every moment, also when the process dies or
\* a write fails, as long as no two saves have written the staging file at once.
BackupIsWhole == Without({"twoWriters"}) => backup.whole

\* Why: then at most one save is between the opening of the staging file and
\* its renaming, and a save that renames it has finished writing it.
OneWriter ==
  \A t, u \in Threads : {pc[t], pc[u]} \subseteq {"writing", "renaming"} => t = u
StagedWhole == \A t \in Threads : pc[t] = "renaming" => staging.whole
WriteDiscipline == Without({"twoWriters"}) => backup.whole /\ OneWriter /\ StagedWhole
=============================================================================

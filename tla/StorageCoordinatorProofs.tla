---------------------- MODULE StorageCoordinatorProofs ----------------------
(* For any number of saves, crashes and failures: the JSON backup is never  *)
(* half-written unless two saves were in the staging file together; what    *)
(* nobody erased is kept; and what was erased does not come back, unless    *)
(* something went wrong that the history names.                             *)
EXTENDS StorageCoordinator, TLAPS

Inv == TypeOK /\ WriteDiscipline

\* What saves and files are made of.
LEMMA Records ==
  /\ \A data \in Ages, toFile \in BOOLEAN, then \in Continuations : SaveOf(data, toFile, then) \in Saves
  /\ \A data \in Ages, whole \in BOOLEAN : File(data, whole) \in Files /\ File(data, whole).whole = whole
  /\ NoSave \in Saves /\ NoFile \in Files /\ NoFile.whole
  /\ \A save \in Saves : save.data \in Ages /\ save.then \in Labels \ {"writing", "renaming"}
  /\ \A file \in Files : file.data \in Ages
  BY DEF SaveOf, Saves, File, Files, NoSave, NoFile, Ages, Continuations, Labels

\* Initially the files are whole and nobody writes.
LEMMA InitInv == Init => Inv
  <1> SUFFICES ASSUME Init PROVE Inv
    OBVIOUS
  <1>1. backup \in Files /\ staging \in Files /\ backup.whole
    BY Records DEF Init, Ages
  <1>a. NoSave \in Saves
    BY Records
  <1>b. pc \in [Threads -> Labels] /\ held \in [Threads -> Saves]
    BY <1>a DEF Init, Labels
  <1>c. count \in 0 .. BackupEveryN - 1 /\ crashes \in 0 .. MaxCrashes
    BY StorageAssumption DEF Init, BackupEveryN
  <1>2. TypeOK
    BY <1>1, <1>b, <1>c DEF Init, TypeOK, Ages
  <1> QED BY <1>1, <1>2 DEF Init, Inv, WriteDiscipline, OneWriter, StagedWhole

\* What a save begins with: the files are left alone, and its thread waits.
LEMMA BeginSaveKeeps ==
  ASSUME Inv, NEW t \in Threads, pc[t] \notin {"writing", "renaming"},
         NEW data \in Ages, NEW forced \in BOOLEAN, NEW then \in Continuations,
         NEW mishap \in SUBSET {"oldSaved", "emptySaved"}, BeginSave(t, data, forced, then, mishap),
         UNCHANGED files
  PROVE  /\ primary' \in Ages /\ pc' \in [Threads -> Labels]
         /\ held' \in [Threads -> Saves]
         /\ mishaps' \subseteq {"oldSaved", "emptySaved", "oldKept", "primaryFailed", "backupFailed",
                                "twoWriters"}
         /\ WriteDiscipline'
  <1>1. pc' \in [Threads -> Labels] /\ primary' \in Ages
    BY DEF Inv, TypeOK, BeginSave, Goto, Labels
  <1>a. SaveOf(data, forced, then) \in Saves /\ SaveOf(data, TRUE, then) \in Saves
    BY Records
  <1>2. held' \in [Threads -> Saves]
    BY <1>a DEF Inv, TypeOK, BeginSave
  <1>3. mishaps \subseteq mishaps'
        /\ mishaps' \subseteq mishaps \union {"oldSaved", "emptySaved", "primaryFailed"}
    BY DEF BeginSave, Record
  <1>4. pc' = [pc EXCEPT ![t] = "settling"]
    BY DEF BeginSave, Goto
  <1>5. WriteDiscipline'
    BY <1>3, <1>4 DEF Inv, TypeOK, WriteDiscipline, OneWriter, StagedWhole, Without, files
  <1> QED BY <1>1, <1>2, <1>3, <1>5 DEF Inv, TypeOK

\* A step that leaves the files alone and moves one thread to a place where it
\* does not write keeps the discipline.
LEMMA DisciplineKept ==
  ASSUME Inv, NEW t \in Threads, NEW label \in Labels \ {"writing", "renaming"},
         pc' = [pc EXCEPT ![t] = label], UNCHANGED staging, backup' \in {backup, NoFile},
         mishaps \subseteq mishaps'
  PROVE  WriteDiscipline'
  BY Records DEF Inv, TypeOK, WriteDiscipline, OneWriter, StagedWhole, Without

\* The parts of a save after the primary has answered.
LEMMA SavingKeeps ==
  ASSUME Inv, NEW t \in Threads, Saving(t)
  PROVE  Inv'
  <1> USE DEF Inv
  <1>0. /\ NoFile \in Files /\ NoFile.whole /\ NoSave \in Saves
        /\ held[t].then \in Labels \ {"writing", "renaming"} /\ held[t].data \in Ages
        /\ \A whole \in BOOLEAN : /\ File(held[t].data, whole) \in Files
                                /\ File(held[t].data, whole).whole = whole
    BY Records DEF TypeOK
  <1>1. ASSUME Returns(t)
        PROVE  /\ pc' \in [Threads -> Labels] /\ pc' = [pc EXCEPT ![t] = held[t].then]
               /\ held' \in [Threads -> Saves]
    BY <1>0, <1>1 DEF TypeOK, Returns, Goto
  <1>2. CASE PrimarySettles(t) /\ (held[t].toFile \/ count' = 0)
    <2>1. pc' = [pc EXCEPT ![t] = "writing"] /\ staging' = File(held[t].data, FALSE) /\ UNCHANGED backup
      BY <1>2 DEF PrimarySettles, Goto
    <2>2. mishaps' = mishaps \union
                     Mishap(\E u \in Threads \ {t} : pc[u] \in {"writing", "renaming"}, "twoWriters")
      BY <1>2 DEF PrimarySettles, Record
    <2>a. count' \in 0 .. BackupEveryN - 1
      BY <1>2 DEF TypeOK, PrimarySettles, BackupEveryN
    <2>b. mishaps' \subseteq mishaps \union {"twoWriters"}
      BY <2>2 DEF Mishap
    <2>c. staging' \in Files /\ pc' \in [Threads -> Labels]
      BY <2>1, <1>0 DEF TypeOK, Labels
    <2>d. UNCHANGED <<mem, active, primary, backup, held, operation, erasure, crashes>>
      BY <1>2 DEF PrimarySettles
    <2>3. TypeOK'
      BY <2>a, <2>b, <2>c, <2>d DEF TypeOK
    <2>4. ASSUME "twoWriters" \notin mishaps'
          PROVE  "twoWriters" \notin mishaps /\ \A u \in Threads \ {t} : pc[u] \notin {"writing", "renaming"}
      BY <2>2, <2>4 DEF Mishap
    <2>5. WriteDiscipline'
      BY <2>1, <2>4 DEF TypeOK, WriteDiscipline, OneWriter, StagedWhole, Without
    <2> QED BY <2>3, <2>5
  <1>3. CASE PrimarySettles(t) /\ ~(held[t].toFile \/ count' = 0)
    <2>1. Returns(t) /\ UNCHANGED <<staging, backup, mishaps>>
      BY <1>3 DEF PrimarySettles
    <2>2. TypeOK'
      BY <1>3, <2>1, <1>1 DEF TypeOK, PrimarySettles, BackupEveryN
    <2>3. WriteDiscipline'
      BY <2>1, <1>0, <1>1, DisciplineKept
    <2> QED BY <2>2, <2>3
  <1>4. CASE Written(t)
    <2>1. pc' = [pc EXCEPT ![t] = "renaming"] /\ UNCHANGED mishaps
      BY <1>4 DEF Written, Goto
    <2>2. TypeOK'
      BY <1>4, <2>1, <1>0 DEF TypeOK, Written, Labels
    <2>3. ASSUME "twoWriters" \notin mishaps
          PROVE  staging' = File(held[t].data, TRUE) /\ UNCHANGED backup
      BY <1>4, <2>3 DEF Written
    <2>4. ASSUME "twoWriters" \notin mishaps
          PROVE  backup'.whole /\ OneWriter' /\ StagedWhole'
      <3>1. pc[t] = "writing" /\ backup.whole /\ OneWriter
        BY <1>4, <2>4 DEF Written, WriteDiscipline, Without
      <3>2. \A u \in Threads \ {t} : pc[u] \notin {"writing", "renaming"}
        BY <3>1 DEF OneWriter
      <3>3. staging'.whole /\ backup'.whole
        BY <2>3, <2>4, <3>1, <1>0
      <3> QED BY <2>1, <3>2, <3>3 DEF TypeOK, OneWriter, StagedWhole
    <2>5. WriteDiscipline'
      BY <2>1, <2>4 DEF WriteDiscipline, Without
    <2> QED BY <2>2, <2>5
  <1>5. CASE Renamed(t)
    <2>1. Returns(t) /\ UNCHANGED mishaps
      BY <1>5 DEF Renamed
    <2>2. TypeOK'
      BY <1>5, <2>1, <1>0, <1>1 DEF TypeOK, Renamed, files
    <2>3. WriteDiscipline'
      BY <1>5, <2>1, <1>0, <1>1 DEF TypeOK, WriteDiscipline, OneWriter, StagedWhole, Without, Renamed, files
    <2> QED BY <2>2, <2>3
  <1>6. CASE BackupFails(t)
    <2>1. Returns(t) /\ UNCHANGED files /\ mishaps' = mishaps \union {"backupFailed"}
      BY <1>6 DEF BackupFails, Record
    <2>2. TypeOK'
      BY <1>6, <2>1, <1>1 DEF TypeOK, BackupFails, files
    <2>3. WriteDiscipline'
      BY <2>1, <1>0, <1>1, DisciplineKept DEF files
    <2> QED BY <2>2, <2>3
  <1> QED BY <1>2, <1>3, <1>4, <1>5, <1>6 DEF Saving

\* The callers of save, and the steps of the operations.
LEMMA CallersKeep ==
  ASSUME Inv, Operation \/ Checkpoint \/ \E c \in Commands : SaveNow(c)
  PROVE  Inv'
  <1> USE DEF Inv
  <1>0. /\ mem \in Ages /\ held["op"].data \in Ages /\ {"old", "new"} \subseteq Ages
        /\ {"op", "beat"} \subseteq Threads /\ Commands \subseteq Threads
        /\ {"idle", "replacing", "loading", "beginning"} = Continuations
        /\ NoSave \in Saves
    BY Records DEF TypeOK, Ages, Threads, Continuations
  <1>1. CASE Checkpoint
    <2>1. BeginSave("beat", mem, FALSE, "idle", {}) /\ UNCHANGED files /\ pc["beat"] = "idle"
      BY <1>1 DEF Checkpoint
    <2> QED BY <1>0, <1>1, <2>1, BeginSaveKeeps DEF TypeOK, Checkpoint, files
  <1>2. ASSUME NEW c \in Commands, SaveNow(c)
        PROVE  Inv'
    <2> DEFINE why == Mishap(erasure # "none" /\ mem = "old", "oldSaved")
                        \union Mishap(erasure = "none" /\ mem = "new", "emptySaved")
    <2>1. BeginSave(c, mem, FALSE, "idle", why) /\ UNCHANGED files /\ pc[c] = "idle"
      BY <1>2 DEF SaveNow
    <2>2. why \in SUBSET {"oldSaved", "emptySaved"}
      BY DEF Mishap
    <2> HIDE DEF why
    <2> QED BY <1>0, <1>2, <2>1, <2>2, BeginSaveKeeps DEF TypeOK, SaveNow, files
  <1>3. ASSUME NEW what \in Erasers \union {"disable"}, Stop(what)
        PROVE  Inv'
    <2>1. CASE active
      <3>1. BeginSave("op", mem, TRUE, "replacing", {}) /\ UNCHANGED files /\ pc["op"] = "idle"
        BY <1>3, <2>1 DEF Stop
      <3> QED BY <1>0, <1>3, <3>1, BeginSaveKeeps DEF TypeOK, Stop, files
    <2>2. CASE ~active
      <3>1. pc' = [pc EXCEPT !["op"] = "replacing"] /\ UNCHANGED <<primary, held, mishaps, files>>
        BY <1>3, <2>2 DEF Stop, Goto
      <3>2. WriteDiscipline'
        BY <1>0, <3>1, DisciplineKept DEF Labels, files
      <3> QED BY <1>3, <3>1, <3>2 DEF TypeOK, Stop, Labels, files
    <2> QED BY <2>1, <2>2
  <1>4. CASE SaveFresh
    <2>1. BeginSave("op", mem, TRUE, "loading", {}) /\ UNCHANGED files /\ pc["op"] = "saving"
      BY <1>4 DEF SaveFresh
    <2> QED BY <1>0, <1>4, <2>1, BeginSaveKeeps DEF TypeOK, SaveFresh, files
  <1>5. CASE SaveRecovered
    <2>1. BeginSave("op", held["op"].data, TRUE, "beginning", {}) /\ UNCHANGED files /\ pc["op"] = "recovering"
      BY <1>5 DEF SaveRecovered
    <2> DEFINE data == held["op"].data
    <2>2. data \in Ages /\ BeginSave("op", data, TRUE, "beginning", {})
      BY <1>0, <2>1
    <2> HIDE DEF data
    <2>3. /\ primary' \in Ages /\ pc' \in [Threads -> Labels] /\ held' \in [Threads -> Saves]
          /\ mishaps' \subseteq {"oldSaved", "emptySaved", "oldKept", "primaryFailed", "backupFailed",
                                 "twoWriters"}
          /\ WriteDiscipline'
      BY <1>0, <2>1, <2>2, BeginSaveKeeps
    <2> QED BY <1>5, <2>3 DEF TypeOK, SaveRecovered, files
  <1>6. CASE Start \/ Disable \/ ReplaceData \/ StartRefused
    <2>1. PICK label \in {"loading", "idle", "saving"} :
            pc' = [pc EXCEPT !["op"] = label]
      BY <1>6 DEF Start, Disable, ReplaceData, StartRefused, Settles, Goto
    <2>2. UNCHANGED <<files, primary, held>> /\ mishaps \subseteq mishaps'
          /\ mishaps' \subseteq mishaps \union {"oldSaved", "oldKept"}
      BY <1>6 DEF Start, Disable, ReplaceData, StartRefused, Record, Mishap
    <2>3. WriteDiscipline'
      BY <1>0, <2>1, <2>2, DisciplineKept DEF Labels, files
    <2>4. TypeOK'
      BY <1>6, <2>1, <2>2 DEF TypeOK, Start, Disable, ReplaceData, StartRefused, BeginErasure, Settles, Ages,
                              ErasureDone, Labels, Erasers, files
    <2> QED BY <2>3, <2>4
  <1>7. CASE RestoreData \/ DeletePrimary
    <2>1. PICK label \in {"settling", "deleting"} : pc' = [pc EXCEPT !["op"] = label]
      BY <1>7 DEF RestoreData, DeletePrimary, Goto
    <2>2. UNCHANGED files /\ mishaps \subseteq mishaps'
          /\ mishaps' \subseteq mishaps \union {"oldSaved", "primaryFailed"}
      BY <1>7 DEF RestoreData, DeletePrimary, Record, Mishap
    <2>3. WriteDiscipline'
      BY <1>0, <2>1, <2>2, DisciplineKept DEF Labels, files
    <2>a. SaveOf("new", TRUE, "loading") \in Saves
      BY <1>0, Records
    <2>4. held' \in [Threads -> Saves] /\ primary' \in Ages
      BY <1>7, <2>a DEF RestoreData, DeletePrimary, TypeOK, Ages
    <2>5. TypeOK'
      BY <1>7, <2>1, <2>2, <2>4 DEF TypeOK, RestoreData, DeletePrimary, BeginErasure, Labels, files
    <2> QED BY <2>3, <2>5
  <1>8. CASE DeleteBackup
    <2>1. pc' = [pc EXCEPT !["op"] = "loading"] /\ UNCHANGED staging /\ backup' \in {backup, NoFile}
          /\ mishaps \subseteq mishaps' /\ mishaps' \subseteq mishaps \union {"backupFailed"}
      BY <1>8 DEF DeleteBackup, Goto, Record
    <2>2. WriteDiscipline'
      BY <1>0, <2>1, DisciplineKept DEF Labels
    <2>3. TypeOK'
      BY <1>8, <2>1, Records DEF TypeOK, DeleteBackup, Labels
    <2> QED BY <2>2, <2>3
  <1>9. CASE Load \/ SessionStarts
    <2>1. PICK label \in {"recovering", "idle"} : pc' = [pc EXCEPT !["op"] = label]
      BY <1>9 DEF Load, SessionStarts, Settles, Goto
    <2>2. UNCHANGED <<files, mishaps, primary>>
      BY <1>9 DEF Load, SessionStarts
    <2>3. WriteDiscipline'
      BY <1>0, <2>1, <2>2, DisciplineKept DEF Labels, files
    <2>4. Loaded \in Ages
      BY Records DEF Loaded, Readable, TypeOK, Ages
    <2>5. held' \in [Threads -> Saves]
      <3>1. SaveOf(Loaded, TRUE, "beginning") \in Saves
        BY <1>0, <2>4, Records
      <3> QED BY <1>0, <1>9, <3>1 DEF Load, SessionStarts, TypeOK
    <2>6. TypeOK'
      BY <1>0, <1>9, <2>1, <2>2, <2>5 DEF TypeOK, Load, SessionStarts, ErasureDone, Settles, Labels, Erasers, files
    <2> QED BY <2>3, <2>6
  <1> QED
    BY <1>1, <1>2, <1>3, <1>4, <1>5, <1>6, <1>7, <1>8, <1>9 DEF Operation

\* A crash leaves the files as they are, and no writer.
LEMMA CrashKeeps == ASSUME Inv, Crash PROVE Inv'
  <1> SUFFICES ASSUME Inv, Crash PROVE Inv'
    OBVIOUS
  <1>1. NoSave \in Saves
    BY Records
  <1>2. pc' \in [Threads -> Labels] /\ held' \in [Threads -> Saves]
    BY <1>1 DEF Crash, Labels
  <1>3. count' \in 0 .. BackupEveryN - 1 /\ crashes' \in 0 .. MaxCrashes
    BY StorageAssumption DEF Inv, TypeOK, Crash, BackupEveryN
  <1>4. TypeOK'
    BY <1>2, <1>3 DEF Inv, TypeOK, Crash, Ages, files
  <1>5. WriteDiscipline'
    BY DEF Inv, Crash, WriteDiscipline, OneWriter, StagedWhole, Without, files
  <1> QED BY <1>4, <1>5 DEF Inv

\* Inv holds in every reachable state, whatever the number of saves, crashes
\* and failures.
THEOREM Invariance == Spec => []Inv
  <1>1. Inv /\ [Next]_vars => Inv'
    <2> SUFFICES ASSUME Inv, [Next]_vars PROVE Inv'
      OBVIOUS
    <2>1. CASE Next
      BY <2>1, CallersKeep, SavingKeeps, CrashKeeps DEF Next
    <2>2. CASE UNCHANGED vars
      BY <2>2 DEF Inv, TypeOK, WriteDiscipline, OneWriter, StagedWhole, Without, vars, files, calls
    <2> QED BY <2>1, <2>2
  <1> QED BY InitInv, <1>1, PTL DEF Spec

\* The state keeps its types; in particular every save returns to one of the
\* four places its callers name.
THEOREM TypeCorrect == Spec => []TypeOK
  <1>1. Inv => TypeOK
    BY DEF Inv
  <1> QED BY Invariance, <1>1, PTL

\* The backup is whole at every moment unless two saves were in the staging
\* file at once.
THEOREM AtomicBackup == Spec => []BackupIsWhole
  <1>1. Inv => BackupIsWhole
    BY DEF Inv, WriteDiscipline, BackupIsWhole
  <1> QED BY Invariance, <1>1, PTL

-----------------------------------------------------------------------------
(* What the calls hold while they run.                                     *)

\* A thread holds data exactly while a save is in flight, or what it recovered;
\* those outside the operation only save, and return to where they came from.
Holds(t) ==
  IF pc[t] \in {"idle", "replacing", "saving", "deleting", "loading"} THEN held[t] = NoSave
  ELSE held[t].data # "none"
HeldInFlight == \A t \in Threads : Holds(t)
OthersSave ==
  \A t \in Threads \ {"op"} :
    pc[t] \in {"idle", "settling", "writing", "renaming"} /\ held[t].then = "idle"

\* The operation holds what it recovered until its session starts, erases
\* between its replacing and its loading, when no session runs, and always
\* saves to the file.
OperationHolds ==
  /\ held["op"].then = "idle" => held["op"] = NoSave
  /\ pc["op"] \in {"recovering", "beginning"} => held["op"].then = "beginning"
  /\ pc["op"] \in {"settling", "writing", "renaming"} => held["op"].toFile
  /\ pc["op"] = "replacing" \/ held["op"].then = "replacing" => ~active

Erasing == operation \in Erasers /\ erasure = "begun"
ErasingRuns ==
  /\ \/ pc["op"] \in {"saving", "deleting"} \/ held["op"].then = "loading"
     \/ pc["op"] = "loading" /\ operation \in Erasers
     => Erasing
  /\ Erasing => /\ ~active
                /\ pc["op"] \in {"saving", "deleting", "loading", "settling", "writing", "renaming"}
                /\ pc["op"] \in {"settling", "writing", "renaming"} => held["op"].then = "loading"
                /\ pc["op"] = "saving" => mem = "new"

CallInv == mem # "none" /\ HeldInFlight /\ OthersSave /\ OperationHolds /\ ErasingRuns

\* Initially no call is made.
LEMMA InitCalls == Init => CallInv
  BY DEF Init, CallInv, HeldInFlight, Holds, OthersSave, OperationHolds, ErasingRuns, Erasing, NoSave, SaveOf, Threads

\* A save begins only where none is held, or with what was recovered.
LEMMA BeginSaveShape ==
  ASSUME NEW t \in Threads, NEW STATE data, NEW forced \in BOOLEAN, NEW then,
         NEW STATE mishap, BeginSave(t, data, forced, then, mishap)
  PROVE  /\ pc' = [pc EXCEPT ![t] = "settling"]
         /\ \E toFile \in BOOLEAN : /\ forced => toFile
                                    /\ held' = [held EXCEPT ![t] = SaveOf(data, toFile, then)]
         /\ primary' = data \/ (UNCHANGED primary /\ "primaryFailed" \in mishaps')
         /\ mishaps \subseteq mishaps' /\ mishap \subseteq mishaps'
  BY DEF BeginSave, Goto, Record

\* A save in flight goes on, or returns; the operation's does not return before
\* it has written the file.
LEMMA SavingShape ==
  ASSUME Inv, CallInv, NEW t \in Threads, Saving(t)
  PROVE  /\ pc[t] \in {"settling", "writing", "renaming"}
         /\ \/ /\ \E label \in {"writing", "renaming"} : pc' = [pc EXCEPT ![t] = label]
               /\ UNCHANGED held
            \/ /\ t = "op" => pc[t] # "settling"
               /\ pc' = [pc EXCEPT ![t] = held[t].then]
               /\ held' = IF held[t].then = "beginning" THEN held ELSE [held EXCEPT ![t] = NoSave]
         /\ UNCHANGED <<mem, active, primary, operation, erasure>>
         /\ mishaps \subseteq mishaps'
  <1>1. pc[t] \in {"settling", "writing", "renaming"} /\ UNCHANGED <<mem, active, primary, operation, erasure>>
        /\ mishaps \subseteq mishaps'
    BY DEF Saving, PrimarySettles, Written, Renamed, BackupFails, Record
  <1>2. CASE PrimarySettles(t) /\ (held[t].toFile \/ count' = 0)
    BY <1>1, <1>2 DEF PrimarySettles, Goto
  <1>3. CASE PrimarySettles(t) /\ ~(held[t].toFile \/ count' = 0)
    BY <1>1, <1>3 DEF PrimarySettles, Returns, Goto, CallInv, OperationHolds
  <1>4. CASE Written(t)
    BY <1>1, <1>4 DEF Written, Goto
  <1>5. CASE Renamed(t) \/ BackupFails(t)
    BY <1>1, <1>5 DEF Renamed, BackupFails, Returns, Goto
  <1> QED BY <1>1, <1>2, <1>3, <1>4, <1>5 DEF Saving

LEMMA SavingHolds ==
  ASSUME Inv, CallInv, NEW t \in Threads, Saving(t)
  PROVE  CallInv'
  <1> USE DEF Inv, TypeOK
  <1>0. held[t] \in Saves /\ held[t].then \in Continuations /\ "op" \in Threads /\ NoSave.then = "idle"
    BY DEF Saves, Threads, NoSave, SaveOf
  <1>1. pc[t] \in {"settling", "writing", "renaming"} /\ UNCHANGED <<mem, active, primary, operation, erasure>>
    BY SavingShape
  <1>2. ASSUME NEW label \in {"writing", "renaming"}, pc' = [pc EXCEPT ![t] = label], UNCHANGED held
        PROVE  CallInv'
    BY <1>0, <1>1, <1>2 DEF CallInv, HeldInFlight, Holds, OthersSave, OperationHolds, ErasingRuns, Erasing
  <1>3. CASE /\ t = "op" => pc[t] # "settling"
             /\ pc' = [pc EXCEPT ![t] = held[t].then]
             /\ held' = IF held[t].then = "beginning" THEN held ELSE [held EXCEPT ![t] = NoSave]
    <2>1. HeldInFlight' /\ OthersSave'
      BY <1>0, <1>1, <1>3 DEF CallInv, HeldInFlight, Holds, OthersSave, Continuations
    <2>2. OperationHolds'
      BY <1>0, <1>1, <1>3 DEF CallInv, OperationHolds, Continuations
    <2>3. ErasingRuns'
      BY <1>0, <1>1, <1>3 DEF CallInv, ErasingRuns, Erasing, Continuations
    <2> QED BY <1>1, <2>1, <2>2, <2>3 DEF CallInv
  <1> QED BY <1>2, <1>3, SavingShape

\* A call outside the operation begins a save, of data that there is.
LEMMA OthersHold ==
  ASSUME Inv, CallInv, Checkpoint \/ \E c \in Commands : SaveNow(c)
  PROVE  CallInv'
  <1> USE DEF Inv, TypeOK
  <1>1. PICK t \in Threads \ {"op"}, toFile \in BOOLEAN :
          /\ pc[t] = "idle" /\ pc' = [pc EXCEPT ![t] = "settling"]
          /\ held' = [held EXCEPT ![t] = SaveOf(mem, toFile, "idle")]
    BY StorageAssumption DEF Checkpoint, SaveNow, BeginSave, Goto, Threads
  <1>2. UNCHANGED <<mem, active, operation, erasure>>
    BY DEF Checkpoint, SaveNow
  <1>3. "op" \in Threads
    BY DEF Threads
  <1> QED
    BY <1>1, <1>2, <1>3 DEF CallInv, HeldInFlight, Holds, OthersSave, OperationHolds, ErasingRuns, Erasing, SaveOf

\* The steps of the operation.
LEMMA OperationKeepsCalls == ASSUME Inv, CallInv, Operation PROVE CallInv'
  <1> USE DEF Inv, TypeOK
  <1>0. "op" \in Threads /\ "none" \notin Erasers /\ "start" \notin Erasers /\ "disable" \notin Erasers
        /\ NoSave.then = "idle"
    BY DEF Threads, Erasers, NoSave, SaveOf
  <1>a. \A t \in Threads \ {"op"} : pc'[t] = pc[t] /\ held'[t] = held[t]
    BY DEF Operation, Start, Stop, ReplaceData, SaveFresh, RestoreData, DeletePrimary, DeleteBackup, Disable,
           StartRefused, Load, SaveRecovered, SessionStarts, BeginSave, BeginErasure, Settles, Goto
  <1>b. OthersSave'
    BY <1>a DEF CallInv, OthersSave
  <1>c. ASSUME Holds("op")'
        PROVE  HeldInFlight'
    BY <1>a, <1>c DEF CallInv, HeldInFlight, Holds
  <1>1. CASE Start
    <2>1. HeldInFlight'
      <3>1. Holds("op")'
        BY <1>0, <1>1 DEF Start, Goto, CallInv, HeldInFlight, Holds
      <3> QED BY <3>1, <1>c
    <2> QED BY <1>0, <1>b, <1>1, <2>1 DEF Start, Goto, CallInv, OperationHolds, ErasingRuns, Erasing
  <1>2. ASSUME NEW what \in Erasers \union {"disable"}, Stop(what)
        PROVE  CallInv'
    <2>0. held["op"] = NoSave /\ ~Erasing' /\ mem' = mem /\ ~active'
      BY <1>0, <1>2 DEF Stop, CallInv, HeldInFlight, Holds, Erasing
    <2>1. CASE active
      <3>1. PICK toFile \in BOOLEAN :
              /\ toFile /\ held' = [held EXCEPT !["op"] = SaveOf(mem, toFile, "replacing")]
              /\ pc' = [pc EXCEPT !["op"] = "settling"]
        BY <1>2, <2>1 DEF Stop, BeginSave, Goto
      <3>2. HeldInFlight'
        <4>1. Holds("op")'
          BY <1>0, <3>1 DEF Holds, CallInv, SaveOf
        <4> QED BY <4>1, <1>c
      <3> QED BY <1>0, <1>b, <2>0, <3>1, <3>2 DEF CallInv, OperationHolds, ErasingRuns, SaveOf
    <2>2. CASE ~active
      <3>1. pc' = [pc EXCEPT !["op"] = "replacing"] /\ UNCHANGED held
        BY <1>2, <2>2 DEF Stop, Goto
      <3>2. HeldInFlight'
        <4>1. Holds("op")'
          BY <1>0, <2>0, <3>1 DEF Holds
        <4> QED BY <4>1, <1>c
      <3> QED BY <1>0, <1>b, <2>0, <3>1, <3>2 DEF CallInv, OperationHolds, ErasingRuns
    <2> QED BY <2>1, <2>2
  <1>3. CASE ReplaceData \/ DeletePrimary
    <2>1. /\ \/ pc' = [pc EXCEPT !["op"] = "saving"] /\ mem' = "new"
             \/ pc' = [pc EXCEPT !["op"] = "deleting"] /\ UNCHANGED mem
          /\ pc["op"] = "replacing" /\ erasure' = "begun" /\ operation' \in Erasers
          /\ UNCHANGED <<held, active>>
      BY <1>3 DEF ReplaceData, DeletePrimary, BeginErasure, Goto
    <2>2. held["op"] = NoSave /\ ~active
      BY <1>0, <2>1 DEF CallInv, HeldInFlight, Holds, OperationHolds
    <2>3. HeldInFlight'
      <3>1. Holds("op")'
        BY <1>0, <2>1, <2>2 DEF Holds
      <3> QED BY <3>1, <1>c
    <2> QED BY <1>0, <1>b, <2>1, <2>2, <2>3 DEF CallInv, OperationHolds, ErasingRuns, Erasing
  <1>4. CASE RestoreData
    <2>1. /\ pc["op"] = "replacing" /\ pc' = [pc EXCEPT !["op"] = "settling"]
          /\ held' = [held EXCEPT !["op"] = SaveOf("new", TRUE, "loading")]
          /\ UNCHANGED <<mem, active>> /\ Erasing'
      BY <1>4 DEF Erasing, RestoreData, BeginErasure, Goto
    <2>2. ~active
      BY <2>1 DEF CallInv, OperationHolds
    <2>3. HeldInFlight'
      <3>1. Holds("op")'
        BY <1>0, <2>1 DEF Holds, CallInv, HeldInFlight, SaveOf, NoSave
      <3> QED BY <3>1, <1>c
    <2> QED BY <1>0, <1>b, <2>1, <2>2, <2>3 DEF CallInv, OperationHolds, ErasingRuns, Erasing, SaveOf
  <1>5. CASE SaveFresh \/ SaveRecovered
    <2>1. PICK toFile \in BOOLEAN, data \in {mem, held["op"].data}, then \in {"loading", "beginning"} :
            /\ toFile /\ held' = [held EXCEPT !["op"] = SaveOf(data, toFile, then)]
            /\ pc' = [pc EXCEPT !["op"] = "settling"]
            /\ \/ pc["op"] = "saving" /\ then = "loading" /\ data = mem
               \/ pc["op"] = "recovering" /\ then = "beginning" /\ data = held["op"].data
      BY <1>5 DEF SaveFresh, SaveRecovered, BeginSave, Goto
    <2>2. UNCHANGED <<mem, active, operation, erasure>>
      BY <1>5 DEF SaveFresh, SaveRecovered
    <2>3. HeldInFlight'
      <3>a. pc["op"] = "recovering" => held["op"].data # "none"
        BY <1>0 DEF CallInv, HeldInFlight, Holds
      <3>b. mem # "none"
        BY DEF CallInv
      <3>0. data # "none"
        BY <2>1, <3>a, <3>b
      <3>1. Holds("op")'
        BY <1>0, <2>1, <3>0 DEF Holds, SaveOf
      <3> QED BY <3>1, <1>c
    <2>4. OperationHolds'
      BY <1>0, <2>1, <2>2 DEF CallInv, OperationHolds, SaveOf
    <2>5. ErasingRuns'
      BY <1>0, <2>1, <2>2 DEF CallInv, ErasingRuns, Erasing, SaveOf
    <2> QED BY <1>b, <2>2, <2>3, <2>4, <2>5 DEF CallInv
  <1>6. CASE DeleteBackup
    <2>1. /\ pc["op"] = "deleting" /\ pc' = [pc EXCEPT !["op"] = "loading"]
          /\ UNCHANGED <<mem, active, held, operation, erasure>>
      BY <1>6 DEF DeleteBackup, Goto
    <2>2. held["op"] = NoSave
      BY <1>0, <2>1 DEF CallInv, HeldInFlight, Holds
    <2>3. HeldInFlight'
      <3>1. Holds("op")'
        BY <1>0, <2>1, <2>2 DEF Holds
      <3> QED BY <3>1, <1>c
    <2> QED BY <1>0, <1>b, <2>1, <2>2, <2>3 DEF CallInv, OperationHolds, ErasingRuns, Erasing
  <1>7. CASE Disable \/ StartRefused
    <2>1. /\ pc["op"] \in {"replacing", "loading"} /\ pc' = [pc EXCEPT !["op"] = "idle"]
          /\ UNCHANGED <<mem, active, held>> /\ operation' = "none"
      BY <1>7 DEF Disable, StartRefused, Settles, Goto
    <2>2. held["op"] = NoSave /\ ~Erasing'
      BY <1>0, <2>1 DEF CallInv, HeldInFlight, Holds, Erasing
    <2>3. HeldInFlight'
      <3>1. Holds("op")'
        BY <1>0, <2>1, <2>2 DEF Holds
      <3> QED BY <3>1, <1>c
    <2> QED BY <1>0, <1>b, <2>1, <2>2, <2>3 DEF CallInv, OperationHolds, ErasingRuns
  <1>8. CASE Load
    <2>1. /\ pc["op"] = "loading" /\ pc' = [pc EXCEPT !["op"] = "recovering"]
          /\ held' = [held EXCEPT !["op"] = SaveOf(Loaded, TRUE, "beginning")]
          /\ UNCHANGED <<mem, active, operation>>
          /\ erasure' = IF operation \in Erasers THEN "done" ELSE erasure
      BY <1>8 DEF Load, ErasureDone, Goto
    <2>2. Loaded # "none" /\ ~Erasing'
      BY <2>1 DEF Loaded, Erasing
    <2>3. HeldInFlight'
      <3>1. Holds("op")'
        BY <1>0, <2>1, <2>2 DEF Holds, SaveOf
      <3> QED BY <3>1, <1>c
    <2> QED BY <1>0, <1>b, <2>1, <2>2, <2>3 DEF CallInv, OperationHolds, ErasingRuns, SaveOf
  <1>9. CASE SessionStarts
    <2>1. /\ pc["op"] = "beginning" /\ pc' = [pc EXCEPT !["op"] = "idle"]
          /\ held' = [held EXCEPT !["op"] = NoSave]
          /\ mem' = held["op"].data /\ operation' = "none"
      BY <1>9 DEF SessionStarts, Settles, Goto
    <2>2. mem' # "none" /\ ~Erasing'
      BY <1>0, <2>1 DEF CallInv, HeldInFlight, Holds, Erasing
    <2>3. HeldInFlight'
      <3>0. pc'["op"] = "idle" /\ held'["op"] = NoSave
        BY <1>0, <2>1
      <3>1. Holds("op")'
        BY <3>0 DEF Holds
      <3> QED BY <3>1, <1>c
    <2> QED BY <1>0, <1>b, <2>1, <2>2, <2>3 DEF CallInv, OperationHolds, ErasingRuns, NoSave, SaveOf
  <1> QED BY <1>1, <1>2, <1>3, <1>4, <1>5, <1>6, <1>7, <1>8, <1>9 DEF Operation

LEMMA CrashDropsCalls == ASSUME Inv, CallInv, Crash PROVE CallInv'
  <1>1. "none" \notin Erasers /\ "op" \in Threads /\ NoSave.then = "idle"
    BY DEF Erasers, Threads, NoSave, SaveOf
  <1>2. /\ \A t \in Threads : pc'[t] = "idle" /\ held'[t] = NoSave
        /\ mem' = "new" /\ operation' = "none"
    BY DEF Crash
  <1> QED
    BY <1>1, <1>2 DEF CallInv, HeldInFlight, Holds, OthersSave, OperationHolds, ErasingRuns, Erasing

\* What the calls hold, in every reachable state.
THEOREM CallInvariance == Spec => []CallInv
  <1>1. Inv /\ CallInv /\ [Next]_vars => CallInv'
    <2> SUFFICES ASSUME Inv, CallInv, [Next]_vars PROVE CallInv'
      OBVIOUS
    <2>1. CASE Next
      BY <2>1, OperationKeepsCalls, OthersHold, SavingHolds, CrashDropsCalls DEF Next
    <2>2. CASE UNCHANGED vars
      BY <2>2 DEF CallInv, HeldInFlight, Holds, OthersSave, OperationHolds, ErasingRuns, Erasing, vars, calls
    <2> QED BY <2>1, <2>2
  <1> QED BY InitCalls, <1>1, Invariance, PTL DEF Spec

-----------------------------------------------------------------------------
(* What nobody erased is kept.                                             *)

\* Why: the primary keeps old data, as whatever is saved comes from an engine
\* with a session, or from the primary itself.
KeptInv ==
  erasure = "none" /\ Without({"emptySaved"}) =>
    /\ primary = "old"
    /\ active => mem = "old"
    /\ held["op"].then = "beginning" => held["op"].data = "old"

LEMMA NextKeeps ==
  ASSUME Inv, CallInv, KeptInv, Next
  PROVE  KeptInv'
  <1> SUFFICES ASSUME erasure' = "none", "emptySaved" \notin mishaps'
               PROVE  /\ primary' = "old"
                      /\ active' => mem' = "old"
                      /\ held'["op"].then = "beginning" => held'["op"].data = "old"
    BY DEF KeptInv, Without
  <1> USE DEF Inv, TypeOK
  <1>0. "op" \in Threads /\ "beat" \in Threads /\ NoSave.then = "idle"
    BY DEF Threads, NoSave, SaveOf
  <1>1. erasure = "none" /\ mishaps \subseteq mishaps'
    BY DEF Next, Operation, Start, Stop, ReplaceData, SaveFresh, RestoreData, DeletePrimary, DeleteBackup, Disable,
           StartRefused, Load, SaveRecovered, SessionStarts, BeginSave, BeginErasure, Settles, ErasureDone,
           Checkpoint, SaveNow, Saving, PrimarySettles, Written, Renamed, BackupFails, Crash, Record
  <1>2. /\ primary = "old"
        /\ active => mem = "old"
        /\ held["op"].then = "beginning" => held["op"].data = "old"
    BY <1>1 DEF KeptInv, Without
  <1>3. ASSUME NEW t \in Threads, Saving(t)
        PROVE  /\ primary' = "old"
               /\ active' => mem' = "old"
               /\ held'["op"].then = "beginning" => held'["op"].data = "old"
    BY <1>0, <1>2, <1>3, SavingShape
  <1>4. CASE Checkpoint
    BY <1>0, <1>2, <1>4 DEF Checkpoint, BeginSave
  <1>5. ASSUME NEW c \in Commands, SaveNow(c)
        PROVE  /\ primary' = "old"
               /\ active' => mem' = "old"
               /\ held'["op"].then = "beginning" => held'["op"].data = "old"
    <2>1. mem = "old"
      BY <1>1, <1>5 DEF SaveNow, BeginSave, Record, Mishap, CallInv, Ages
    <2> QED BY <1>0, <1>2, <1>5, <2>1, StorageAssumption DEF SaveNow, BeginSave, Threads
  <1>6. ASSUME NEW what \in Erasers \union {"disable"}, Stop(what)
        PROVE  /\ primary' = "old"
               /\ active' => mem' = "old"
               /\ held'["op"].then = "beginning" => held'["op"].data = "old"
    BY <1>0, <1>2, <1>6 DEF Stop, BeginSave, SaveOf
  <1>7. CASE SaveRecovered
    BY <1>0, <1>2, <1>7 DEF SaveRecovered, BeginSave, SaveOf, CallInv, OperationHolds
  <1>8. CASE Load
    BY <1>0, <1>2, <1>8 DEF Load, Loaded, SaveOf
  <1>9. CASE SessionStarts
    BY <1>0, <1>2, <1>9 DEF SessionStarts, CallInv, OperationHolds
  <1>10. CASE Start \/ DeleteBackup \/ Disable \/ StartRefused
    BY <1>2, <1>10 DEF Start, DeleteBackup, Disable, StartRefused
  <1>11. CASE ReplaceData \/ RestoreData \/ DeletePrimary \/ SaveFresh
    BY <1>1, <1>11 DEF ReplaceData, RestoreData, DeletePrimary, SaveFresh, BeginErasure, CallInv, ErasingRuns, Erasing
  <1>12. CASE Crash
    BY <1>0, <1>2, <1>12 DEF Crash
  <1> QED
    BY <1>3, <1>4, <1>5, <1>6, <1>7, <1>8, <1>9, <1>10, <1>11, <1>12 DEF Next, Operation

\* Data that nobody erased is what the next start finds, unless an engine that
\* was still empty was saved.
THEOREM NothingIsLost == Spec => []KeptUnlessErased
  <1>1. Init => KeptInv
    BY DEF Init, KeptInv, NoSave, SaveOf, Threads
  <1>2. Inv /\ CallInv /\ KeptInv /\ [Next]_vars => KeptInv'
    <2>1. Inv /\ CallInv /\ KeptInv /\ UNCHANGED vars => KeptInv'
      BY DEF KeptInv, Without, vars, calls
    <2> QED BY <2>1, NextKeeps
  <1>3. KeptInv => KeptUnlessErased
    BY DEF KeptInv, KeptUnlessErased, Loaded
  <1> QED BY <1>1, <1>2, <1>3, Invariance, CallInvariance, PTL DEF Spec

-----------------------------------------------------------------------------
(* What was erased stays erased.                                           *)

Writers == {t \in Threads : pc[t] \in {"writing", "renaming"}}
Clean == Without({"oldSaved", "oldKept", "primaryFailed", "backupFailed"})

\* The staging file is that of a save that writes it or will rename it.
Staged == Writers # {} => staging = NoFile \/ \E t \in Writers : staging.data = held[t].data

\* No save in flight has old data once the erasure has begun.
NoOldInFlight == \A t \in Threads : held[t].data # "old"

\* The stores lose it one after the other: the primary first, the backup when
\* the eraser's own save, or any other, has renamed the staging file.
StoresErased ==
  /\ pc["op"] # "saving" => primary # "old"
  /\ pc["op"] \in {"writing", "renaming"} /\ staging = NoFile => backup.data # "old"
  /\ pc["op"] = "loading" => backup.data # "old"

\* Then the stores have none of it; the engine may keep some until the session
\* starts that replaces it.
NothingOld ==
  /\ primary # "old" /\ backup.data # "old"
  /\ active => mem # "old"
  /\ mem = "old" => held["op"].then = "beginning"

ErasedInv ==
  Clean => /\ Staged
           /\ Erasing \/ erasure = "done" => NoOldInFlight
           /\ Erasing => StoresErased
           /\ erasure = "done" => NothingOld

\* The steps of an erasure leave what has gone wrong on record.
LEMMA CleanBefore == ASSUME Next, Clean' PROVE Clean /\ mishaps \subseteq mishaps'
  <1>1. mishaps \subseteq mishaps'
    BY DEF Next, Operation, Start, Stop, ReplaceData, SaveFresh, RestoreData, DeletePrimary, DeleteBackup, Disable,
           StartRefused, Load, SaveRecovered, SessionStarts, BeginSave, BeginErasure, Settles, ErasureDone,
           Checkpoint, SaveNow, Saving, PrimarySettles, Written, Renamed, BackupFails, Crash, Record
  <1> QED BY <1>1 DEF Clean, Without

\* A step that leaves the files and the saves that write them alone.
LEMMA StagedKept ==
  ASSUME Staged, UNCHANGED staging,
         \A t \in Threads : (pc'[t] \in {"writing", "renaming"} <=> pc[t] \in {"writing", "renaming"})
                            /\ (pc[t] \in {"writing", "renaming"} => held'[t] = held[t])
  PROVE  Staged'
  BY DEF Staged, Writers

\* A save in flight, and its file.
LEMMA SavingErases ==
  ASSUME Inv, CallInv, ErasedInv, NEW t \in Threads, Saving(t), Clean', Clean
  PROVE  /\ Staged'
         /\ Erasing \/ erasure = "done" => NoOldInFlight'
         /\ Erasing => StoresErased'
         /\ erasure = "done" => NothingOld'
  <1> USE DEF Inv, TypeOK
  <1>0. "op" \in Threads /\ NoSave.data = "none" /\ NoSave.then = "idle" /\ NoFile.data = "none"
        /\ \A data \in Ages, whole \in BOOLEAN :
             File(data, whole).data = data /\ (data # "none" => File(data, whole) # NoFile)
        /\ held[t] \in Saves /\ held[t].data \in Ages /\ held[t].then \in Continuations
    BY DEF Threads, NoSave, SaveOf, NoFile, File, Saves
  <1>1. UNCHANGED <<mem, active, primary, operation, erasure>>
        /\ pc[t] \in {"settling", "writing", "renaming"}
    BY SavingShape
  <1>2. Staged /\ (Erasing \/ erasure = "done" => NoOldInFlight) /\ (Erasing => StoresErased)
        /\ (erasure = "done" => NothingOld)
    BY DEF ErasedInv
  <1>3. ~BackupFails(t)
    BY DEF BackupFails, Record, Clean, Without
  <1>4. Erasing \/ erasure = "done" => NoOldInFlight'
    <2>1. \A u \in Threads : held'[u] = held[u] \/ held'[u] = NoSave
      BY SavingShape
    <2> QED BY <1>0, <1>2, <2>1 DEF NoOldInFlight
  <1>a. held[t].data # "none"
    BY <1>1 DEF CallInv, HeldInFlight, Holds
  <1>5. CASE PrimarySettles(t) /\ (held[t].toFile \/ count' = 0)
    <2>1. /\ pc' = [pc EXCEPT ![t] = "writing"] /\ staging' = File(held[t].data, FALSE)
          /\ UNCHANGED <<held, backup>> /\ pc[t] = "settling"
      BY <1>5 DEF PrimarySettles, Goto
    <2>2. Staged'
      BY <1>0, <2>1 DEF Staged, Writers
    <2>3. Erasing => StoresErased'
      BY <1>0, <1>1, <1>2, <1>a, <2>1 DEF StoresErased
    <2>4. erasure = "done" => NothingOld'
      BY <1>1, <1>2, <2>1 DEF NothingOld
    <2> QED BY <1>4, <2>2, <2>3, <2>4
  <1>6. CASE PrimarySettles(t) /\ ~(held[t].toFile \/ count' = 0)
    <2>1. /\ pc' = [pc EXCEPT ![t] = held[t].then] /\ pc[t] = "settling" /\ t # "op"
          /\ held' = IF held[t].then = "beginning" THEN held ELSE [held EXCEPT ![t] = NoSave]
          /\ UNCHANGED <<staging, backup>>
      BY <1>6 DEF PrimarySettles, Returns, Goto, CallInv, OperationHolds
    <2>2. Staged'
      <3>1. pc'[t] \notin {"writing", "renaming"}
        BY <1>0, <2>1 DEF Continuations
      <3> QED BY <1>2, <2>1, <3>1, StagedKept
    <2>3. pc'["op"] = pc["op"] /\ held'["op"] = held["op"]
      BY <1>0, <2>1
    <2> QED BY <1>1, <1>2, <1>4, <2>1, <2>2, <2>3 DEF StoresErased, NothingOld
  <1>7. CASE Written(t)
    <2>1. pc' = [pc EXCEPT ![t] = "renaming"] /\ pc[t] = "writing" /\ UNCHANGED held
      BY <1>7 DEF Written, Goto
    <2>2. \/ staging' # NoFile /\ staging'.data = held[t].data /\ UNCHANGED backup
          \/ staging = NoFile /\ UNCHANGED staging /\ (backup' = backup \/ backup'.data = held[t].data)
      BY <1>0, <1>7, <1>a DEF Written
    <2>3. Staged'
      BY <2>1, <2>2 DEF Staged, Writers
    <2>4. Erasing => StoresErased'
      BY <1>0, <1>1, <1>2, <2>1, <2>2 DEF StoresErased, NoOldInFlight
    <2>5. erasure = "done" => NothingOld'
      BY <1>1, <1>2, <2>1, <2>2 DEF NothingOld, NoOldInFlight
    <2> QED BY <1>4, <2>3, <2>4, <2>5
  <1>8. CASE Renamed(t)
    <2>1. /\ pc' = [pc EXCEPT ![t] = held[t].then] /\ pc[t] = "renaming"
          /\ held' = IF held[t].then = "beginning" THEN held ELSE [held EXCEPT ![t] = NoSave]
      BY <1>8 DEF Renamed, Returns, Goto
    <2>2. staging' = NoFile /\ (backup' = IF staging = NoFile THEN backup ELSE staging)
      BY <1>8 DEF Renamed, files
    <2>3. Staged'
      BY <2>2 DEF Staged
    <2>4. ASSUME Erasing \/ erasure = "done", staging # NoFile
          PROVE  backup'.data # "old"
      <3>1. PICK u \in Writers : staging.data = held[u].data
        BY <1>2, <2>1, <2>4 DEF Staged, Writers
      <3> QED BY <1>2, <2>2, <2>4, <3>1 DEF NoOldInFlight, Writers
    <2>5. Erasing => StoresErased'
      BY <1>0, <1>1, <1>2, <2>1, <2>2, <2>4 DEF StoresErased, Continuations
    <2>6. erasure = "done" => NothingOld'
      <3>1. held["op"].then = "beginning" => held'["op"] = held["op"]
        BY <1>0, <2>1
      <3> QED BY <1>0, <1>1, <1>2, <2>2, <2>4, <3>1 DEF NothingOld
    <2> QED BY <1>4, <2>3, <2>5, <2>6
  <1> QED BY <1>3, <1>5, <1>6, <1>7, <1>8 DEF Saving

\* A save by another call, of data that the erasure has spared.
LEMMA OthersErase ==
  ASSUME Inv, CallInv, ErasedInv, Clean', Clean, Checkpoint \/ \E c \in Commands : SaveNow(c)
  PROVE  ErasedInv'
  <1> USE DEF Inv, TypeOK
  <1>0. "op" \in Threads
    BY DEF Threads
  <1>1. PICK t \in Threads \ {"op"}, toFile \in BOOLEAN :
          /\ pc[t] = "idle" /\ pc' = [pc EXCEPT ![t] = "settling"]
          /\ held' = [held EXCEPT ![t] = SaveOf(mem, toFile, "idle")]
          /\ active \/ (erasure # "none" => mem # "old")
          /\ primary' \in {primary, mem}
    <2>1. CASE Checkpoint
      BY <2>1 DEF Checkpoint, BeginSave, Goto, Threads
    <2>2. ASSUME NEW c \in Commands, SaveNow(c) PROVE erasure # "none" => mem # "old"
      BY <2>2 DEF SaveNow, BeginSave, Record, Mishap, Clean, Without
    <2> QED BY <2>1, <2>2, StorageAssumption DEF SaveNow, BeginSave, Goto, Threads
  <1>2. UNCHANGED <<mem, active, files, operation, erasure>>
    BY DEF Checkpoint, SaveNow
  <1>3. Staged /\ (Erasing \/ erasure = "done" => NoOldInFlight) /\ (Erasing => StoresErased)
        /\ (erasure = "done" => NothingOld)
    BY DEF ErasedInv
  <1>4. Erasing \/ erasure = "done" => mem # "old"
    BY <1>1, <1>3 DEF Erasing, NothingOld, CallInv, ErasingRuns
  <1>5. Staged'
    BY <1>1, <1>2, <1>3, StagedKept DEF files
  <1>6. Erasing \/ erasure = "done" => NoOldInFlight'
    BY <1>1, <1>3, <1>4 DEF NoOldInFlight, SaveOf
  <1>7. pc'["op"] = pc["op"] /\ held'["op"] = held["op"]
    BY <1>0, <1>1
  <1>8. Erasing => StoresErased'
    BY <1>1, <1>2, <1>3, <1>4, <1>7 DEF StoresErased, files
  <1>9. erasure = "done" => NothingOld'
    BY <1>1, <1>2, <1>3, <1>4, <1>7 DEF NothingOld, files
  <1> QED BY <1>2, <1>5, <1>6, <1>8, <1>9 DEF ErasedInv, Erasing

\* A step of the operation: it leaves the staging file and its writers alone.
LEMMA OperationStages ==
  ASSUME Inv, CallInv, ErasedInv, Clean, Operation
  PROVE  /\ Staged'
         /\ \A t \in Threads \ {"op"} : held'[t] = held[t]
         /\ Erasing \/ erasure = "done" => NoOldInFlight
         /\ Erasing => StoresErased
         /\ erasure = "done" => NothingOld
  <1> USE DEF Inv, TypeOK
  <1>1. /\ \A t \in Threads \ {"op"} : pc'[t] = pc[t] /\ held'[t] = held[t]
        /\ {pc["op"], pc'["op"]} \intersect {"writing", "renaming"} = {}
        /\ UNCHANGED staging
    BY DEF Operation, Start, Stop, ReplaceData, SaveFresh, RestoreData, DeletePrimary, DeleteBackup, Disable,
           StartRefused, Load, SaveRecovered, SessionStarts, BeginSave, BeginErasure, Settles, Goto, files, Threads
  <1> QED BY <1>1, StagedKept DEF ErasedInv

\* An erasure that nothing overlaps begins with no old data in flight.
LEMMA ErasureBegins ==
  ASSUME Inv, CallInv, InFlight = {}
  PROVE  \A t \in Threads : held[t].data # "old"
  BY DEF InFlight, CallInv, HeldInFlight, Holds, NoSave, SaveOf

LEMMA OperationErases ==
  ASSUME Inv, CallInv, ErasedInv, Clean', Clean, Operation
  PROVE  ErasedInv'
  <1> USE DEF Inv, TypeOK
  <1>0. "op" \in Threads /\ NoSave.data = "none" /\ NoSave.then = "idle" /\ NoFile.data = "none"
        /\ {"none", "start", "disable"} \intersect Erasers = {}
    BY DEF Threads, NoSave, SaveOf, NoFile, File, Erasers
  <1>1. /\ Staged'
        /\ \A t \in Threads \ {"op"} : held'[t] = held[t]
        /\ Erasing \/ erasure = "done" => NoOldInFlight
        /\ Erasing => StoresErased
        /\ erasure = "done" => NothingOld
    BY OperationStages
  <1>2. ASSUME held'["op"].data # "old" \/ held'["op"] = held["op"]
        PROVE  Erasing \/ erasure = "done" => NoOldInFlight'
    BY <1>1, <1>2 DEF NoOldInFlight
  <1>3. CASE Start \/ Disable
    <2>1. UNCHANGED <<mem, active, primary, files, held, erasure>> /\ ~Erasing'
      BY <1>0, <1>3 DEF Start, Disable, Settles, Erasing
    <2>2. NoOldInFlight' = NoOldInFlight /\ NothingOld' = NothingOld
      BY <2>1 DEF NoOldInFlight, NothingOld, files
    <2> QED BY <1>1, <2>1, <2>2 DEF ErasedInv
  <1>4. ASSUME NEW what \in Erasers \union {"disable"}, Stop(what)
        PROVE  ErasedInv'
    <2>1. held["op"] = NoSave /\ ~Erasing' /\ UNCHANGED <<mem, files, erasure>> /\ ~active'
      BY <1>0, <1>4 DEF Stop, CallInv, HeldInFlight, Holds, Erasing
    <2>2. erasure = "done" => mem # "old"
      BY <1>0, <1>1, <2>1 DEF NothingOld
    <2>3. primary' \in {primary, mem} /\ (held'["op"].data = mem \/ held'["op"] = held["op"])
      BY <1>0, <1>4 DEF Stop, BeginSave, SaveOf
    <2>4. erasure = "done" => NoOldInFlight'
      BY <1>2, <2>2, <2>3
    <2>5. erasure = "done" => NothingOld'
      BY <1>1, <2>1, <2>2, <2>3 DEF NothingOld, files
    <2> QED BY <1>1, <2>1, <2>4, <2>5 DEF ErasedInv
  <1>5. CASE ReplaceData \/ DeletePrimary \/ RestoreData
    <2>1. erasure' = "begun" /\ InFlight = {}
      BY <1>5 DEF ReplaceData, DeletePrimary, RestoreData, BeginErasure, Record, Mishap, Clean, Without
    <2>2. held'["op"].data = "new" \/ held'["op"] = held["op"]
      BY <1>0, <1>5 DEF ReplaceData, DeletePrimary, RestoreData, SaveOf
    <2>3. NoOldInFlight'
      BY <1>1, <2>1, <2>2, ErasureBegins DEF NoOldInFlight
    <2>4. pc'["op"] = "saving" \/ (pc'["op"] \in {"settling", "deleting"} /\ primary' \in {"none", "new"})
      BY <1>0, <1>5 DEF ReplaceData, DeletePrimary, RestoreData, Goto, Record, Clean, Without
    <2>5. StoresErased'
      BY <2>4 DEF StoresErased
    <2> QED BY <1>1, <2>1, <2>3, <2>5 DEF ErasedInv
  <1>6. CASE SaveFresh
    <2>1. Erasing /\ mem = "new" /\ UNCHANGED <<operation, erasure>>
      BY <1>6 DEF SaveFresh, CallInv, ErasingRuns
    <2>2. primary' = "new" /\ held'["op"].data = "new" /\ pc'["op"] = "settling"
      BY <1>0, <1>6, <2>1 DEF SaveFresh, BeginSave, SaveOf, Goto, Record, Clean, Without
    <2>3. NoOldInFlight' /\ StoresErased'
      BY <1>2, <2>1, <2>2 DEF StoresErased
    <2> QED BY <1>1, <2>1, <2>3 DEF ErasedInv, Erasing
  <1>7. CASE DeleteBackup
    <2>1. Erasing /\ UNCHANGED <<primary, held, operation, erasure>> /\ pc["op"] = "deleting"
      BY <1>7 DEF DeleteBackup, CallInv, ErasingRuns
    <2>2. backup' = NoFile /\ pc'["op"] = "loading"
      BY <1>0, <1>7 DEF DeleteBackup, Goto, Record, Clean, Without
    <2>3. NoOldInFlight' /\ StoresErased'
      BY <1>0, <1>1, <1>2, <2>1, <2>2 DEF StoresErased
    <2> QED BY <1>1, <2>1, <2>3 DEF ErasedInv, Erasing
  <1>8. CASE StartRefused \/ Load
    <2>1. /\ pc["op"] = "loading" /\ UNCHANGED <<mem, active, primary, files>>
          /\ erasure' = IF operation \in Erasers THEN "done" ELSE erasure
          /\ operation \in Erasers => Erasing
      BY <1>8 DEF StartRefused, Load, ErasureDone, CallInv, ErasingRuns
    <2>2. ~Erasing'
      BY <1>0, <1>8, <2>1 DEF StartRefused, Load, Settles, Erasing
    <2>3. CASE erasure' = "done"
      <3>1. (Erasing \/ erasure = "done") /\ primary # "old" /\ backup.data # "old" /\ (active => mem # "old")
        BY <1>1, <2>1, <2>3 DEF StoresErased, NothingOld, CallInv, ErasingRuns
      <3>2. \/ StartRefused /\ UNCHANGED held
            \/ held' = [held EXCEPT !["op"] = SaveOf(Loaded, TRUE, "beginning")]
        BY <1>8 DEF StartRefused, Load
      <3>3. Loaded # "old"
        BY <3>1 DEF Loaded, Readable
      <3>4. NoOldInFlight'
        BY <1>0, <1>2, <3>1, <3>2, <3>3 DEF SaveOf
      <3>5. mem = "old" => held'["op"].then = "beginning"
        <4>1. CASE UNCHANGED held /\ StartRefused /\ operation \in Erasers
          BY <4>1 DEF StartRefused, Record, Mishap, Clean, Without
        <4>2. CASE UNCHANGED held /\ operation \notin Erasers
          BY <1>1, <2>1, <2>3, <4>2 DEF NothingOld
        <4>3. CASE held' = [held EXCEPT !["op"] = SaveOf(Loaded, TRUE, "beginning")]
          BY <1>0, <4>3 DEF SaveOf
        <4> QED BY <3>2, <4>1, <4>2, <4>3
      <3>6. NothingOld'
        BY <2>1, <3>1, <3>5 DEF NothingOld, files
      <3> QED BY <1>1, <2>2, <3>4, <3>6 DEF ErasedInv
    <2>4. CASE erasure' # "done"
      BY <1>1, <2>2, <2>4 DEF ErasedInv
    <2> QED BY <2>3, <2>4
  <1>9. CASE SaveRecovered
    <2>1. ~Erasing /\ UNCHANGED <<mem, active, files, operation, erasure>> /\ pc["op"] = "recovering"
      BY <1>9 DEF SaveRecovered, CallInv, ErasingRuns
    <2>2. /\ held'["op"].data = held["op"].data /\ held'["op"].then = "beginning"
          /\ primary' \in {primary, held["op"].data}
      BY <1>0, <1>9 DEF SaveRecovered, BeginSave, SaveOf
    <2>3. erasure = "done" => held["op"].data # "old"
      BY <1>0, <1>1 DEF NoOldInFlight
    <2>4. erasure = "done" => NoOldInFlight' /\ NothingOld'
      BY <1>1, <1>2, <2>1, <2>2, <2>3 DEF NothingOld, files
    <2> QED BY <1>1, <2>1, <2>4 DEF ErasedInv, Erasing
  <1>10. CASE SessionStarts
    <2>1. ~Erasing' /\ UNCHANGED <<primary, files, erasure>> /\ held'["op"] = NoSave /\ mem' = held["op"].data
      BY <1>0, <1>10 DEF SessionStarts, Settles, Erasing
    <2>2. erasure = "done" => NoOldInFlight' /\ mem' # "old"
      BY <1>0, <1>1, <1>2, <2>1 DEF NoOldInFlight
    <2>3. erasure = "done" => NothingOld'
      BY <1>1, <2>1, <2>2 DEF NothingOld, files
    <2> QED BY <1>1, <2>1, <2>2, <2>3 DEF ErasedInv
  <1> QED BY <1>3, <1>4, <1>5, <1>6, <1>7, <1>8, <1>9, <1>10 DEF Operation

\* A crash empties the engine, and forgets the saves in flight.
LEMMA CrashErases ==
  ASSUME Inv, CallInv, ErasedInv, Clean, Crash
  PROVE  ErasedInv'
  <1>1. /\ \A t \in Threads : pc'[t] = "idle" /\ held'[t] = NoSave
        /\ mem' = "new" /\ ~active' /\ operation' = "none" /\ UNCHANGED <<primary, files, erasure>>
    BY DEF Crash
  <1>2. "none" \notin Erasers /\ NoSave.data = "none"
    BY DEF Erasers, NoSave, SaveOf
  <1>3. ~Erasing' /\ NoOldInFlight' /\ Writers' = {}
    BY <1>1, <1>2 DEF Erasing, NoOldInFlight, Writers
  <1>4. Staged'
    BY <1>3 DEF Staged
  <1>5. erasure = "done" => NothingOld'
    BY <1>1 DEF ErasedInv, NothingOld, files
  <1> QED BY <1>1, <1>3, <1>4, <1>5 DEF ErasedInv

\* Data that was erased does not come back, unless a store refused to write, a
\* save of the old data overlapped the erasure or came after it, or start was
\* refused while the engine kept it: for any number of saves and crashes.
THEOREM NothingComesBack == Spec => []ErasedStaysErased
  <1>1. Init => ErasedInv
    BY DEF Init, ErasedInv, Staged, Erasing
  <1>2. Inv /\ CallInv /\ ErasedInv /\ [Next]_vars => ErasedInv'
    <2> SUFFICES ASSUME Inv, CallInv, ErasedInv, [Next]_vars PROVE ErasedInv'
      OBVIOUS
    <2>1. CASE Next /\ Clean'
      <3>1. Clean
        BY <2>1, CleanBefore
      <3>2. ASSUME NEW t \in Threads, Saving(t) PROVE ErasedInv'
        BY <2>1, <3>1, <3>2, SavingErases, SavingShape DEF ErasedInv, Erasing
      <3> QED BY <2>1, <3>1, <3>2, OperationErases, OthersErase, CrashErases DEF Next
    <2>2. CASE ~Clean'
      BY <2>2 DEF ErasedInv
    <2>3. CASE UNCHANGED vars
      BY <2>3 DEF ErasedInv, Clean, Without, Staged, Writers, NoOldInFlight, StoresErased, NothingOld, Erasing,
                  vars, calls, files
    <2> QED BY <2>1, <2>2, <2>3
  <1>3. CallInv /\ ErasedInv => ErasedStaysErased
    <2> SUFFICES ASSUME CallInv, ErasedInv, AtRest, erasure = "done", Clean
                 PROVE  "old" \notin {primary, backup.data, mem}
      BY DEF ErasedStaysErased, Clean
    <2>1. held["op"].then = "idle"
      BY DEF AtRest, CallInv, HeldInFlight, Holds, NoSave, SaveOf, Threads
    <2> QED BY <2>1 DEF ErasedInv, NothingOld
  <1> QED BY <1>1, <1>2, <1>3, Invariance, CallInvariance, PTL DEF Spec
=============================================================================

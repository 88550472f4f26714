---------------------- MODULE TimerOrchestratorProofs ----------------------
(* For any number of calls in flight: once they have all settled, the engine *)
(* counts when the settings say so and somebody is there, and the state says *)
(* what the engine does, unless something went wrong that the history names. *)
EXTENDS TimerOrchestrator, TLAPS

\* Who may be where: only the queue's calls run period operations, the one that
\* runs is at the head of the queue, and only the watcher's calls are handlers.
Places ==
  /\ \A t \in Threads \ Handlers : pc[t] \notin InHandler
  /\ \A h \in Handlers : pc[h] \in InHandler \union {"idle"}
  /\ \A t \in Threads \ {"op"} : pc[t] \notin InWork
  /\ pc["op"] # "idle" => queue # <<>>
  /\ pc["op"] \in InWork => Head(queue) \in Periods

Inv == TypeOK /\ Places

-----------------------------------------------------------------------------
(* The kinds of calls, and the parts that calls share.                      *)

LEMMA Kinds ==
  /\ "op" \in Threads \ Handlers /\ "quit" \in Threads \ (Handlers \union {"op"})
  /\ Switches \subseteq Threads \ (Handlers \union {"op", "quit"})
  /\ Handlers \subseteq Threads \ {"op", "quit"}
  BY OrchestratorAssumption DEF Threads

\* The queue after the operation at its head has settled.
LEMMA TailTyped ==
  ASSUME queue \in Seq(Operations), Len(queue) <= MaxQueue, queue # <<>>
  PROVE  Tail(queue) \in Seq(Operations) /\ Len(Tail(queue)) <= MaxQueue /\ Head(queue) \in Operations
  <1>1. Tail(queue) \in Seq(Operations) /\ Len(Tail(queue)) = Len(queue) - 1
    OBVIOUS
  <1> QED BY <1>1, OrchestratorAssumption

\* What stays true of the calls when one that is no handler returns.
LEMMA ReturnsKeeps ==
  ASSUME Inv, NEW t \in Threads \ Handlers, Returns(t), t = "op" => queue # <<>>
  PROVE  /\ queue' \in Seq(Operations) /\ Len(queue') <= MaxQueue
         /\ pc' \in [Threads -> Labels] /\ pc' = [pc EXCEPT ![t] = IF t = "quit" THEN "gone" ELSE "idle"]
         /\ Places'
  <1>1. pc' = [pc EXCEPT ![t] = IF t = "quit" THEN "gone" ELSE "idle"]
    BY DEF Returns, Goto
  <1>2. pc' \in [Threads -> Labels]
    BY <1>1 DEF Inv, TypeOK, Labels
  <1>3. queue' \in Seq(Operations) /\ Len(queue') <= MaxQueue
    BY TailTyped DEF Inv, TypeOK, Returns
  <1>4. t # "op" => queue' = queue
    BY DEF Returns
  <1>5. Places'
    BY <1>1, <1>2, <1>4, Kinds DEF Inv, TypeOK, Places, InHandler, InWork
  <1> QED BY <1>1, <1>2, <1>3, <1>5

\* What stays true of them when one that is no handler goes on.
LEMMA GotoKeeps ==
  ASSUME Inv, NEW t \in Threads \ Handlers, NEW label \in Labels \ InHandler, Goto(t, label),
         UNCHANGED queue, label \in InWork => t = "op" /\ Head(queue) \in Periods,
         t = "op" => queue # <<>>
  PROVE  /\ pc' \in [Threads -> Labels] /\ pc' = [pc EXCEPT ![t] = label]
         /\ Places'
  <1>1. pc' = [pc EXCEPT ![t] = label]
    BY DEF Goto
  <1>2. pc' \in [Threads -> Labels]
    BY <1>1 DEF Inv, TypeOK
  <1>3. Places'
    BY <1>1, <1>2, Kinds DEF Inv, TypeOK, Places
  <1> QED BY <1>1, <1>2, <1>3

States == {"idle", "running", "paused_idle", "disabled", "stopped"}

LEMMA BeginStartKeeps ==
  ASSUME Inv, NEW t \in Threads \ Handlers, BeginStart(t), t = "op" => queue # <<>>
  PROVE  /\ queue' \in Seq(Operations) /\ Len(queue') <= MaxQueue
         /\ state' \in States
         /\ pc' \in [Threads -> Labels] /\ mishaps' \subseteq Mishaps
         /\ Places'
  <1>1. CASE ShouldCount(config')
    <2>1. Goto(t, "recovering") /\ UNCHANGED <<state, queue>> /\ RecordIf(Busy(InStop), "overlap")
      BY <1>1 DEF BeginStart
    <2>2. mishaps' \subseteq Mishaps
      BY <2>1 DEF Inv, TypeOK, RecordIf, Record, Mishaps
    <2>3. "recovering" \in Labels \ InHandler /\ "recovering" \notin InWork
      BY DEF Labels, InStart, InHandler, InWork
    <2>4. pc' \in [Threads -> Labels] /\ Places'
      BY <2>1, <2>3, GotoKeeps
    <2> QED BY <2>1, <2>2, <2>4 DEF Inv, TypeOK, States
  <1>2. CASE ~ShouldCount(config')
    <2>1. Returns(t) /\ state' = "disabled" /\ UNCHANGED mishaps
      BY <1>2 DEF BeginStart
    <2> QED BY <2>1, ReturnsKeeps DEF Inv, TypeOK, States
  <1> QED BY <1>1, <1>2

LEMMA BeginStopKeeps ==
  ASSUME Inv, NEW t \in Threads \ Handlers, BeginStop(t), t = "op" => queue # <<>>
  PROVE  /\ queue' = queue /\ state' = state /\ ticking' = FALSE
         /\ pc' \in [Threads -> Labels] /\ mishaps' \subseteq Mishaps
         /\ Places'
  <1>1. Goto(t, "parking") /\ UNCHANGED <<state, queue>> /\ RecordIf(Busy(InStart), "overlap") /\ ticking' = FALSE
    BY DEF BeginStop
  <1>2. mishaps' \subseteq Mishaps
    BY <1>1 DEF Inv, TypeOK, RecordIf, Record, Mishaps
  <1>3. "parking" \in Labels \ InHandler /\ "parking" \notin InWork
    BY DEF Labels, InStop, InHandler, InWork
  <1>4. pc' \in [Threads -> Labels] /\ Places'
    BY <1>1, <1>3, GotoKeeps
  <1> QED BY <1>1, <1>2, <1>4

LEMMA StopReturnsKeeps ==
  ASSUME Inv, NEW t \in Threads \ Handlers, StopReturns(t), t = "op" => queue # <<>>
  PROVE  /\ queue' \in Seq(Operations) /\ Len(queue') <= MaxQueue
         /\ state' \in States /\ engine' \in {engine, "stopped"}
         /\ pc' \in [Threads -> Labels]
         /\ Places'
  <1>1. CASE t = "op" /\ Head(queue) \in Periods
    <2>1. Goto(t, "replacing") /\ UNCHANGED queue /\ state' = "stopped" /\ engine' \in {engine, "stopped"}
      BY <1>1 DEF StopReturns
    <2>2. "replacing" \in Labels \ InHandler
      BY DEF Labels, InWork, InHandler
    <2>3. pc' \in [Threads -> Labels] /\ Places'
      BY <1>1, <2>1, <2>2, GotoKeeps
    <2> QED BY <2>1, <2>3 DEF Inv, TypeOK, States
  <1>2. CASE ~(t = "op" /\ Head(queue) \in Periods)
    <2>1. Returns(t) /\ state' \in {"stopped", "disabled"} /\ UNCHANGED engine
      BY <1>2 DEF StopReturns
    <2> QED BY <2>1, ReturnsKeeps DEF States
  <1> QED BY <1>1, <1>2

LEMMA DisableStateKeeps ==
  ASSUME Inv, NEW t \in Threads \ Handlers, OnDisableStateChanged(t), config' \in Configs, t = "op" => queue # <<>>
  PROVE  Inv'
  <1> UNCHANGED <<active, engine, idle>>
    BY DEF OnDisableStateChanged, Enabled, Disabled
  <1>1. CASE Enabled(t) /\ state \in {"disabled", "stopped"}
    BY <1>1, BeginStartKeeps DEF Enabled, Inv, TypeOK, States
  <1>2. CASE Enabled(t) /\ state \notin {"disabled", "stopped"}
    <2>1. Returns(t) /\ RecordIf(Busy(InStop), "overlap") /\ UNCHANGED <<state, ticking>>
      BY <1>2 DEF Enabled
    <2>2. mishaps' \subseteq Mishaps
      BY <2>1 DEF Inv, TypeOK, RecordIf, Record, Mishaps
    <2> QED BY <2>1, <2>2, ReturnsKeeps DEF Inv, TypeOK
  <1>3. CASE Disabled(t) /\ state = "running"
    BY <1>3, BeginStopKeeps DEF Disabled, Inv, TypeOK
  <1>4. CASE Disabled(t) /\ state # "running"
    <2>1. Returns(t) /\ mishaps' \subseteq mishaps \union {"disabledPaused", "overlap"} /\ UNCHANGED <<state, ticking>>
      BY <1>4 DEF Disabled
    <2>2. mishaps' \subseteq Mishaps
      BY <2>1 DEF Inv, TypeOK, Mishaps
    <2> QED BY <2>1, <2>2, ReturnsKeeps DEF Inv, TypeOK
  <1> QED BY <1>1, <1>2, <1>3, <1>4 DEF OnDisableStateChanged

-----------------------------------------------------------------------------
(* Type correctness, and the places of the calls.                           *)

LEMMA InitInv == Init => Inv
  <1> SUFFICES ASSUME Init PROVE Inv
    OBVIOUS
  <1> DEFINE first == CHOOSE s \in Switches : TRUE
  <1>1. first \in Switches
    BY OrchestratorAssumption
  <1>2. pc = [t \in Threads |-> IF t = first /\ ShouldCount(config) THEN "recovering" ELSE "idle"]
    BY DEF Init
  <1>3. pc \in [Threads -> Labels]
    BY <1>2 DEF Labels, InStart
  <1>a. queue \in Seq(Operations) /\ Len(queue) <= MaxQueue
    BY OrchestratorAssumption DEF Init
  <1>b. config \in Configs /\ state \in States /\ mishaps \subseteq Mishaps
    BY DEF Init, States
  <1>4. TypeOK
    BY <1>3, <1>a, <1>b DEF Init, TypeOK, States
  <1>5. Places
    BY <1>1, <1>2, Kinds DEF Places, InHandler, InWork
  <1> QED BY <1>4, <1>5 DEF Inv

\* Where a call that goes on is, it is no handler.
LEMMA NoHandler ==
  ASSUME Inv, NEW t \in Threads, pc[t] \in InStart \union InStop \union InWork
  PROVE  t \in Threads \ Handlers /\ (t = "op" => queue # <<>>)
  BY DEF Inv, Places, InHandler, InStart, InStop, InWork

LEMMA ContinuesKeeps ==
  ASSUME Inv, NEW t \in Threads, Continues(t)
  PROVE  Inv'
  <1>0. t \in Threads \ Handlers /\ (t = "op" => queue # <<>>)
    BY NoHandler DEF Continues, SessionStarts, SchedulerStopped, SessionEnds, SessionEnded, StopFails,
                     InStart, InStop, InWork
  <1>1. CASE SessionStarts(t)
    <2>1. mishaps' \subseteq Mishaps
      BY <1>1 DEF SessionStarts, RecordIf, Record, Mishaps, Inv, TypeOK
    <2> QED BY <1>0, <1>1, <2>1, ReturnsKeeps DEF SessionStarts, Inv, TypeOK
  <1>2. CASE SchedulerStopped(t)
    <2>1. CASE active
      <3>1. "flushing" \in Labels \ InHandler /\ "flushing" \notin InWork
        BY DEF Labels, InStop, InHandler, InWork
      <3>2. pc' \in [Threads -> Labels] /\ Places'
        BY <1>0, <1>2, <2>1, <3>1, GotoKeeps DEF SchedulerStopped
      <3> QED BY <1>2, <2>1, <3>2 DEF SchedulerStopped, Inv, TypeOK
    <2>2. CASE ~active
      BY <1>0, <1>2, <2>2, StopReturnsKeeps DEF SchedulerStopped, Inv, TypeOK, States
    <2> QED BY <2>1, <2>2
  <1>3. CASE SessionEnds(t)
    <2>1. "ending" \in Labels \ InHandler /\ "ending" \notin InWork
      BY DEF Labels, InStop, InHandler, InWork
    <2>2. pc' \in [Threads -> Labels] /\ Places'
      BY <1>0, <1>3, <2>1, GotoKeeps DEF SessionEnds
    <2> QED BY <1>3, <2>2 DEF SessionEnds, Inv, TypeOK
  <1>4. CASE SessionEnded(t)
    BY <1>0, <1>4, StopReturnsKeeps DEF SessionEnded, Inv, TypeOK, States
  <1>5. CASE StopFails(t)
    <2>1. mishaps' \subseteq Mishaps
      BY <1>5 DEF StopFails, Record, Mishaps, Inv, TypeOK
    <2> QED BY <1>0, <1>5, <2>1, ReturnsKeeps DEF StopFails, session, Inv, TypeOK
  <1> QED BY <1>1, <1>2, <1>3, <1>4, <1>5 DEF Continues

\* A handler that moves leaves the other calls where they are.
LEMMA HandlerMoves ==
  ASSUME Inv, NEW h \in Handlers, NEW label \in InHandler \union {"idle"}, Goto(h, label), UNCHANGED queue
  PROVE  pc' \in [Threads -> Labels] /\ Places'
  <1>1. pc' = [pc EXCEPT ![h] = label] /\ h \in Threads
    BY Kinds DEF Goto
  <1>2. pc' \in [Threads -> Labels]
    BY <1>1 DEF Inv, TypeOK, Labels
  <1>3. Places'
    BY <1>1, <1>2, Kinds DEF Inv, TypeOK, Places, InWork, InHandler
  <1> QED BY <1>2, <1>3

LEMMA HandlerKeeps ==
  ASSUME Inv, NEW h \in Handlers, IdleTimeout(h) \/ Activity(h) \/ HandlerContinues(h)
  PROVE  Inv'
  <1>0. {"idle", "pausing", "resuming"} = InHandler \union {"idle"}
    BY DEF InHandler
  <1>1. CASE IdleTimeout(h)
    <2>1. mishaps' \subseteq Mishaps
      BY <1>1 DEF IdleTimeout, RecordIf, Record, Mishaps, Inv, TypeOK
    <2>2. pc' \in [Threads -> Labels] /\ Places'
      <3>1. CASE UNCHANGED pc
        BY <1>1, <3>1 DEF IdleTimeout, Inv, TypeOK, Places
      <3>2. CASE Goto(h, "pausing")
        BY <1>0, <1>1, <3>2, HandlerMoves DEF IdleTimeout
      <3> QED BY <1>1, <3>1, <3>2 DEF IdleTimeout
    <2> QED BY <1>1, <2>1, <2>2 DEF IdleTimeout, Inv, TypeOK
  <1>2. CASE Activity(h)
    <2>2. pc' \in [Threads -> Labels] /\ Places'
      <3>1. CASE UNCHANGED pc
        BY <1>2, <3>1 DEF Activity, Inv, TypeOK, Places
      <3>2. CASE Goto(h, "resuming")
        BY <1>0, <1>2, <3>2, HandlerMoves DEF Activity
      <3> QED BY <1>2, <3>1, <3>2 DEF Activity
    <2> QED BY <1>2, <2>2 DEF Activity, Inv, TypeOK
  <1>3. CASE HandlerContinues(h)
    <2>1. Goto(h, "idle") /\ UNCHANGED <<config, queue, ticking, active, engine, idle>>
      BY <1>3 DEF HandlerContinues, PauseFails, PauseSaved, ResumeSaved, session
    <2>2. state' \in States /\ mishaps' \subseteq Mishaps
      BY <1>3 DEF HandlerContinues, PauseFails, PauseSaved, ResumeSaved, session, RecordIf, Record,
                  Mishaps, States, Inv, TypeOK
    <2>3. pc' \in [Threads -> Labels] /\ Places'
      BY <1>0, <2>1, HandlerMoves
    <2> QED BY <2>1, <2>2, <2>3 DEF Inv, TypeOK, States
  <1> QED BY <1>1, <1>2, <1>3

LEMMA OperationKeeps ==
  ASSUME Inv, OperationContinues
  PROVE  Inv'
  <1>0. "op" \in Threads \ Handlers
    BY Kinds
  <1>1. CASE Toggle
    <2>1. config' \in Configs
      <3>1. config' = [config EXCEPT !.enabled = ~@] \/ config' = [config EXCEPT !.globalDisabled = ~@]
        BY <1>1 DEF Toggle
      <3> QED BY <3>1 DEF Inv, TypeOK, Configs
    <2> QED BY <1>0, <1>1, <2>1, DisableStateKeeps DEF Toggle, NextIs
  <1>2. CASE BeginPeriod
    <2>1. CASE BeginStop("op")
      BY <1>0, <1>2, <2>1, BeginStopKeeps DEF BeginPeriod, NextIs, Inv, TypeOK
    <2>2. CASE Goto("op", "snapshotting") /\ UNCHANGED <<state, ticking, queue, mishaps>>
      <3>1. "snapshotting" \in Labels \ InHandler
        BY DEF Labels, InWork, InHandler
      <3>2. pc' \in [Threads -> Labels] /\ Places'
        BY <1>0, <1>2, <2>2, <3>1, GotoKeeps DEF BeginPeriod, NextIs
      <3> QED BY <1>2, <2>2, <3>2 DEF BeginPeriod, Inv, TypeOK
    <2> QED BY <1>2, <2>1, <2>2 DEF BeginPeriod
  <1>3. CASE SnapshotTaken
    <2>1. queue # <<>>
      BY <1>3 DEF SnapshotTaken, Inv, Places
    <2> QED BY <1>0, <1>3, <2>1, BeginStopKeeps DEF SnapshotTaken, Inv, TypeOK
  <1>4. CASE PeriodStarts
    <2>1. queue # <<>>
      BY <1>4 DEF PeriodStarts, Inv, Places
    <2> QED BY <1>0, <1>4, <2>1, BeginStartKeeps DEF PeriodStarts, Inv, TypeOK, States
  <1> QED BY <1>1, <1>2, <1>3, <1>4 DEF OperationContinues

LEMMA EnqueueKeeps ==
  ASSUME Inv, NEW operation \in Operations, Enqueue(operation)
  PROVE  Inv' /\ (queue # <<>> => Head(queue') = Head(queue)) /\ queue' # <<>>
  <1>1. queue' = Append(queue, operation) /\ Len(queue) < MaxQueue
    BY DEF Enqueue
  <1>2. queue' \in Seq(Operations) /\ Len(queue') = Len(queue) + 1 /\ queue' # <<>>
    BY <1>1 DEF Inv, TypeOK
  <1>3. Len(queue') <= MaxQueue
    BY <1>1, <1>2, OrchestratorAssumption DEF Inv, TypeOK
  <1>4. queue # <<>> => Head(queue') = Head(queue)
    BY <1>1 DEF Inv, TypeOK
  <1>5. TypeOK'
    BY <1>2, <1>3 DEF Enqueue, session, Inv, TypeOK
  <1>6. Places'
    <2>1. UNCHANGED pc
      BY DEF Enqueue
    <2>2. pc["op"] \in InWork => queue # <<>>
      BY DEF Inv, Places, InWork
    <2> QED BY <1>2, <1>4, <2>1, <2>2 DEF Inv, Places
  <1> QED BY <1>2, <1>4, <1>5, <1>6 DEF Inv

LEMMA NextInv == Inv /\ [Next]_vars => Inv'
  <1> SUFFICES ASSUME Inv, [Next]_vars PROVE Inv'
    OBVIOUS
  <1>1. CASE \E s \in Switches : Switch(s)
    <2> PICK s \in Switches : Switch(s)
      BY <1>1
    <2>1. s \in Threads \ Handlers /\ s # "op"
      BY Kinds
    <2> QED BY <2>1, DisableStateKeeps DEF Switch
  <1>2. CASE \E operation \in Operations : Enqueue(operation)
    BY <1>2, EnqueueKeeps
  <1>3. CASE Deactivate
    BY <1>3, Kinds, BeginStopKeeps DEF Deactivate, Inv, TypeOK
  <1>4. CASE \E t \in Threads : Continues(t)
    BY <1>4, ContinuesKeeps
  <1>5. CASE OperationContinues
    BY <1>5, OperationKeeps
  <1>6. CASE \E h \in Handlers : IdleTimeout(h) \/ Activity(h) \/ HandlerContinues(h)
    BY <1>6, HandlerKeeps
  <1>7. CASE UNCHANGED vars
    BY <1>7 DEF vars, session, Inv, TypeOK, Places
  <1> QED BY <1>1, <1>2, <1>3, <1>4, <1>5, <1>6, <1>7 DEF Next, Calls, Closed

\* Every variable keeps its type, and every call its place: it is the queue's
\* calls alone that replace the data, and the one that does is the running one.
THEOREM TypeCorrect == Spec => []TypeOK
  <1>1. Init => Inv
    BY InitInv
  <1>2. Inv /\ [Next]_vars => Inv'
    BY NextInv
  <1>3. Inv => TypeOK
    BY DEF Inv
  <1> QED BY <1>1, <1>2, <1>3, PTL DEF Spec

-----------------------------------------------------------------------------
(* The shapes of the steps.                                                  *)

\* A call of start, stop or onDisableStateChanged, or one that returns, moves
\* one call, and forgets no mishap.
Moves(t, label) == pc' = [pc EXCEPT ![t] = label]
Out(t) == IF t = "quit" THEN "gone" ELSE "idle"

\* onDisableStateChanged finds one of five situations.
LEMMA DisableStateShape ==
  ASSUME NEW t \in Threads, OnDisableStateChanged(t)
  PROVE  /\ UNCHANGED <<active, engine, idle>>
         /\ \/ /\ ShouldCount(config') /\ state \in {"disabled", "stopped"}
               /\ Moves(t, "recovering") /\ RecordIf(Busy(InStop), "overlap")
               /\ UNCHANGED <<state, queue, ticking>>
            \/ /\ ShouldCount(config') /\ state \notin {"disabled", "stopped"}
               /\ Returns(t) /\ Moves(t, Out(t)) /\ RecordIf(Busy(InStop), "overlap")
               /\ UNCHANGED <<state, ticking>>
            \/ /\ ~ShouldCount(config') /\ state = "running"
               /\ Moves(t, "parking") /\ RecordIf(Busy(InStart), "overlap")
               /\ UNCHANGED <<state, queue>>
            \/ /\ ~ShouldCount(config') /\ state # "running"
               /\ Returns(t) /\ Moves(t, Out(t))
               /\ mishaps' = mishaps \union (IF state = "paused_idle" THEN {"disabledPaused"} ELSE {})
                                     \union (IF Busy(InStart) THEN {"overlap"} ELSE {})
               /\ UNCHANGED <<state, ticking>>
  BY DEF OnDisableStateChanged, Enabled, Disabled, BeginStart, BeginStop, Goto, Returns, Moves, Out

\* A handler changes nothing of who starts and who stops.
LEMMA HandlerShape ==
  ASSUME Inv, NEW h \in Handlers, IdleTimeout(h) \/ Activity(h) \/ HandlerContinues(h)
  PROVE  /\ UNCHANGED <<config, queue, ticking, active>>
         /\ mishaps \subseteq mishaps'
         /\ \A t \in Threads : pc[t] \notin InHandler \union {"idle"} => pc'[t] = pc[t]
         /\ \A t \in Threads : pc'[t] \notin InHandler \union {"idle"} => pc'[t] = pc[t]
         /\ \A t \in Threads \ Handlers : pc'[t] = pc[t]
  <1>1. pc \in [Threads -> Labels] /\ h \in Threads /\ pc[h] \in InHandler \union {"idle"}
    BY Kinds DEF Inv, TypeOK, Places
  <1>2. UNCHANGED pc \/ \E label \in InHandler \union {"idle"} : pc' = [pc EXCEPT ![h] = label]
    BY DEF IdleTimeout, Activity, HandlerContinues, PauseFails, PauseSaved, ResumeSaved, Goto, InHandler
  <1>3. UNCHANGED <<config, queue, ticking, active>> /\ mishaps \subseteq mishaps'
    BY DEF IdleTimeout, Activity, HandlerContinues, PauseFails, PauseSaved, ResumeSaved, session,
           RecordIf, Record
  <1> QED BY <1>1, <1>2, <1>3

-----------------------------------------------------------------------------
\* As long as no start and no stop have overlapped, there is a session exactly
\* while the engine is not stopped, and a stop that has ended it is not undone.
Sessions ==
  Without({"overlap"}) =>
    /\ ~(Busy(InStart) /\ Busy(InStop))
    /\ active <=> engine # "stopped"
    /\ Busy({"ending"}) => ~active

LEMMA NextSessions ==
  ASSUME Inv, Sessions, [Next]_vars
  PROVE  Sessions'
  <1> SUFFICES ASSUME "overlap" \notin mishaps'
               PROVE  /\ ~(Busy(InStart) /\ Busy(InStop))'
                      /\ active' <=> engine' # "stopped"
                      /\ Busy({"ending"})' => ~active'
    BY DEF Sessions, Without
  <1> USE DEF Busy, InStart, InStop, Moves
  <1>0. pc \in [Threads -> Labels]
    BY DEF Inv, TypeOK
  <1>1. ASSUME NEW t \in Threads, OnDisableStateChanged(t), pc[t] = "idle"
        PROVE  /\ ~(Busy(InStart) /\ Busy(InStop))'
               /\ active' <=> engine' # "stopped"
               /\ Busy({"ending"})' => ~active'
    <2>1. "overlap" \notin mishaps
      BY <1>1, DisableStateShape DEF RecordIf, Record
    <2> QED BY <1>0, <1>1, <2>1, DisableStateShape DEF RecordIf, Record, Sessions, Without, Out
  <1>2. ASSUME NEW t \in Threads, Continues(t)
        PROVE  /\ ~(Busy(InStart) /\ Busy(InStop))'
               /\ active' <=> engine' # "stopped"
               /\ Busy({"ending"})' => ~active'
    <2>a. mishaps \subseteq mishaps'
      BY <1>2 DEF Continues, SessionStarts, SchedulerStopped, SessionEnds, SessionEnded, StopFails, RecordIf, Record
    <2>b. /\ ~(Busy(InStart) /\ Busy(InStop))
          /\ active <=> engine # "stopped"
          /\ Busy({"ending"}) => ~active
      BY <2>a DEF Sessions, Without
    <2>1. CASE SessionStarts(t)
      BY <1>0, <2>1, <2>b DEF SessionStarts, Returns, Goto
    <2>2. CASE SchedulerStopped(t)
      BY <1>0, <2>2, <2>b DEF SchedulerStopped, StopReturns, Returns, Goto
    <2>3. CASE SessionEnds(t)
      BY <1>0, <2>3, <2>b DEF SessionEnds, Goto
    <2>4. CASE SessionEnded(t)
      BY <1>0, <2>4, <2>b DEF SessionEnded, StopReturns, Returns, Goto
    <2>5. CASE StopFails(t)
      BY <1>0, <2>5, <2>b DEF StopFails, Returns, Goto, session
    <2> QED BY <1>2, <2>1, <2>2, <2>3, <2>4, <2>5 DEF Continues
  <1>3. ASSUME OperationContinues \/ Deactivate
        PROVE  /\ ~(Busy(InStart) /\ Busy(InStop))'
               /\ active' <=> engine' # "stopped"
               /\ Busy({"ending"})' => ~active'
    <2>1. CASE Toggle
      BY <1>1, <2>1, Kinds DEF Toggle, NextIs
    <2>2. CASE BeginPeriod
      BY <1>0, <2>2, Kinds DEF BeginPeriod, BeginStop, Goto, RecordIf, Record, Sessions, Without
    <2>3. CASE SnapshotTaken
      BY <1>0, <2>3, Kinds DEF SnapshotTaken, BeginStop, Goto, RecordIf, Record, Sessions, Without
    <2>4. CASE PeriodStarts
      BY <1>0, <2>4, Kinds DEF PeriodStarts, BeginStart, Returns, Goto, RecordIf, Record, Sessions, Without
    <2>5. CASE Deactivate
      BY <1>0, <2>5, Kinds DEF Deactivate, BeginStop, Goto, RecordIf, Record, Sessions, Without
    <2> QED BY <1>3, <2>1, <2>2, <2>3, <2>4, <2>5 DEF OperationContinues
  <1>4. ASSUME NEW h \in Handlers, IdleTimeout(h) \/ Activity(h) \/ HandlerContinues(h)
        PROVE  /\ ~(Busy(InStart) /\ Busy(InStop))'
               /\ active' <=> engine' # "stopped"
               /\ Busy({"ending"})' => ~active'
    <2>1. CASE IdleTimeout(h)
      BY <1>0, <2>1, Kinds DEF IdleTimeout, Goto, RecordIf, Record, Sessions, Without
    <2>2. CASE Activity(h)
      BY <1>0, <2>2, Kinds DEF Activity, Goto, Sessions, Without
    <2>3. CASE HandlerContinues(h)
      BY <1>0, <2>3, Kinds DEF HandlerContinues, PauseFails, PauseSaved, ResumeSaved, session, Goto,
                               RecordIf, Record, Sessions, Without
    <2> QED BY <1>4, <2>1, <2>2, <2>3
  <1>5. CASE UNCHANGED <<pc, active, engine, mishaps>>
    BY <1>5 DEF Sessions, Without
  <1>6. CASE \E s \in Switches : Switch(s)
    BY <1>1, <1>6, Kinds DEF Switch, Free
  <1> QED BY <1>2, <1>3, <1>4, <1>5, <1>6 DEF Next, Calls, Closed, vars, session, Enqueue

-----------------------------------------------------------------------------
\* A stop is about to end the session.
Ending == Busy({"parking", "flushing"})

\* The engine that is not stopped has a state that will stop it; one that should
\* not count is stopped, or about to be, and nobody starts it.
StopComes == engine # "stopped" => state \in {"running", "paused_idle"} \/ Ending
StopsDisabled == ~ShouldCount(config) => ~Busy(InStart) /\ (engine = "stopped" \/ Ending)
Stopping == Without({"overlap", "disabledPaused", "stopFailed"}) => StopComes /\ StopsDisabled

LEMMA NextStopping ==
  ASSUME Inv, Sessions, Sessions', Stopping, [Next]_vars
  PROVE  Stopping'
  <1> SUFFICES ASSUME mishaps' \intersect {"overlap", "disabledPaused", "stopFailed"} = {}
               PROVE  StopComes' /\ StopsDisabled'
    BY DEF Stopping, Without
  <1> USE DEF Busy, InStart, InStop, Moves, StopComes, StopsDisabled, Ending
  <1>0. pc \in [Threads -> Labels]
    BY DEF Inv, TypeOK
  <1>a. ASSUME mishaps \subseteq mishaps'
        PROVE  /\ StopComes /\ StopsDisabled
               /\ ~(Busy(InStart) /\ Busy(InStop))
               /\ active <=> engine # "stopped"
               /\ Busy({"ending"}) => ~active
    BY <1>a DEF Stopping, Sessions, Without
  <1>1. ASSUME NEW t \in Threads, OnDisableStateChanged(t), pc[t] = "idle"
        PROVE  StopComes' /\ StopsDisabled'
    <2>1. mishaps \subseteq mishaps'
      BY <1>1, DisableStateShape DEF RecordIf, Record
    <2> QED BY <1>0, <1>1, <1>a, <2>1, DisableStateShape DEF RecordIf, Record, Out
  <1>2. ASSUME NEW t \in Threads, Continues(t)
        PROVE  StopComes' /\ StopsDisabled'
    <2>a. mishaps \subseteq mishaps'
      BY <1>2 DEF Continues, SessionStarts, SchedulerStopped, SessionEnds, SessionEnded, StopFails, RecordIf, Record
    <2>1. CASE SessionStarts(t)
      BY <1>0, <1>a, <2>1, <2>a DEF SessionStarts, Returns, Goto
    <2>2. CASE SchedulerStopped(t)
      BY <1>0, <1>a, <2>2, <2>a DEF SchedulerStopped, StopReturns, Returns, Goto
    <2>3. CASE SessionEnds(t)
      BY <1>0, <1>a, <2>3, <2>a DEF SessionEnds, Goto
    <2>4. CASE SessionEnded(t)
      BY <1>0, <1>a, <2>4, <2>a DEF SessionEnded, StopReturns, Returns, Goto
    <2>5. CASE StopFails(t)
      BY <2>5 DEF StopFails, Record
    <2> QED BY <1>2, <2>1, <2>2, <2>3, <2>4, <2>5 DEF Continues
  <1>3. ASSUME OperationContinues \/ Deactivate
        PROVE  StopComes' /\ StopsDisabled'
    <2>1. CASE Toggle
      BY <1>1, <2>1, Kinds DEF Toggle, NextIs
    <2>2. CASE BeginPeriod
      <3>1. CASE BeginStop("op")
        BY <1>0, <1>a, <2>2, <3>1, Kinds DEF BeginPeriod, BeginStop, Goto, RecordIf, Record
      <3>2. CASE Moves("op", "snapshotting") /\ pc["op"] = "idle" /\ UNCHANGED <<config, state, engine, mishaps>>
        BY <1>0, <1>a, <3>2, Kinds
      <3> QED BY <2>2, <3>1, <3>2 DEF BeginPeriod, Goto, NextIs
    <2>3. CASE SnapshotTaken
      BY <1>0, <1>a, <2>3, Kinds DEF SnapshotTaken, BeginStop, Goto, RecordIf, Record
    <2>4. CASE PeriodStarts
      BY <1>0, <1>a, <2>4, Kinds DEF PeriodStarts, BeginStart, Returns, Goto, RecordIf, Record
    <2>5. CASE Deactivate
      BY <1>0, <1>a, <2>5, Kinds DEF Deactivate, BeginStop, Goto, RecordIf, Record
    <2> QED BY <1>3, <2>1, <2>2, <2>3, <2>4, <2>5 DEF OperationContinues
  <1>4. ASSUME NEW h \in Handlers, IdleTimeout(h) \/ Activity(h) \/ HandlerContinues(h)
        PROVE  StopComes' /\ StopsDisabled'
    <2>1. /\ UNCHANGED config /\ mishaps \subseteq mishaps'
          /\ Busy(InStart)' <=> Busy(InStart)
          /\ Busy(InStop)' <=> Busy(InStop)
          /\ Ending' <=> Ending
      BY <1>4, HandlerShape DEF InHandler
    <2>2. engine' # "stopped" => engine # "stopped" \/ active
      BY <1>4 DEF IdleTimeout, Activity, HandlerContinues, PauseFails, PauseSaved, ResumeSaved, session
    <2>3. state \in {"running", "paused_idle"} => state' \in {"running", "paused_idle"}
      BY <1>4 DEF IdleTimeout, Activity, HandlerContinues, PauseFails, PauseSaved, ResumeSaved, session
    <2>4. engine' # "stopped" => engine # "stopped"
      BY <1>a, <2>1, <2>2
    <2>5. /\ engine # "stopped" => state \in {"running", "paused_idle"} \/ Ending
          /\ ~ShouldCount(config) => ~Busy(InStart) /\ (engine = "stopped" \/ Ending)
      BY <1>a, <2>1
    <2>6. ShouldCount(config)' <=> ShouldCount(config)
      BY <2>1
    <2> HIDE DEF Busy, Ending, ShouldCount
    <2> QED BY <2>1, <2>3, <2>4, <2>5, <2>6
  <1>5. CASE UNCHANGED <<config, pc, state, active, engine, mishaps>>
    BY <1>5, <1>a
  <1>6. CASE \E s \in Switches : Switch(s)
    BY <1>1, <1>6, Kinds DEF Switch, Free
  <1> QED BY <1>2, <1>3, <1>4, <1>5, <1>6 DEF Next, Calls, Closed, vars, session, Enqueue

-----------------------------------------------------------------------------
\* A period operation will start a session when it has replaced the data.
PeriodRuns == pc["op"] \in InStop \union InWork /\ Head(queue) \in Periods

\* The state says that a session starts only while one does, and that there is
\* one until a stop ends it; and while time should be counted there is one, or
\* somebody will start it, and only a period operation stops.
StartComes == state = "idle" => Busy(InStart)
SessionThere == state \in {"running", "paused_idle"} => engine # "stopped" \/ Busy(InStop)
StartsEnabled ==
  pc["quit"] = "idle" /\ ShouldCount(config) =>
    /\ \A t \in Threads : pc[t] \in InStop => t = "op" /\ PeriodRuns
    /\ engine # "stopped" \/ Busy(InStart) \/ PeriodRuns
Starting ==
  Without({"overlap", "lateHandler", "stopFailed"}) => StartComes /\ SessionThere /\ StartsEnabled

LEMMA NextStarting ==
  ASSUME Inv, Sessions, Sessions', Starting, [Next]_vars
  PROVE  Starting'
  <1> DEFINE Goal == StartComes' /\ SessionThere' /\ StartsEnabled'
  <1> SUFFICES ASSUME mishaps' \intersect {"overlap", "lateHandler", "stopFailed"} = {}
               PROVE  Goal
    BY DEF Starting, Without
  <1> USE DEF Busy, InStart, InStop, InWork, Moves, StartComes, SessionThere, StartsEnabled, PeriodRuns
  <1>0. pc \in [Threads -> Labels]
    BY DEF Inv, TypeOK
  <1>a. ASSUME mishaps \subseteq mishaps'
        PROVE  /\ StartComes /\ SessionThere /\ StartsEnabled
               /\ ~(Busy(InStart) /\ Busy(InStop))
               /\ active <=> engine # "stopped"
               /\ Busy({"ending"}) => ~active
    BY <1>a DEF Starting, Sessions, Without
  <1>b. /\ \A t \in Threads \ {"op"} : pc[t] \notin InWork
        /\ pc["op"] # "idle" => queue # <<>>
        /\ pc["op"] \in InWork => Head(queue) \in Periods
    BY DEF Inv, Places
  <1>1. ASSUME NEW t \in Threads, OnDisableStateChanged(t), pc[t] = "idle"
        PROVE  Goal
    <2>1. mishaps \subseteq mishaps'
      BY <1>1, DisableStateShape DEF RecordIf, Record
    <2>2. "quit" \in Threads /\ "op" \in Threads
      BY Kinds
    <2>3. CASE Moves(t, "recovering") /\ ~Busy(InStop) /\ state \in {"disabled", "stopped"}
               /\ UNCHANGED <<state, queue, engine>>
      BY <1>0, <1>1, <1>a, <2>1, <2>2, <2>3
    <2>4. CASE Moves(t, Out(t)) /\ ~Busy(InStop) /\ state \notin {"disabled", "stopped"}
               /\ UNCHANGED <<state, engine>>
      BY <1>0, <1>1, <1>a, <2>1, <2>2, <2>4 DEF Out, Inv, TypeOK
    <2>5. CASE Moves(t, "parking") /\ ~ShouldCount(config') /\ state = "running" /\ UNCHANGED state
      BY <1>0, <1>1, <1>a, <2>1, <2>2, <2>5
    <2>6. CASE Moves(t, Out(t)) /\ ~ShouldCount(config') /\ UNCHANGED <<state, engine>>
      BY <1>0, <1>1, <1>a, <2>1, <2>2, <2>6 DEF Out
    <2> QED BY <1>1, <2>3, <2>4, <2>5, <2>6, DisableStateShape DEF RecordIf, Record
  <1>c. ASSUME NEW t \in Threads, pc[t] \in InStop, mishaps \subseteq mishaps', UNCHANGED config,
               StopReturns(t), engine = "stopped"
        PROVE  Goal
    <2>1. engine' = "stopped" /\ "quit" \in Threads /\ "op" \in Threads
      BY <1>c, Kinds DEF StopReturns
    <2>2. CASE t = "op" /\ Head(queue) \in Periods
      BY <1>0, <1>a, <1>b, <1>c, <2>1, <2>2 DEF StopReturns, Goto
    <2>3. CASE ~(t = "op" /\ Head(queue) \in Periods)
      BY <1>0, <1>a, <1>b, <1>c, <2>1, <2>3 DEF StopReturns, Goto, Returns
    <2> QED BY <2>2, <2>3
  <1>2. ASSUME NEW t \in Threads, Continues(t)
        PROVE  Goal
    <2>a. mishaps \subseteq mishaps'
      BY <1>2 DEF Continues, SessionStarts, SchedulerStopped, SessionEnds, SessionEnded, StopFails, RecordIf, Record
    <2>b. "quit" \in Threads /\ "op" \in Threads
      BY Kinds
    <2>1. CASE SessionStarts(t)
      BY <1>0, <1>a, <2>1, <2>a, <2>b DEF SessionStarts, Returns, Goto
    <2>2. CASE SchedulerStopped(t) /\ active
      BY <1>0, <1>a, <1>b, <2>2, <2>a, <2>b DEF SchedulerStopped, Goto
    <2>6. CASE SchedulerStopped(t) /\ ~active
      BY <1>a, <1>c, <2>6, <2>a DEF SchedulerStopped
    <2>3. CASE SessionEnds(t)
      BY <1>0, <1>a, <1>b, <2>3, <2>a, <2>b DEF SessionEnds, Goto
    <2>4. CASE SessionEnded(t)
      BY <1>a, <1>c, <2>4, <2>a DEF SessionEnded
    <2>5. CASE StopFails(t)
      BY <2>5 DEF StopFails, Record
    <2> QED BY <1>2, <2>1, <2>2, <2>3, <2>4, <2>5, <2>6 DEF Continues
  <1>3. ASSUME OperationContinues \/ Deactivate
        PROVE  Goal
    <2>b. "quit" \in Threads /\ "op" \in Threads
      BY Kinds
    <2>1. CASE Toggle
      BY <1>1, <2>1, Kinds DEF Toggle, NextIs
    <2>2. ASSUME BeginStop("op"), pc["op"] \notin InStart \union InStop, Head(queue) \in Periods,
                 UNCHANGED <<config, engine>>
          PROVE  Goal
      BY <1>0, <1>a, <2>2, <2>b DEF BeginStop, Goto, RecordIf, Record
    <2>3. CASE Moves("op", "snapshotting") /\ NextIs(Periods) /\ UNCHANGED <<config, state, engine, queue, mishaps>>
      BY <1>0, <1>a, <2>3, <2>b DEF NextIs
    <2>4. CASE BeginPeriod
      BY <2>2, <2>3, <2>4 DEF BeginPeriod, Goto, NextIs
    <2>5. CASE SnapshotTaken
      BY <1>b, <2>2, <2>5 DEF SnapshotTaken
    <2>6. CASE PeriodStarts
      BY <1>0, <1>a, <2>6, <2>b DEF PeriodStarts, BeginStart, Returns, Goto, RecordIf, Record
    <2>7. CASE Deactivate
      BY <1>0, <1>a, <2>7, <2>b DEF Deactivate, BeginStop, Goto, RecordIf, Record
    <2> QED BY <1>3, <2>1, <2>4, <2>5, <2>6, <2>7 DEF OperationContinues
  <1>4. ASSUME NEW h \in Handlers, IdleTimeout(h) \/ Activity(h) \/ HandlerContinues(h)
        PROVE  Goal
    <2>1. /\ UNCHANGED <<config, queue>> /\ mishaps \subseteq mishaps'
          /\ \A t \in Threads : pc[t] \in InStop <=> pc'[t] \in InStop
          /\ \A t \in Threads : pc[t] \in InStart <=> pc'[t] \in InStart
          /\ pc'["op"] = pc["op"] /\ pc'["quit"] = pc["quit"]
      BY <1>4, HandlerShape, Kinds DEF InHandler
    <2>2. engine # "stopped" => engine' # "stopped"
      BY <1>4 DEF IdleTimeout, Activity, HandlerContinues, PauseFails, PauseSaved, ResumeSaved, session
    <2>3. state' = "idle" => state = "idle"
      BY <1>4 DEF IdleTimeout, Activity, HandlerContinues, PauseFails, PauseSaved, ResumeSaved, session
    <2>4. state' \in {"running", "paused_idle"} => state \in {"running", "paused_idle"} \/ engine' # "stopped"
      BY <1>4 DEF IdleTimeout, Activity, HandlerContinues, PauseFails, PauseSaved, ResumeSaved, session,
                  RecordIf, Record
    <2> QED BY <1>a, <2>1, <2>2, <2>3, <2>4
  <1>5. CASE \E operation \in Operations : Enqueue(operation)
    <2>1. UNCHANGED <<config, state, engine, pc, mishaps>> /\ (queue # <<>> => Head(queue') = Head(queue))
      BY <1>5, EnqueueKeeps DEF Enqueue, session
    <2> QED BY <1>a, <1>b, <2>1
  <1>6. CASE \E s \in Switches : Switch(s)
    BY <1>1, <1>6, Kinds DEF Switch, Free
  <1>7. CASE UNCHANGED vars
    BY <1>7, <1>a DEF vars, session
  <1> HIDE DEF Goal
  <1> QED BY <1>2, <1>3, <1>4, <1>5, <1>6, <1>7 DEF Next, Calls, Closed

-----------------------------------------------------------------------------
\* The state is behind the engine only while a handler is saving.
Following ==
  Without({"overlap", "pauseFailed", "stopFailed", "lateHandler", "disabledPaused"}) /\ ~Busy(InStop) =>
    /\ engine = "counting" => state = "running" \/ Busy({"resuming"})
    /\ engine = "paused" => state = "paused_idle" \/ Busy({"pausing"})

LEMMA NextFollowing ==
  ASSUME Inv, Sessions, Stopping, Following, [Next]_vars
  PROVE  Following'
  <1> DEFINE Goal == /\ engine' = "counting" => state' = "running" \/ Busy({"resuming"})'
                     /\ engine' = "paused" => state' = "paused_idle" \/ Busy({"pausing"})'
  <1> SUFFICES ASSUME mishaps' \intersect {"overlap", "pauseFailed", "stopFailed", "lateHandler",
                                           "disabledPaused"} = {},
                      ~Busy(InStop)'
               PROVE  Goal
    BY DEF Following, Without
  <1> USE DEF Busy, InStart, InStop, Moves
  <1>0. pc \in [Threads -> Labels] /\ "quit" \in Threads /\ "op" \in Threads
    BY Kinds DEF Inv, TypeOK
  <1>a. ASSUME mishaps \subseteq mishaps'
        PROVE  /\ ~Busy(InStop) => /\ engine = "counting" => state = "running" \/ Busy({"resuming"})
                                   /\ engine = "paused" => state = "paused_idle" \/ Busy({"pausing"})
               /\ active <=> engine # "stopped"
               /\ Busy({"ending"}) => ~active
               /\ ~ShouldCount(config) /\ ~Busy(InStop) => engine = "stopped"
    BY <1>a DEF Following, Sessions, Stopping, StopsDisabled, Ending, Without
  <1>1. ASSUME NEW t \in Threads, pc[t] \notin InStop \union InHandler, NEW label \in Labels, Moves(t, label),
               mishaps \subseteq mishaps', UNCHANGED <<state, engine>>
        PROVE  Goal
    BY <1>0, <1>1, <1>a DEF InHandler
  <1>2. ASSUME NEW t \in Threads, OnDisableStateChanged(t), pc[t] = "idle"
        PROVE  Goal
    <2>1. mishaps \subseteq mishaps' /\ UNCHANGED <<state, engine>>
      BY <1>2, DisableStateShape DEF RecordIf, Record
    <2>2. \E label \in Labels : Moves(t, label)
      BY <1>2, DisableStateShape DEF Labels, Out
    <2> QED BY <1>1, <1>2, <2>1, <2>2 DEF InHandler
  <1>3. ASSUME NEW t \in Threads, Continues(t)
        PROVE  Goal
    <2>1. mishaps \subseteq mishaps'
      BY <1>3 DEF Continues, SessionStarts, SchedulerStopped, SessionEnds, SessionEnded, StopFails, RecordIf, Record
    <2>2. CASE SessionStarts(t)
      BY <2>2 DEF SessionStarts
    <2>3. CASE SchedulerStopped(t) /\ active
      BY <1>0, <2>3 DEF SchedulerStopped, Goto
    <2>4. CASE (SchedulerStopped(t) /\ ~active) \/ SessionEnded(t)
      BY <1>a, <2>1, <2>4 DEF SchedulerStopped, SessionEnded, StopReturns
    <2>5. CASE SessionEnds(t)
      BY <2>5 DEF SessionEnds
    <2>6. CASE StopFails(t)
      BY <2>6 DEF StopFails, Record
    <2> QED BY <1>3, <2>2, <2>3, <2>4, <2>5, <2>6 DEF Continues
  <1>4. ASSUME OperationContinues \/ Deactivate
        PROVE  Goal
    <2>1. CASE Toggle
      BY <1>0, <1>2, <2>1 DEF Toggle, NextIs
    <2>2. ASSUME NEW t \in {"op", "quit"}, BeginStop(t) PROVE FALSE
      BY <1>0, <2>2 DEF BeginStop, Goto
    <2>3. CASE BeginPeriod
      BY <1>0, <1>1, <2>2, <2>3 DEF BeginPeriod, NextIs, Goto, InHandler, Labels, InWork
    <2>4. CASE PeriodStarts /\ ShouldCount(config)
      BY <1>0, <1>1, <2>4 DEF PeriodStarts, BeginStart, Goto, RecordIf, Record, InHandler, Labels
    <2>5. CASE PeriodStarts /\ ~ShouldCount(config)
      <3>1. Moves("op", "idle") /\ pc["op"] = "replacing" /\ UNCHANGED <<engine, mishaps>>
        BY <2>5 DEF PeriodStarts, BeginStart, Returns, Goto
      <3>2. ~Busy(InStop)
        BY <1>0, <3>1
      <3> QED BY <1>a, <2>5, <3>1, <3>2
    <2> QED BY <1>4, <2>1, <2>2, <2>3, <2>4, <2>5 DEF OperationContinues, SnapshotTaken, Deactivate
  <1>5. ASSUME NEW h \in Handlers, IdleTimeout(h) \/ Activity(h) \/ HandlerContinues(h)
        PROVE  Goal
    <2>1. mishaps \subseteq mishaps' /\ h \in Threads /\ ~Busy(InStop)
      BY <1>5, Kinds, HandlerShape DEF InHandler
    <2>2. CASE IdleTimeout(h)
      BY <1>0, <1>a, <2>1, <2>2 DEF IdleTimeout, Free, Goto, Inv, TypeOK
    <2>3. CASE Activity(h)
      BY <1>0, <1>a, <2>1, <2>3 DEF Activity, Free, Goto, Inv, TypeOK
    <2>4. CASE HandlerContinues(h)
      BY <2>4 DEF HandlerContinues, PauseFails, PauseSaved, ResumeSaved, RecordIf, Record
    <2> QED BY <1>5, <2>2, <2>3, <2>4
  <1>6. CASE UNCHANGED <<pc, state, engine, mishaps>>
    BY <1>6, <1>a
  <1>7. CASE \E s \in Switches : Switch(s)
    BY <1>2, <1>7, Kinds DEF Switch, Free
  <1> HIDE DEF Goal
  <1> QED BY <1>3, <1>4, <1>5, <1>6, <1>7 DEF Next, Calls, Closed, vars, session, Enqueue

-----------------------------------------------------------------------------
\* An absence that was reported has stopped or paused the engine, or it is about
\* to be stopped.
Away ==
  idle /\ Without({"absenceMissed", "overlap", "stopFailed", "disabledPaused"}) =>
    engine # "counting" \/ Ending

LEMMA NextAway ==
  ASSUME Inv, Sessions, Stopping, Away, [Next]_vars
  PROVE  Away'
  <1> DEFINE Goal == engine' # "counting" \/ Ending'
  <1> SUFFICES ASSUME idle', mishaps' \intersect {"absenceMissed", "overlap", "stopFailed", "disabledPaused"} = {}
               PROVE  Goal
    BY DEF Away, Without
  <1> USE DEF Busy, InStart, InStop, Moves, Ending
  <1>0. pc \in [Threads -> Labels] /\ "quit" \in Threads /\ "op" \in Threads
    BY Kinds DEF Inv, TypeOK
  <1>a. ASSUME mishaps \subseteq mishaps'
        PROVE  /\ idle => engine # "counting" \/ Ending
               /\ active <=> engine # "stopped"
               /\ Busy({"ending"}) => ~active
               /\ state \notin {"running", "paused_idle"} => engine = "stopped" \/ Ending
    BY <1>a DEF Away, Sessions, Stopping, StopComes, Without
  <1>1. ASSUME NEW t \in Threads, pc[t] \notin {"parking", "flushing"}, NEW label \in Labels, Moves(t, label),
               mishaps \subseteq mishaps', UNCHANGED <<engine, idle>>
        PROVE  Goal
    BY <1>0, <1>1, <1>a
  <1>2. ASSUME NEW t \in Threads, OnDisableStateChanged(t), pc[t] = "idle"
        PROVE  Goal
    <2>1. mishaps \subseteq mishaps' /\ UNCHANGED <<engine, idle>>
      BY <1>2, DisableStateShape DEF RecordIf, Record
    <2>2. \E label \in Labels : Moves(t, label)
      BY <1>2, DisableStateShape DEF Labels, InStart, InStop, Out
    <2> QED BY <1>1, <1>2, <2>1, <2>2
  <1>3. ASSUME NEW t \in Threads, Continues(t)
        PROVE  Goal
    <2>1. mishaps \subseteq mishaps'
      BY <1>3 DEF Continues, SessionStarts, SchedulerStopped, SessionEnds, SessionEnded, StopFails, RecordIf, Record
    <2>2. CASE SessionStarts(t)
      BY <2>2 DEF SessionStarts, RecordIf, Record
    <2>3. CASE SchedulerStopped(t) /\ active
      BY <1>0, <2>3 DEF SchedulerStopped, Goto
    <2>4. CASE (SchedulerStopped(t) /\ ~active) \/ SessionEnded(t)
      BY <1>a, <2>1, <2>4 DEF SchedulerStopped, SessionEnded, StopReturns
    <2>5. CASE SessionEnds(t)
      BY <2>5 DEF SessionEnds
    <2>6. CASE StopFails(t)
      BY <2>6 DEF StopFails, Record
    <2> QED BY <1>3, <2>2, <2>3, <2>4, <2>5, <2>6 DEF Continues
  <1>4. ASSUME OperationContinues \/ Deactivate
        PROVE  Goal
    <2>1. CASE Toggle
      BY <1>0, <1>2, <2>1 DEF Toggle, NextIs
    <2>2. ASSUME NEW t \in {"op", "quit"}, BeginStop(t) PROVE Goal
      BY <1>0, <2>2 DEF BeginStop, Goto
    <2>3. CASE BeginPeriod
      BY <1>0, <1>1, <2>2, <2>3 DEF BeginPeriod, NextIs, Goto, Labels, InWork
    <2>4. CASE PeriodStarts
      <3>1. mishaps \subseteq mishaps' /\ pc["op"] = "replacing" /\ UNCHANGED <<engine, idle>>
        BY <2>4 DEF PeriodStarts, BeginStart, RecordIf, Record
      <3>2. \E label \in Labels : Moves("op", label)
        BY <2>4 DEF PeriodStarts, BeginStart, Returns, Goto, Labels, InStart
      <3> QED BY <1>0, <1>1, <3>1, <3>2
    <2> QED BY <1>4, <2>1, <2>2, <2>3, <2>4 DEF OperationContinues, SnapshotTaken, Deactivate
  <1>5. ASSUME NEW h \in Handlers, IdleTimeout(h) \/ Activity(h) \/ HandlerContinues(h)
        PROVE  Goal
    <2>1. mishaps \subseteq mishaps' /\ (Ending => Ending')
      BY <1>5, HandlerShape DEF InHandler
    <2>2. CASE IdleTimeout(h)
      <3>1. CASE state = "running"
        BY <1>a, <2>1, <2>2, <3>1 DEF IdleTimeout
      <3>2. CASE state # "running"
        BY <1>a, <2>1, <2>2, <3>2 DEF IdleTimeout, RecordIf, Record
      <3> QED BY <3>1, <3>2
    <2>3. CASE Activity(h)
      BY <2>3 DEF Activity
    <2>4. CASE HandlerContinues(h)
      BY <1>a, <2>1, <2>4 DEF HandlerContinues, PauseFails, PauseSaved, ResumeSaved, session
    <2> QED BY <1>5, <2>2, <2>3, <2>4
  <1>6. CASE UNCHANGED <<pc, engine, idle, mishaps>>
    BY <1>6, <1>a
  <1>7. CASE \E s \in Switches : Switch(s)
    BY <1>2, <1>7, Kinds DEF Switch, Free
  <1> HIDE DEF Goal
  <1> QED BY <1>3, <1>4, <1>5, <1>6, <1>7 DEF Next, Calls, Closed, vars, session, Enqueue

-----------------------------------------------------------------------------
(* What the invariants say when every call has settled.                      *)

LifecycleInv == Inv /\ Sessions /\ Stopping /\ Starting /\ Following /\ Away

LEMMA InitLifecycle == Init => LifecycleInv
  <1> SUFFICES ASSUME Init PROVE LifecycleInv
    OBVIOUS
  <1> DEFINE first == CHOOSE s \in Switches : TRUE
  <1>1. first \in Switches /\ first \in Threads
    BY OrchestratorAssumption DEF Threads
  <1>2. pc = [t \in Threads |-> IF t = first /\ ShouldCount(config) THEN "recovering" ELSE "idle"]
    BY DEF Init
  <1>3. ~Busy(InStop) /\ ~Busy({"ending"}) /\ (Busy(InStart) <=> ShouldCount(config))
    BY <1>1, <1>2 DEF Busy, InStart, InStop
  <1>4. state = (IF ShouldCount(config) THEN "idle" ELSE "disabled") /\ ~active /\ engine = "stopped" /\ ~idle
    BY DEF Init
  <1>5. Inv
    BY InitInv
  <1>6. \A t \in Threads : pc[t] \notin InStop
    BY <1>3 DEF Busy
  <1> HIDE DEF first
  <1> QED BY <1>3, <1>4, <1>5, <1>6 DEF LifecycleInv, Sessions, Stopping, StopComes, StopsDisabled, Starting,
        StartComes, SessionThere, StartsEnabled, Following, Away

LEMMA NextLifecycle == LifecycleInv /\ [Next]_vars => LifecycleInv'
  <1> SUFFICES ASSUME LifecycleInv, [Next]_vars PROVE LifecycleInv'
    OBVIOUS
  <1> USE DEF LifecycleInv
  <1>1. Inv' /\ Sessions'
    BY NextInv, NextSessions
  <1>2. Stopping' /\ Starting'
    BY <1>1, NextStopping, NextStarting
  <1>3. Following' /\ Away'
    BY NextFollowing, NextAway
  <1> QED BY <1>1, <1>2, <1>3

LEMMA Lifecycle == Spec => []LifecycleInv
  BY InitLifecycle, NextLifecycle, PTL DEF Spec

\* Nobody starts, stops, pauses or resumes when every call has settled.
LEMMA RestIsQuiet ==
  ASSUME Inv, AtRest
  PROVE  /\ ~Busy(InStart) /\ ~Busy(InStop) /\ ~Ending /\ ~PeriodRuns
         /\ ~Busy({"pausing"}) /\ ~Busy({"resuming"})
  BY Kinds DEF AtRest, Busy, InStart, InStop, InWork, Ending, PeriodRuns

\* A workspace that is disabled counts no time once every call of
\* onDisableStateChanged, start and stop has settled, however they interleaved,
\* unless two of them overlapped, it was disabled while paused, or a stop
\* rejected: a session that should not count always has a stop on its way.
THEOREM DisabledIsStopped == Spec => []DisabledCountsNothing
  <1>1. LifecycleInv => DisabledCountsNothing
    BY RestIsQuiet DEF LifecycleInv, DisabledCountsNothing, Open, Stopping, StopsDisabled, Without
  <1> QED BY <1>1, Lifecycle, PTL

\* One that is enabled has a session, in the same circumstances, unless a pause
\* or resume assigned its state late: only a period operation stops it, and it
\* starts the next.
THEOREM EnabledHasSession == Spec => []EnabledIsCounting
  <1>1. LifecycleInv => EnabledIsCounting
    BY RestIsQuiet DEF LifecycleInv, EnabledIsCounting, Open, Starting, StartsEnabled, Without
  <1> QED BY <1>1, Lifecycle, PTL

\* The state the orchestrator's next decision rests on tells what the engine
\* does, though handlers and sessions assign the two at different times.
THEOREM StateTellsEngine == Spec => []StateIsTrue
  <1>1. LifecycleInv => StateIsTrue
    <2> SUFFICES ASSUME LifecycleInv, Open,
                        Without({"overlap", "pauseFailed", "stopFailed", "lateHandler", "disabledPaused"})
                 PROVE  /\ state = "running" <=> engine = "counting"
                        /\ state = "paused_idle" <=> engine = "paused"
      BY DEF StateIsTrue
    <2>1. ~Busy(InStart) /\ ~Busy(InStop) /\ ~Busy({"pausing"}) /\ ~Busy({"resuming"})
      BY RestIsQuiet DEF LifecycleInv, Open
    <2>2. state \in {"running", "paused_idle"} => engine # "stopped"
      BY <2>1 DEF LifecycleInv, Starting, SessionThere, Without
    <2>3. /\ engine = "counting" => state = "running"
          /\ engine = "paused" => state = "paused_idle"
      BY <2>1 DEF LifecycleInv, Following
    <2>4. engine \in {"stopped", "counting", "paused"}
      BY DEF LifecycleInv, Inv, TypeOK
    <2> QED BY <2>2, <2>3, <2>4
  <1> QED BY <1>1, Lifecycle, PTL

\* The time of an absence the watcher has reported is not counted, unless the
\* report was missed: no step but the start of a session or an activity makes
\* the engine count, and the watcher reports only once.
THEOREM AbsenceStopsCounting == Spec => []AbsenceIsNotCounted
  <1>1. LifecycleInv => AbsenceIsNotCounted
    BY RestIsQuiet DEF LifecycleInv, AbsenceIsNotCounted, Open, Away, Without
  <1> QED BY <1>1, Lifecycle, PTL
=============================================================================

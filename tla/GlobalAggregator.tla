-------------------------- MODULE GlobalAggregator --------------------------
(***************************************************************************)
(* The totals of all workspaces, in one record that every window loads,    *)
(* changes and saves: application/GlobalAggregator.ts over                 *)
(* persistence/GlobalStorageProvider.ts.                                   *)
(*                                                                         *)
(* The record is VS Code's globalState, taken as one register: a window    *)
(* reads what the last window wrote.  Each window has an entry of its own; *)
(* the sum of the entries, which is computed with them, and the copy kept  *)
(* for the dashboard, which changes nothing, are left out.                 *)
(***************************************************************************)
EXTENDS Integers, FiniteSets

CONSTANTS
  Windows,
  MaxTotal,   \* bounds the time a window counts
  MaxTime,    \* bounds the clock
  StaleTtl,   \* GLOBAL_STALE_TTL_MS
  MaxResets,  \* bounds the resets
  MaxPeriods, \* bounds the new periods
  MaxFaults   \* bounds the saves and deletions that fail
ASSUME AggregatorAssumption ==
  /\ IsFiniteSet(Windows) /\ Windows # {}
  /\ {MaxTotal, MaxTime, StaleTtl, MaxResets, MaxPeriods, MaxFaults} \subseteq Nat

VARIABLES
  now,
  total,       \* per window: totalMs of its TimerEngine
  lastSynced,  \* per window: _lastSyncedTotalMs
  held,        \* per window: the record its doSync has loaded and changed (_syncing)
  resetting,   \* per window: whether its reset has had the record deleted and not returned
  store,       \* the record: per window its entry, if any
  resets, periods, faults,
  syncedIn,    \* history, per window: the resets before its last sync
  mishaps      \* history: what has gone wrong, recorded at its cause

counts == <<resets, periods, faults>>
vars == <<now, total, lastSynced, held, resetting, store, counts, syncedIn, mishaps>>

Null == -1
\* An entry has the total, when it was written, and (history) the resets before.
Entry(t, at, era) == [total |-> t, at |-> at, era |-> era]
NoEntry == Entry(Null, 0, 0)
Entries == [total : 0 .. MaxTotal, at : 0 .. MaxTime, era : 0 .. MaxResets] \union {NoEntry}
EmptyRecord == [w \in Windows |-> NoEntry]
NotSyncing == [record |-> EmptyRecord, total |-> Null]

Syncing(w) == held[w] # NotSyncing
Record(whats) == mishaps' = mishaps \union whats

Init ==
  /\ now = 0
  /\ total = [w \in Windows |-> 0]
  /\ lastSynced = [w \in Windows |-> Null]
  /\ held = [w \in Windows |-> NotSyncing] /\ resetting = [w \in Windows |-> FALSE]
  /\ store = EmptyRecord
  /\ resets = 0 /\ periods = 0 /\ faults = 0
  /\ syncedIn = [w \in Windows |-> 0] /\ mishaps = {}

-----------------------------------------------------------------------------
\* pruneStaleWorkspaces
Stale == {v \in Windows : store[v] # NoEntry /\ now - store[v].at > StaleTtl}

\* sync, up to the save: another one in flight, or a total that was synced
\* already, returns at once.
SyncLoads(w, local, force) ==
  /\ ~Syncing(w)
  /\ force \/ lastSynced[w] # local
  /\ held' = [held EXCEPT ![w] =
       [record |-> [v \in Windows |-> IF v = w THEN Entry(local, now, resets)
                                      ELSE IF v \in Stale THEN NoEntry ELSE store[v]],
        total |-> local]]
  /\ Record((IF \E v \in Windows \ {w} : Syncing(v) THEN {"overlap"} ELSE {})
              \union (IF Stale \ {w} # {} THEN {"pruned"} ELSE {}))

\* Mutant: only a total that has grown is synced.
SyncGrown(w) ==
  /\ SyncLoads(w, total[w], FALSE) /\ total[w] > lastSynced[w]
  /\ UNCHANGED <<now, total, lastSynced, resetting, store, counts, syncedIn>>

\* The periodic checkpoint has been written, or saveNow has.
Sync(w) ==
  /\ SyncLoads(w, total[w], FALSE)
  /\ UNCHANGED <<now, total, lastSynced, resetting, store, counts, syncedIn>>

\* Mutant: a failed save counts as a sync.
SyncFailsSilently(w) ==
  /\ Syncing(w) /\ faults < MaxFaults
  /\ faults' = faults + 1
  /\ lastSynced' = [lastSynced EXCEPT ![w] = held[w].total]
  /\ held' = [held EXCEPT ![w] = NotSyncing]
  /\ UNCHANGED <<now, total, resetting, store, resets, periods, syncedIn, mishaps>>

SyncSaves(w) ==
  /\ Syncing(w)
  /\ store' = held[w].record
  /\ lastSynced' = [lastSynced EXCEPT ![w] = held[w].total]
  /\ syncedIn' = [syncedIn EXCEPT ![w] = held[w].record[w].era]
  /\ held' = [held EXCEPT ![w] = NotSyncing]
  /\ UNCHANGED <<now, total, resetting, counts, mishaps>>

\* The save rejects: doSync logs it, and the next sync tries again.
SyncFails(w) ==
  /\ Syncing(w) /\ faults < MaxFaults
  /\ faults' = faults + 1
  /\ held' = [held EXCEPT ![w] = NotSyncing]
  /\ UNCHANGED <<now, total, lastSynced, resetting, store, resets, periods, syncedIn, mishaps>>

\* newPeriod: the engine is reset, and sync(0, true) is dropped during another.
NewPeriod(w) ==
  /\ periods < MaxPeriods /\ periods' = periods + 1
  /\ total' = [total EXCEPT ![w] = 0]
  /\ IF Syncing(w) THEN UNCHANGED <<held, mishaps>> ELSE SyncLoads(w, 0, TRUE)
  /\ UNCHANGED <<now, lastSynced, resetting, store, resets, faults, syncedIn>>

\* VS Code refuses the deletion: GlobalStorageProvider.delete logs it and returns,
\* and reset goes on as if the record were gone.
DeletionFails ==
  /\ faults < MaxFaults /\ faults' = faults + 1
  /\ Record({"resetFailed"})
  /\ UNCHANGED store

\* Mutant: only the own entry is deleted.
ResetDeletesOwn(w) ==
  /\ ~resetting[w] /\ resets < MaxResets /\ resets' = resets + 1
  /\ resetting' = [resetting EXCEPT ![w] = TRUE]
  /\ \/ /\ store' = [store EXCEPT ![w] = NoEntry]
        /\ Record(IF \E v \in Windows : Syncing(v) THEN {"resetOverlap"} ELSE {})
        /\ UNCHANGED faults
     \/ DeletionFails
  /\ UNCHANGED <<now, total, lastSynced, held, periods, syncedIn>>

\* reset, by resetAllData: the record is deleted,
ResetDeletes(w) ==
  /\ ~resetting[w] /\ resets < MaxResets /\ resets' = resets + 1
  /\ resetting' = [resetting EXCEPT ![w] = TRUE]
  /\ \/ /\ store' = EmptyRecord
        /\ Record(IF \E v \in Windows : Syncing(v) THEN {"resetOverlap"} ELSE {})
        /\ UNCHANGED faults
     \/ DeletionFails
  /\ UNCHANGED <<now, total, lastSynced, held, periods, syncedIn>>

\* and then what this window remembers.  The session starts again from nothing.
ResetForgets(w) ==
  /\ resetting[w]
  /\ resetting' = [resetting EXCEPT ![w] = FALSE]
  /\ lastSynced' = [lastSynced EXCEPT ![w] = Null]
  /\ total' = [total EXCEPT ![w] = 0]
  /\ UNCHANGED <<now, held, store, counts, syncedIn, mishaps>>

Work(w) ==
  /\ total[w] < MaxTotal /\ total' = [total EXCEPT ![w] = @ + 1]
  /\ UNCHANGED <<now, lastSynced, held, resetting, store, counts, syncedIn, mishaps>>

TimePasses ==
  /\ now < MaxTime /\ now' = now + 1
  /\ UNCHANGED <<total, lastSynced, held, resetting, store, counts, syncedIn, mishaps>>

-----------------------------------------------------------------------------
WindowActs(w) ==
  \/ Work(w) \/ NewPeriod(w) \/ ResetDeletes(w) \/ ResetForgets(w)
  \/ Sync(w) \/ SyncSaves(w) \/ SyncFails(w)
Next == (\E w \in Windows : WindowActs(w)) \/ TimePasses

\* The Scheduler syncs periodically, and every save settles.
Fairness ==
  \A w \in Windows :
    WF_vars(Sync(w)) /\ WF_vars(SyncSaves(w) \/ SyncFails(w)) /\ WF_vars(ResetForgets(w))

Spec == Init /\ [][Next]_vars /\ Fairness

-----------------------------------------------------------------------------
TypeOK ==
  /\ now \in 0 .. MaxTime
  /\ total \in [Windows -> 0 .. MaxTotal] /\ lastSynced \in [Windows -> -1 .. MaxTotal]
  /\ held \in [Windows -> [record : [Windows -> Entries], total : -1 .. MaxTotal]]
  /\ resetting \in [Windows -> BOOLEAN]
  /\ store \in [Windows -> Entries]
  /\ resets \in 0 .. MaxResets /\ periods \in 0 .. MaxPeriods /\ faults \in 0 .. MaxFaults
  /\ syncedIn \in [Windows -> 0 .. MaxResets]
  /\ mishaps \subseteq {"overlap", "pruned", "resetOverlap", "resetFailed"}

Without(causes) == mishaps \intersect causes = {}

\* What a window believes to have written, and skips its syncs for, is in the
\* record, unless two windows have synced at once (the later save overwrites
\* the earlier), the entry was pruned, or a reset in some window deleted it.
EntryKept ==
  \A w \in Windows :
    lastSynced[w] # Null /\ syncedIn[w] = resets /\ Without({"overlap", "pruned", "resetOverlap"}) =>
      store[w].total = lastSynced[w]

\* A reset forgets every workspace: no entry written before is there after it or
\* comes back, unless a sync was in flight in this or another window or the
\* deletion was refused, which reset is not told.
ResetIsFinal ==
  Without({"resetOverlap", "resetFailed"}) => \A w \in Windows : store[w] # NoEntry => store[w].era = resets

\* When a window stops counting, the record comes to hold its total, whatever
\* syncs have failed or were dropped, unless the entry was lost as above.
TotalsArePublished ==
  \A w \in Windows :
    <>[](Without({"overlap", "pruned", "resetOverlap"}) /\ syncedIn[w] = resets => store[w].total = total[w])
=============================================================================

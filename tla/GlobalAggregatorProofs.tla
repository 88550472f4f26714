----------------------- MODULE GlobalAggregatorProofs -----------------------
(***************************************************************************)
(* What a window believes written is in the record, and a reset is final,  *)
(* for any number of windows, resets, periods and failing saves.  The      *)
(* invariant is about the record a window has loaded and not yet saved:    *)
(* while nothing has gone wrong it differs from the stored one at most in  *)
(* the window's own entry, so that saving it takes nothing away.           *)
(***************************************************************************)
EXTENDS GlobalAggregator, TLAPS

\* Only what the argument needs of the types.
Eras ==
  /\ resets \in Nat /\ syncedIn \in [Windows -> Nat]
  /\ lastSynced \in [Windows -> Int] /\ total \in [Windows -> Nat]
  /\ store \in [Windows -> [total : Int, at : Int, era : Nat]]
  /\ held \in [Windows -> [record : [Windows -> [total : Int, at : Int, era : Nat]], total : Int]]
  /\ \A w \in Windows : syncedIn[w] <= resets

Undisturbed == Without({"overlap", "pruned", "resetOverlap"})

\* Two syncs at once are recorded.
OneSync ==
  \A v, w \in Windows : v # w /\ Syncing(v) /\ Syncing(w) => "overlap" \in mishaps

\* A record in flight has this window's new entry and the others as they are stored.
HeldIsCurrent ==
  \A w \in Windows : Syncing(w) =>
    /\ held[w].record[w].total = held[w].total
    /\ held[w].record[w].era <= resets
    /\ Undisturbed => \A v \in Windows \ {w} : held[w].record[v] = store[v]

\* And nothing in it is from before a reset.
HeldIsRecent ==
  Without({"resetOverlap", "resetFailed"}) =>
    \A w, v \in Windows : Syncing(w) /\ held[w].record[v] # NoEntry => held[w].record[v].era = resets

IInv == Eras /\ OneSync /\ HeldIsCurrent /\ HeldIsRecent /\ EntryKept /\ ResetIsFinal

-----------------------------------------------------------------------------
LEMMA EmptyIs ==
  /\ NoEntry \in [total : Int, at : Int, era : Nat]
  /\ EmptyRecord \in [Windows -> [total : Int, at : Int, era : Nat]]
  /\ NotSyncing \in [record : [Windows -> [total : Int, at : Int, era : Nat]], total : Int]
  /\ NotSyncing.total = -1
  /\ \A w \in Windows : EmptyRecord[w] = NoEntry
  BY DEF NoEntry, Entry, Null, EmptyRecord, NotSyncing

\* Initially nothing is stored and no sync is in flight.
LEMMA InitInv == Init => IInv
<1> SUFFICES ASSUME Init PROVE IInv
  OBVIOUS
<1>1. Eras
  BY EmptyIs DEF Init, Eras, Null
<1>2. \A w \in Windows : ~Syncing(w) /\ lastSynced[w] = Null /\ store[w] = NoEntry
  BY EmptyIs DEF Init, Syncing
<1> QED BY <1>1, <1>2 DEF IInv, OneSync, HeldIsCurrent, HeldIsRecent, EntryKept, ResetIsFinal

\* A sync that has loaded the record and changed it in memory.
LEMMA LoadKeeps ==
  ASSUME IInv, NEW w \in Windows, NEW STATE local, local \in Nat, NEW force \in BOOLEAN,
         now \in Int, SyncLoads(w, local, force), total' \in [Windows -> Nat],
         UNCHANGED <<lastSynced, store, resets, syncedIn>>
  PROVE  IInv'
<1> DEFINE record == [v \in Windows |-> IF v = w THEN Entry(local, now, resets)
                                        ELSE IF v \in Stale THEN NoEntry ELSE store[v]]
<1>1. /\ Entry(local, now, resets) \in [total : Int, at : Int, era : Nat]
      /\ Entry(local, now, resets).total = local /\ Entry(local, now, resets).era = resets
  <2>1. resets \in Nat /\ local \in Int
    BY DEF IInv, Eras
  <2> QED BY <2>1 DEF Entry
<1>2. record \in [Windows -> [total : Int, at : Int, era : Nat]]
  BY <1>1, EmptyIs DEF IInv, Eras
<1>3. held' = [held EXCEPT ![w] = [record |-> record, total |-> local]]
  BY DEF SyncLoads
<1>4. /\ held'[w] = [record |-> record, total |-> local]
      /\ \A v \in Windows \ {w} : held'[v] = held[v]
  BY <1>3 DEF IInv, Eras
<1>5. /\ mishaps \subseteq mishaps'
      /\ \A v \in Windows \ {w} : Syncing(v) => "overlap" \in mishaps'
      /\ Stale \ {w} # {} => "pruned" \in mishaps'
  BY DEF SyncLoads, Record
<1>6. \A v \in Windows \ {w} : Syncing(v)' <=> Syncing(v)
  BY <1>4 DEF Syncing
<1> HIDE DEF record
<1>7. Eras'
  BY <1>2, <1>3 DEF IInv, Eras
<1>8. OneSync'
  BY <1>5, <1>6 DEF IInv, OneSync
<1>9. HeldIsCurrent'
  <2> SUFFICES ASSUME NEW v \in Windows, Syncing(v)'
               PROVE  /\ held'[v].record[v].total = held'[v].total
                      /\ held'[v].record[v].era <= resets'
                      /\ Undisturbed' => \A u \in Windows \ {v} : held'[v].record[u] = store'[u]
    BY DEF HeldIsCurrent
  <2>1. CASE v = w
    <3>1. record[w].total = local /\ record[w].era <= resets
      BY <1>1 DEF record, IInv, Eras
    <3>2. ASSUME Undisturbed', NEW u \in Windows \ {w} PROVE record[u] = store[u]
      BY <3>2, <1>5 DEF record, Undisturbed, Without
    <3> QED BY <2>1, <3>1, <3>2, <1>4
  <2>2. CASE v # w
    BY <2>2, <1>4, <1>5, <1>6 DEF IInv, HeldIsCurrent, Undisturbed, Without
  <2> QED BY <2>1, <2>2
<1>10. HeldIsRecent'
  <2> SUFFICES ASSUME Without({"resetOverlap", "resetFailed"})', NEW v \in Windows, NEW u \in Windows,
                      Syncing(v)', held'[v].record[u] # NoEntry
               PROVE  held'[v].record[u].era = resets'
    BY DEF HeldIsRecent
  <2>1. Without({"resetOverlap", "resetFailed"})
    BY <1>5 DEF Without
  <2>2. CASE v = w
    <3>1. u = w \/ record[u] = NoEntry \/ record[u] = store[u]
      BY DEF record
    <3>2. u = w => record[u].era = resets
      BY <1>1 DEF record
    <3> QED BY <2>1, <2>2, <3>1, <3>2, <1>4 DEF IInv, ResetIsFinal
  <2>3. CASE v # w
    BY <2>1, <2>3, <1>4, <1>6 DEF IInv, HeldIsRecent
  <2> QED BY <2>2, <2>3
<1>11. EntryKept' /\ ResetIsFinal'
  BY <1>5 DEF IInv, EntryKept, ResetIsFinal, Without
<1> QED BY <1>7, <1>8, <1>9, <1>10, <1>11 DEF IInv

\* A sync that ends without having saved.
LEMMA FailKeeps ==
  ASSUME IInv, NEW w \in Windows, held' = [held EXCEPT ![w] = NotSyncing],
         UNCHANGED <<lastSynced, store, resets, syncedIn, mishaps, total>>
  PROVE  IInv'
<1>1. ~Syncing(w)' /\ \A v \in Windows \ {w} : held'[v] = held[v] /\ (Syncing(v)' <=> Syncing(v))
  BY DEF IInv, Eras, Syncing
<1>2. Eras'
  BY EmptyIs DEF IInv, Eras
<1>3. OneSync' /\ HeldIsCurrent' /\ HeldIsRecent'
  BY <1>1 DEF IInv, OneSync, HeldIsCurrent, HeldIsRecent, Undisturbed, Without
<1>4. EntryKept' /\ ResetIsFinal'
  BY DEF IInv, EntryKept, ResetIsFinal, Without
<1> QED BY <1>2, <1>3, <1>4 DEF IInv

\* The record in flight is saved.
LEMMA SaveKeeps == ASSUME IInv, NEW w \in Windows, SyncSaves(w) PROVE IInv'
<1> USE DEF SyncSaves
<1>1. ~Syncing(w)' /\ \A v \in Windows \ {w} : held'[v] = held[v] /\ (Syncing(v)' <=> Syncing(v))
  BY DEF IInv, Eras, Syncing
<1>2. /\ held[w].record \in [Windows -> [total : Int, at : Int, era : Nat]] /\ held[w].total \in Int
      /\ held[w].record[w].total = held[w].total /\ held[w].record[w].era <= resets
  BY DEF IInv, Eras, HeldIsCurrent
<1>3. /\ resets' = resets /\ mishaps' = mishaps /\ total' = total
      /\ store' = held[w].record
      /\ lastSynced' = [lastSynced EXCEPT ![w] = held[w].total]
      /\ syncedIn' = [syncedIn EXCEPT ![w] = held[w].record[w].era]
      /\ held' = [held EXCEPT ![w] = NotSyncing]
  BY DEF counts
<1>4. Eras'
  BY <1>2, <1>3, EmptyIs DEF IInv, Eras
<1>5. OneSync'
  BY <1>1, <1>3 DEF IInv, OneSync
<1>6. HeldIsCurrent'
  <2> SUFFICES ASSUME NEW v \in Windows, Syncing(v)'
               PROVE  /\ held'[v].record[v].total = held'[v].total
                      /\ held'[v].record[v].era <= resets'
                      /\ Undisturbed' => \A u \in Windows \ {v} : held'[v].record[u] = store'[u]
    BY DEF HeldIsCurrent
  <2>1. v # w /\ Syncing(v) /\ held'[v] = held[v]
    BY <1>1
  <2>2. ~Undisturbed'
    BY <2>1, <1>3 DEF IInv, OneSync, Undisturbed, Without
  <2> QED BY <2>1, <2>2, <1>3 DEF IInv, HeldIsCurrent
<1>7. HeldIsRecent'
  BY <1>1, <1>3 DEF IInv, HeldIsRecent, Without
<1>8. EntryKept'
  <2> SUFFICES ASSUME NEW v \in Windows, lastSynced'[v] # Null, syncedIn'[v] = resets', Undisturbed'
               PROVE  store'[v].total = lastSynced'[v]
    BY DEF EntryKept, Undisturbed
  <2>1. CASE v = w
    BY <2>1, <1>2, <1>3 DEF IInv, Eras
  <2>2. CASE v # w
    <3>1. held[w].record[v] = store[v]
      BY <2>2, <1>3 DEF IInv, HeldIsCurrent, Undisturbed, Without
    <3>2. lastSynced'[v] = lastSynced[v] /\ syncedIn'[v] = syncedIn[v]
      BY <2>2, <1>3 DEF IInv, Eras
    <3> QED BY <3>1, <3>2, <1>3 DEF IInv, EntryKept, Undisturbed, Without
  <2> QED BY <2>1, <2>2
<1>9. ResetIsFinal'
  BY <1>3 DEF IInv, HeldIsRecent, ResetIsFinal, Without
<1> QED BY <1>4, <1>5, <1>6, <1>7, <1>8, <1>9 DEF IInv

\* The record is deleted: what is in flight has been recorded, and whatever was
\* synced was synced before this reset.
LEMMA DeleteWorks ==
  ASSUME IInv, resets' = resets + 1, store' = EmptyRecord, mishaps \subseteq mishaps',
         \A v \in Windows : Syncing(v) => "resetOverlap" \in mishaps',
         UNCHANGED <<total, lastSynced, held, syncedIn>>
  PROVE  IInv'
<1>1. \A v \in Windows : Syncing(v)' <=> Syncing(v)
  BY DEF Syncing
<1>2. Eras'
  BY EmptyIs DEF IInv, Eras
<1>3. OneSync'
  BY <1>1 DEF IInv, OneSync
<1>4. HeldIsCurrent'
  BY <1>1 DEF IInv, Eras, HeldIsCurrent, Undisturbed, Without
<1>5. HeldIsRecent'
  BY <1>1 DEF HeldIsRecent, Without
<1>6. EntryKept'
  <2>1. \A v \in Windows : syncedIn'[v] # resets'
    BY DEF IInv, Eras
  <2> QED BY <2>1 DEF EntryKept
<1>7. ResetIsFinal'
  BY EmptyIs DEF ResetIsFinal
<1> QED BY <1>2, <1>3, <1>4, <1>5, <1>6, <1>7 DEF IInv

\* The deletion is refused: the record is as it was, and that has been recorded.
LEMMA DeleteRefused ==
  ASSUME IInv, resets' = resets + 1, mishaps \subseteq mishaps', "resetFailed" \in mishaps',
         UNCHANGED <<store, total, lastSynced, held, syncedIn>>
  PROVE  IInv'
<1>1. \A v \in Windows : Syncing(v)' <=> Syncing(v)
  BY DEF Syncing
<1>2. Eras'
  BY DEF IInv, Eras
<1>3. OneSync'
  BY <1>1 DEF IInv, OneSync
<1>4. HeldIsCurrent'
  <2> SUFFICES ASSUME NEW w \in Windows, Syncing(w)'
               PROVE  /\ held'[w].record[w].total = held'[w].total
                      /\ held'[w].record[w].era <= resets'
                      /\ Undisturbed' => \A v \in Windows \ {w} : held'[w].record[v] = store'[v]
    BY DEF HeldIsCurrent
  <2>1. Syncing(w) /\ held'[w] = held[w]
    BY <1>1
  <2>2. held[w].record[w].era \in Nat /\ resets \in Nat
    BY DEF IInv, Eras
  <2>3. held[w].record[w].era <= resets /\ held[w].record[w].total = held[w].total
    BY <2>1 DEF IInv, HeldIsCurrent
  <2>4. Undisturbed' => \A v \in Windows \ {w} : held[w].record[v] = store[v]
    BY <2>1 DEF IInv, HeldIsCurrent, Undisturbed, Without
  <2> QED BY <2>1, <2>2, <2>3, <2>4
<1>5. HeldIsRecent' /\ ResetIsFinal'
  BY DEF HeldIsRecent, ResetIsFinal, Without
<1>6. EntryKept'
  <2>1. \A v \in Windows : syncedIn'[v] # resets'
    BY DEF IInv, Eras
  <2> QED BY <2>1 DEF EntryKept
<1> QED BY <1>2, <1>3, <1>4, <1>5, <1>6 DEF IInv

LEMMA DeleteKeeps == ASSUME IInv, NEW w \in Windows, ResetDeletes(w) PROVE IInv'
<1>1. resets' = resets + 1 /\ UNCHANGED <<total, lastSynced, held, syncedIn>> /\ mishaps \subseteq mishaps'
  BY DEF ResetDeletes, DeletionFails, Record
<1>2. CASE store' = EmptyRecord /\ (\A v \in Windows : Syncing(v) => "resetOverlap" \in mishaps')
  BY <1>1, <1>2, DeleteWorks
<1>3. CASE DeletionFails
  <2>1. "resetFailed" \in mishaps' /\ store' = store
    BY <1>3 DEF DeletionFails, Record
  <2> QED BY <1>1, <2>1, DeleteRefused
<1>4. QED
  BY <1>2, <1>3 DEF ResetDeletes, Record

\* The resetting window forgets what it had synced.
LEMMA ForgetKeeps == ASSUME IInv, NEW w \in Windows, ResetForgets(w) PROVE IInv'
<1> USE DEF ResetForgets
<1>1. /\ lastSynced' = [lastSynced EXCEPT ![w] = Null] /\ total' = [total EXCEPT ![w] = 0]
      /\ UNCHANGED <<held, store, resets, syncedIn, mishaps>>
  BY DEF counts
<1>2. Eras'
  BY <1>1 DEF IInv, Eras, Null
<1>3. OneSync' /\ HeldIsCurrent' /\ HeldIsRecent' /\ ResetIsFinal'
  BY <1>1 DEF IInv, OneSync, HeldIsCurrent, HeldIsRecent, ResetIsFinal, Syncing, Undisturbed, Without
<1>4. EntryKept'
  <2> SUFFICES ASSUME NEW v \in Windows, lastSynced'[v] # Null PROVE lastSynced'[v] = lastSynced[v]
    BY <1>1 DEF IInv, EntryKept, Without
  <2> QED BY <1>1 DEF IInv, Eras
<1> QED BY <1>2, <1>3, <1>4 DEF IInv

\* Steps that the record and the syncs do not depend on.
LEMMA OtherKeeps ==
  ASSUME IInv, total' \in [Windows -> Nat],
         UNCHANGED <<lastSynced, held, store, resets, syncedIn, mishaps>>
  PROVE  IInv'
BY DEF IInv, Eras, OneSync, HeldIsCurrent, HeldIsRecent, EntryKept, ResetIsFinal, Syncing,
       Undisturbed, Without

-----------------------------------------------------------------------------
\* The clock is a number.
Clock == now \in Nat

LEMMA NextKeeps == ASSUME IInv, Clock, [Next]_vars PROVE IInv' /\ Clock'
<1>1. CASE UNCHANGED vars
  BY <1>1, OtherKeeps DEF vars, counts, Clock, IInv, Eras
<1>2. CASE TimePasses
  <2>1. IInv'
    BY <1>2, OtherKeeps DEF TimePasses, counts, IInv, Eras
  <2> QED BY <1>2, <2>1 DEF TimePasses, Clock
<1>3. ASSUME NEW w \in Windows, WindowActs(w) PROVE IInv' /\ Clock'
  <2> USE DEF counts
  <2>0. Clock'
    BY <1>3 DEF WindowActs, Work, NewPeriod, ResetDeletes, ResetForgets, Sync, SyncSaves, SyncFails, Clock
  <2>t. total \in [Windows -> Nat] /\ total[w] \in Nat /\ now \in Int
    BY DEF IInv, Eras, Clock
  <2>1. CASE Work(w)
    <3>1. total' \in [Windows -> Nat]
      BY <2>1, <2>t DEF Work
    <3> QED BY <2>0, <2>1, <3>1, OtherKeeps DEF Work
  <2>2. CASE NewPeriod(w)
    <3>1. total' \in [Windows -> Nat] /\ UNCHANGED <<lastSynced, store, resets, syncedIn>>
      BY <2>2, <2>t DEF NewPeriod
    <3>2. CASE Syncing(w)
      BY <2>0, <2>2, <3>1, <3>2, OtherKeeps DEF NewPeriod
    <3>3. CASE ~Syncing(w)
      <4>1. SyncLoads(w, 0, TRUE)
        BY <2>2, <3>3 DEF NewPeriod
      <4> QED BY <2>0, <2>t, <3>1, <4>1, LoadKeeps
    <3> QED BY <3>2, <3>3
  <2>3. CASE Sync(w)
    <3>1. SyncLoads(w, total[w], FALSE) /\ UNCHANGED <<total, lastSynced, store, resets, syncedIn>>
      BY <2>3 DEF Sync
    <3> QED BY <2>0, <2>t, <3>1, LoadKeeps
  <2>4. CASE SyncSaves(w)
    BY <2>0, <2>4, SaveKeeps
  <2>5. CASE SyncFails(w)
    BY <2>0, <2>5, FailKeeps DEF SyncFails
  <2>6. CASE ResetDeletes(w)
    BY <2>0, <2>6, DeleteKeeps
  <2>7. CASE ResetForgets(w)
    BY <2>0, <2>7, ForgetKeeps
  <2> QED BY <1>3, <2>1, <2>2, <2>3, <2>4, <2>5, <2>6, <2>7 DEF WindowActs
<1> QED BY <1>1, <1>2, <1>3 DEF Next

\* GlobalAggregator.ts: what doSync has loaded is what is stored, but for this
\* window's own entry, as long as no other window syncs or resets.
THEOREM Invariance == Spec => [](IInv /\ Clock)
<1>1. Init => IInv /\ Clock
  BY InitInv DEF Init, Clock
<1>2. IInv /\ Clock /\ [Next]_vars => (IInv /\ Clock)'
  BY NextKeeps
<1> QED BY <1>1, <1>2, PTL DEF Spec

\* _lastSyncedTotalMs, for which later syncs are skipped, is what the record
\* holds, for any number of windows, unless two syncs overlapped, the entry was
\* pruned or a reset came.
THEOREM BelievedIsStored == Spec => []EntryKept
<1>1. IInv => EntryKept
  BY DEF IInv
<1> QED BY <1>1, Invariance, PTL

\* No entry from before a reset is there after it or comes back, in whichever
\* window it was and however many windows there are, unless a sync was in flight
\* or VS Code refused the deletion.
THEOREM ResetErasesAll == Spec => []ResetIsFinal
<1>1. IInv => ResetIsFinal
  BY DEF IInv
<1> QED BY <1>1, Invariance, PTL
=============================================================================

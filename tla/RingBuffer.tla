----------------------------- MODULE RingBuffer -----------------------------
(***************************************************************************)
(* workspace-timing/src/cache/RingBuffer.ts: a preallocated array, a write *)
(* pointer (head), a read pointer (tail) and a count.  Slots are numbered  *)
(* from 0 on and both pointers move modulo the capacity.  A slot that      *)
(* holds nothing is Undefined.                                             *)
(***************************************************************************)
EXTENDS Integers, Sequences

CONSTANTS
  Items,
  RingCapacity,
  Undefined

ASSUME RingCapacityAssumption == RingCapacity \in Nat \ {0}
ASSUME UndefinedAssumption == Undefined \notin Items

VARIABLES
  buffer,   \* [Slots -> Items \union {Undefined}]
  head,     \* next slot to write
  tail,     \* next slot to read
  count,    \* items not yet consumed
  returned  \* what the last call returned to its caller

ringVars == <<buffer, head, tail, count, returned>>

Slots == 0 .. RingCapacity - 1

Min(a, b) == IF a <= b THEN a ELSE b

\* The slot k places after slot i.
SlotAfter(i, k) == (i + k) % RingCapacity

\* The n slots from i on, the ones an advance of n clears.
SlotsFrom(i, n) == {SlotAfter(i, k) : k \in 0 .. n - 1}

-----------------------------------------------------------------------------
(* Queries: they leave the buffer as it is.                                *)

PeekAll == [k \in 1 .. count |-> buffer[SlotAfter(tail, k - 1)]]

PeekOldest == IF count = 0 THEN Undefined ELSE buffer[tail]

PeekNewest ==
  IF count = 0 THEN Undefined ELSE buffer[(head - 1 + RingCapacity) % RingCapacity]

\* Mutant: counts the n items from the read pointer, not from the end.
PeekLastFromTail(n) ==
  [k \in 1 .. Min(n, count) |-> buffer[SlotAfter(tail, k - 1)]]

PeekLast(n) ==
  LET take == Min(n, count)
      from == SlotAfter(tail, count - take)
  IN  [k \in 1 .. take |-> buffer[SlotAfter(from, k - 1)]]

-----------------------------------------------------------------------------
RingInit ==
  /\ buffer = [i \in Slots |-> Undefined]
  /\ head = 0
  /\ tail = 0
  /\ count = 0
  /\ returned = Undefined

\* push(item): writes at head; when full, the read pointer moves with it.
\* Returns what the slot held.
Push(x) ==
  /\ returned' = buffer[head]
  /\ buffer' = [buffer EXCEPT ![head] = x]
  /\ head' = SlotAfter(head, 1)
  /\ IF count < RingCapacity
       THEN count' = count + 1 /\ UNCHANGED tail
       ELSE tail' = SlotAfter(tail, 1) /\ UNCHANGED count

\* The slots an advance clears and where it leaves the read pointer.
Consume(n) ==
  LET k == Min(n, count)
  IN  /\ buffer' = [i \in Slots |-> IF i \in SlotsFrom(tail, k)
                                      THEN Undefined ELSE buffer[i]]
      /\ tail' = SlotAfter(tail, k)
      /\ count' = count - k
      /\ UNCHANGED head

\* advance(n): the confirmation phase; n may exceed the count.
Advance(n) == Consume(n) /\ returned' = Undefined

\* flush(): one-phase consumption, peekAll then advance.
Flush == Consume(count) /\ returned' = PeekAll

\* Mutant: forgets to reset the read pointer.
ClearKeepsTail ==
  /\ buffer' = [i \in Slots |-> Undefined]
  /\ head' = 0
  /\ count' = 0
  /\ returned' = Undefined
  /\ UNCHANGED tail

Clear ==
  /\ buffer' = [i \in Slots |-> Undefined]
  /\ head' = 0
  /\ tail' = 0
  /\ count' = 0
  /\ returned' = Undefined

RingNext ==
  \/ \E x \in Items : Push(x)
  \/ \E n \in 0 .. RingCapacity + 1 : Advance(n)
  \/ Flush
  \/ Clear

RingSpec == RingInit /\ [][RingNext]_ringVars

-----------------------------------------------------------------------------
RingTypeOK ==
  /\ buffer \in [Slots -> Items \union {Undefined}]
  /\ head \in Slots
  /\ tail \in Slots
  /\ count \in 0 .. RingCapacity

\* The three counters always agree: the write pointer is count slots after the
\* read pointer, also after the pointers wrapped and after an eviction moved
\* the read pointer (push, advance and clear each update them separately).
PointersAgree == head = SlotAfter(tail, count)

\* "Slots cleared on consumption so that the garbage collector can reclaim
\* them": exactly the slots of the unconsumed window hold an item, so no
\* consumed item stays reachable and no unconsumed one was cleared.
WindowOccupied ==
  \A i \in Slots : buffer[i] # Undefined <=> i \in SlotsFrom(tail, count)

\* The queries agree with each other: peekLast(n) is the last n items of
\* peekAll, and the oldest and newest items are its ends.
QueriesAgree ==
  /\ \A n \in 0 .. RingCapacity + 1 :
       PeekLast(n) = SubSeq(PeekAll, count - Min(n, count) + 1, count)
  /\ count > 0 => PeekOldest = PeekAll[1] /\ PeekNewest = PeekAll[count]

\* push returns the item it evicted and nothing when there was room.
PushReturnsEvicted ==
  [][\A x \in Items :
       Push(x) => returned' = IF count = RingCapacity THEN PeekAll[1] ELSE Undefined]_ringVars

\* The array implements the evicting queue.
Queue == INSTANCE EvictingQueue WITH queue <- PeekAll, Capacity <- RingCapacity
ImplementsEvictingQueue == Queue!Spec
=============================================================================

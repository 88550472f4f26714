--------------------------- MODULE EvictingQueue ---------------------------
(***************************************************************************)
(* What cache/RingBuffer.ts promises its users, without the array: a FIFO  *)
(* queue of at most Capacity items.  A push to a full queue evicts the     *)
(* oldest item; items are read without being removed (peek) and removed    *)
(* from the front later (advance), the two phases of a consumption.        *)
(* RingBuffer implements this module; JournalWriter is built on it.        *)
(***************************************************************************)
EXTENDS Naturals, Sequences

CONSTANTS
  Items,      \* what the queue holds
  Capacity    \* RingBuffer.capacity, at least one: the constructor throws below

VARIABLE queue  \* oldest item first

-----------------------------------------------------------------------------
(* The operations as functions on the queue.                               *)

\* push: the oldest item makes room when the queue is full.
Pushed(q, x) == Append(IF Len(q) = Capacity THEN Tail(q) ELSE q, x)

\* The items a push evicts.
EvictedBy(q) == IF Len(q) = Capacity THEN {q[1]} ELSE {}

\* advance(n): drops at most n items from the front, never more than there are.
AdvanceBy(q, n) == IF n >= Len(q) THEN << >> ELSE SubSeq(q, n + 1, Len(q))

-----------------------------------------------------------------------------
Init == queue = << >>

Push(x) == queue' = Pushed(queue, x)

Advance(n) == queue' = AdvanceBy(queue, n)

Clear == queue' = << >>

Next ==
  \/ \E x \in Items : Push(x)
  \/ \E n \in 0 .. Capacity : Advance(n)
  \/ Clear

Spec == Init /\ [][Next]_queue

-----------------------------------------------------------------------------
TypeOK == queue \in Seq(Items) /\ Len(queue) <= Capacity
=============================================================================

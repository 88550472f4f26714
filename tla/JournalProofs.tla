--------------------------- MODULE JournalProofs ---------------------------
(***************************************************************************)
(* Proofs about the journal, for any capacity of the ring buffer, any      *)
(* number of callers and any number of failures.                           *)
(*                                                                         *)
(* First the ring buffer, RingBuffer implements EvictingQueue.  Every slot *)
(* the code computes is at most RingCapacity places after a slot, so that  *)
(* its modulus is one subtraction (SlotIs); the rest is linear arithmetic  *)
(* over the window of count slots from the read pointer on.                *)
(*                                                                         *)
(* Then JournalWriter, which is built on the evicting queue.  The buffer   *)
(* always holds the latest slices, consecutive up to the last push         *)
(* (QueueInv), and a batch being appended is a consecutive run that starts *)
(* no later than the buffer does (BatchInv).  Everything up to Behind has  *)
(* left the buffer; the other conjuncts say where it went.                 *)
(***************************************************************************)
EXTENDS JournalWriter, RingBuffer, TLAPS, FiniteSetTheorems, SequenceTheorems

-----------------------------------------------------------------------------
(* The ring buffer.                                                        *)

\* The inductive invariant: the pointers agree, and the window is what holds items.
RingIInv == RingTypeOK /\ PointersAgree /\ WindowOccupied

-----------------------------------------------------------------------------
LEMMA Wraps ==
  ASSUME NEW c \in Nat \ {0}, NEW a \in Nat, a < c + c
  PROVE  a % c = IF a < c THEN a ELSE a - c
BY SMTT(30)

LEMMA SlotIs ==
  ASSUME NEW i \in Slots, NEW k \in 0 .. RingCapacity
  PROVE  /\ SlotAfter(i, k) = IF i + k < RingCapacity THEN i + k ELSE i + k - RingCapacity
         /\ SlotAfter(i, k) \in Slots
<1> DEFINE a == i + k
<1>1. RingCapacity \in Nat \ {0} /\ a \in Nat /\ a < RingCapacity + RingCapacity
  BY RingCapacityAssumption DEF Slots
<1>2. a % RingCapacity = IF a < RingCapacity THEN a ELSE a - RingCapacity
  <2> HIDE DEF a
  <2> QED BY <1>1, Wraps
<1> QED BY <1>1, <1>2 DEF Slots, SlotAfter

\* Different places of the window are different slots.
LEMMA SlotsDiffer ==
  ASSUME NEW i \in Slots, NEW j \in 0 .. RingCapacity, NEW k \in 0 .. RingCapacity,
         j < k, k - j < RingCapacity
  PROVE  SlotAfter(i, j) # SlotAfter(i, k)
<1>1. SlotAfter(i, j) = IF i + j < RingCapacity THEN i + j ELSE i + j - RingCapacity
  BY SlotIs
<1>2. SlotAfter(i, k) = IF i + k < RingCapacity THEN i + k ELSE i + k - RingCapacity
  BY SlotIs
<1> QED BY <1>1, <1>2, RingCapacityAssumption DEF Slots

\* Going on from a slot of the window.
LEMMA SlotsAdd ==
  ASSUME NEW i \in Slots, NEW j \in 0 .. RingCapacity, NEW k \in 0 .. RingCapacity,
         j + k <= RingCapacity
  PROVE  SlotAfter(SlotAfter(i, j), k) = SlotAfter(i, j + k)
<1>1. SlotAfter(i, j) \in Slots /\ j + k \in 0 .. RingCapacity
  BY SlotIs, RingCapacityAssumption
<1>2. SlotAfter(i, j) = IF i + j < RingCapacity THEN i + j ELSE i + j - RingCapacity
  BY SlotIs
<1>3. SlotAfter(i, j + k) = IF i + (j + k) < RingCapacity THEN i + (j + k) ELSE i + (j + k) - RingCapacity
  BY <1>1, SlotIs
<1>4. SlotAfter(SlotAfter(i, j), k) = IF SlotAfter(i, j) + k < RingCapacity
                                        THEN SlotAfter(i, j) + k
                                        ELSE SlotAfter(i, j) + k - RingCapacity
  BY <1>1, SlotIs
<1> QED BY <1>2, <1>3, <1>4, RingCapacityAssumption DEF Slots

\* Every slot is one of the RingCapacity places after any other.
LEMMA SlotReached ==
  ASSUME NEW i \in Slots, NEW s \in Slots
  PROVE  \E k \in 0 .. RingCapacity - 1 : s = SlotAfter(i, k)
<1> DEFINE k == IF s >= i THEN s - i ELSE s - i + RingCapacity
<1>1. k \in 0 .. RingCapacity - 1 /\ k \in 0 .. RingCapacity
  BY RingCapacityAssumption DEF Slots
<1>2. SlotAfter(i, k) = IF i + k < RingCapacity THEN i + k ELSE i + k - RingCapacity
  BY <1>1, SlotIs
<1>3. s = SlotAfter(i, k)
  BY <1>1, <1>2, RingCapacityAssumption DEF Slots
<1> QED BY <1>1, <1>3

\* A place is in the window of n slots when it is one of its first n.
LEMMA InWindow ==
  ASSUME NEW i \in Slots, NEW n \in 0 .. RingCapacity, NEW k \in 0 .. RingCapacity - 1
  PROVE  SlotAfter(i, k) \in SlotsFrom(i, n) <=> k < n
<1>1. ASSUME k < n PROVE SlotAfter(i, k) \in SlotsFrom(i, n)
  BY <1>1, RingCapacityAssumption DEF SlotsFrom
<1>2. ASSUME SlotAfter(i, k) \in SlotsFrom(i, n) PROVE k < n
  <2>1. PICK j \in 0 .. n - 1 : SlotAfter(i, k) = SlotAfter(i, j)
    BY <1>2 DEF SlotsFrom
  <2>2. j \in 0 .. RingCapacity /\ k \in 0 .. RingCapacity /\ k - j < RingCapacity
    BY RingCapacityAssumption
  <2>3. ~ (j < k)
    BY <2>1, <2>2, SlotsDiffer
  <2> QED BY <2>2, <2>3
<1> QED BY <1>1, <1>2

\* Going once around, and going on from j to a place before j.
LEMMA FullCircle ==
  ASSUME NEW i \in Slots
  PROVE  SlotAfter(i, RingCapacity) = i
<1>1. RingCapacity \in 0 .. RingCapacity
  BY RingCapacityAssumption
<1>2. SlotAfter(i, RingCapacity) = IF i + RingCapacity < RingCapacity THEN i + RingCapacity ELSE i + RingCapacity - RingCapacity
  BY <1>1, SlotIs
<1> QED BY <1>2, RingCapacityAssumption DEF Slots

LEMMA SlotsSeenFrom ==
  ASSUME NEW i \in Slots, NEW j \in 0 .. RingCapacity, NEW p \in 0 .. RingCapacity - 1
  PROVE  SlotAfter(i, p) =
           SlotAfter(SlotAfter(i, j), IF p >= j THEN p - j ELSE p - j + RingCapacity)
<1> DEFINE q == IF p >= j THEN p - j ELSE p - j + RingCapacity
<1>1. q \in 0 .. RingCapacity /\ p \in 0 .. RingCapacity
  BY RingCapacityAssumption
<1>2. SlotAfter(i, j) \in Slots
      /\ SlotAfter(i, j) = IF i + j < RingCapacity THEN i + j ELSE i + j - RingCapacity
  BY SlotIs
<1>3. SlotAfter(i, p) = IF i + p < RingCapacity THEN i + p ELSE i + p - RingCapacity
  BY <1>1, SlotIs
<1>4. SlotAfter(SlotAfter(i, j), q) = IF SlotAfter(i, j) + q < RingCapacity
                                        THEN SlotAfter(i, j) + q
                                        ELSE SlotAfter(i, j) + q - RingCapacity
  BY <1>1, <1>2, SlotIs
<1> QED BY <1>2, <1>3, <1>4, RingCapacityAssumption DEF Slots

-----------------------------------------------------------------------------
(* The window of n slots from t on, as a sequence.                         *)

Window(b, t, n) == [k \in 1 .. n |-> b[SlotAfter(t, k - 1)]]

LEMMA WindowIs ==
  ASSUME NEW b \in [Slots -> Items \union {Undefined}], NEW t \in Slots, NEW n \in 0 .. RingCapacity
  PROVE  /\ Window(b, t, n) \in Seq(Items \union {Undefined})
         /\ Len(Window(b, t, n)) = n
         /\ \A k \in 1 .. n : Window(b, t, n)[k] = b[SlotAfter(t, k - 1)]
<1>1. n \in Nat
  BY RingCapacityAssumption
<1>2. \A k \in 1 .. n : b[SlotAfter(t, k - 1)] \in Items \union {Undefined}
  <2> TAKE k \in 1 .. n
  <2>1. k - 1 \in 0 .. RingCapacity
    BY RingCapacityAssumption
  <2>2. SlotAfter(t, k - 1) \in Slots
    BY <2>1, SlotIs
  <2> QED BY <2>2
<1>3. Window(b, t, n) \in [1 .. n -> Items \union {Undefined}]
  BY <1>2 DEF Window
<1>4. Window(b, t, n) \in Seq(Items \union {Undefined}) /\ Len(Window(b, t, n)) = n
  BY <1>1, <1>3
<1>5. \A k \in 1 .. n : Window(b, t, n)[k] = b[SlotAfter(t, k - 1)]
  BY DEF Window
<1> QED BY <1>4, <1>5

\* Two windows with the same items are the same sequence.
LEMMA SameSequence ==
  ASSUME NEW S, NEW s \in Seq(S), NEW r \in Seq(S), Len(s) = Len(r),
         \A k \in 1 .. Len(s) : s[k] = r[k]
  PROVE  s = r
BY SeqEqual

-----------------------------------------------------------------------------
(* What the operations do to the window, and that they keep the invariant. *)

\* A window that is not full grows by the item that is pushed.
LEMMA PushedWithRoom ==
  ASSUME NEW b \in [Slots -> Items \union {Undefined}], NEW t \in Slots, NEW n \in 0 .. RingCapacity,
         NEW x \in Items, n < RingCapacity
  PROVE  Window([b EXCEPT ![SlotAfter(t, n)] = x], t, n + 1) = Append(Window(b, t, n), x)
<1> DEFINE h == SlotAfter(t, n)
           c == [b EXCEPT ![h] = x]
<1>1. h \in Slots
  BY SlotIs
<1>2. c \in [Slots -> Items \union {Undefined}] /\ n + 1 \in 0 .. RingCapacity
  BY <1>1, RingCapacityAssumption
<1>3. /\ Window(c, t, n + 1) \in Seq(Items \union {Undefined})
      /\ Len(Window(c, t, n + 1)) = n + 1
      /\ \A k \in 1 .. n + 1 : Window(c, t, n + 1)[k] = c[SlotAfter(t, k - 1)]
  BY <1>2, WindowIs
<1>4. /\ Window(b, t, n) \in Seq(Items \union {Undefined})
      /\ Len(Window(b, t, n)) = n
      /\ \A k \in 1 .. n : Window(b, t, n)[k] = b[SlotAfter(t, k - 1)]
  BY WindowIs
<1>5. \A k \in 1 .. n : c[SlotAfter(t, k - 1)] = b[SlotAfter(t, k - 1)]
  <2> TAKE k \in 1 .. n
  <2>1. k - 1 \in 0 .. RingCapacity /\ k - 1 < n /\ n - (k - 1) < RingCapacity
    BY RingCapacityAssumption
  <2>2. SlotAfter(t, k - 1) # h /\ SlotAfter(t, k - 1) \in Slots
    BY <2>1, SlotsDiffer, SlotIs
  <2> QED BY <2>2
<1>6. c[SlotAfter(t, (n + 1) - 1)] = x
  BY <1>1, RingCapacityAssumption
<1> HIDE DEF c
<1>7. \A k \in 1 .. n + 1 : Window(c, t, n + 1)[k] = Append(Window(b, t, n), x)[k]
  <2> TAKE k \in 1 .. n + 1
  <2>1. CASE k = n + 1
    <3>1. Append(Window(b, t, n), x)[n + 1] = x
      BY <1>4, RingCapacityAssumption
    <3> QED BY <2>1, <3>1, <1>3, <1>6, RingCapacityAssumption
  <2>2. CASE k # n + 1
    <3>1. k \in 1 .. n
      BY <2>2, RingCapacityAssumption
    <3>2. Append(Window(b, t, n), x)[k] = Window(b, t, n)[k]
      BY <3>1, <1>4
    <3> QED BY <3>1, <3>2, <1>3, <1>4, <1>5
  <2> QED BY <2>1, <2>2
<1>8. Append(Window(b, t, n), x) \in Seq(Items \union {Undefined})
      /\ Len(Append(Window(b, t, n), x)) = n + 1
  BY <1>4, RingCapacityAssumption
<1>9. Window(c, t, n + 1) = Append(Window(b, t, n), x)
  BY <1>3, <1>7, <1>8, SameSequence
<1> QED BY <1>9 DEF c

\* A full window loses its oldest item to the one that is pushed.
LEMMA PushedWhenFull ==
  ASSUME NEW b \in [Slots -> Items \union {Undefined}], NEW t \in Slots, NEW x \in Items
  PROVE  Window([b EXCEPT ![t] = x], SlotAfter(t, 1), RingCapacity)
           = Append(Tail(Window(b, t, RingCapacity)), x)
<1> DEFINE c == [b EXCEPT ![t] = x]
           u == SlotAfter(t, 1)
           old == Window(b, t, RingCapacity)
           new == Window(c, u, RingCapacity)
<1>0. RingCapacity \in Nat \ {0} /\ RingCapacity \in 0 .. RingCapacity /\ 1 \in 0 .. RingCapacity
  BY RingCapacityAssumption
<1>1. u \in Slots
  BY <1>0, SlotIs
<1>2. c \in [Slots -> Items \union {Undefined}]
  OBVIOUS
<1>3. /\ new \in Seq(Items \union {Undefined})
      /\ Len(new) = RingCapacity
      /\ \A k \in 1 .. RingCapacity : new[k] = c[SlotAfter(u, k - 1)]
  BY <1>0, <1>1, <1>2, WindowIs
<1>4. /\ old \in Seq(Items \union {Undefined})
      /\ Len(old) = RingCapacity
      /\ \A k \in 1 .. RingCapacity : old[k] = b[SlotAfter(t, k - 1)]
  BY <1>0, WindowIs
<1>5. \A k \in 1 .. RingCapacity : SlotAfter(u, k - 1) = SlotAfter(t, k)
  <2> TAKE k \in 1 .. RingCapacity
  <2>1. k - 1 \in 0 .. RingCapacity /\ 1 + (k - 1) <= RingCapacity /\ 1 + (k - 1) = k
    BY <1>0
  <2> QED BY <1>0, <2>1, SlotsAdd
<1>6. c[SlotAfter(t, RingCapacity)] = x
  BY FullCircle
<1>7. \A k \in 1 .. RingCapacity - 1 : c[SlotAfter(t, k)] = b[SlotAfter(t, k)]
  <2> TAKE k \in 1 .. RingCapacity - 1
  <2>1. k \in 0 .. RingCapacity /\ k < RingCapacity /\ RingCapacity - k < RingCapacity
    BY <1>0
  <2>2. SlotAfter(t, k) # SlotAfter(t, RingCapacity) /\ SlotAfter(t, k) \in Slots
    BY <1>0, <2>1, SlotsDiffer, SlotIs
  <2> QED BY <2>2, FullCircle
<1> HIDE DEF c, u, old, new
<1>8. /\ Tail(old) \in Seq(Items \union {Undefined})
      /\ Len(Tail(old)) = RingCapacity - 1
      /\ \A k \in 1 .. RingCapacity - 1 : Tail(old)[k] = old[k + 1]
  BY <1>0, <1>4
<1>9. \A k \in 1 .. RingCapacity : new[k] = Append(Tail(old), x)[k]
  <2> TAKE k \in 1 .. RingCapacity
  <2>1. new[k] = c[SlotAfter(t, k)]
    BY <1>3, <1>5
  <2>2. CASE k = RingCapacity
    <3>1. Append(Tail(old), x)[RingCapacity] = x
      BY <1>0, <1>8
    <3> QED BY <2>1, <2>2, <3>1, <1>6
  <2>3. CASE k # RingCapacity
    <3>1. k \in 1 .. RingCapacity - 1 /\ k + 1 \in 1 .. RingCapacity /\ (k + 1) - 1 = k
      BY <1>0, <2>3
    <3>2. Append(Tail(old), x)[k] = old[k + 1]
      BY <1>8, <3>1
    <3>3. old[k + 1] = b[SlotAfter(t, k)]
      BY <1>4, <3>1
    <3> QED BY <2>1, <3>1, <3>2, <3>3, <1>7
  <2> QED BY <2>2, <2>3
<1>10. Append(Tail(old), x) \in Seq(Items \union {Undefined}) /\ Len(Append(Tail(old), x)) = RingCapacity
  BY <1>0, <1>8
<1>11. new = Append(Tail(old), x)
  BY <1>3, <1>9, <1>10, SameSequence
<1> QED BY <1>11 DEF c, u, old, new

\* The array after the k slots from t on were cleared.
Cleared(b, t, k) == [i \in Slots |-> IF i \in SlotsFrom(t, k) THEN Undefined ELSE b[i]]

\* The last n - k items of a window are the window of the slots after the first k.
LEMMA EndOfWindow ==
  ASSUME NEW b \in [Slots -> Items \union {Undefined}], NEW t \in Slots, NEW n \in 0 .. RingCapacity,
         NEW k \in 0 .. n
  PROVE  Window(b, SlotAfter(t, k), n - k) = SubSeq(Window(b, t, n), k + 1, n)
<1> DEFINE u == SlotAfter(t, k)
           old == Window(b, t, n)
           new == Window(b, u, n - k)
<1>0. RingCapacity \in Nat \ {0} /\ n \in Nat /\ n - k \in 0 .. RingCapacity /\ k \in 0 .. RingCapacity
  BY RingCapacityAssumption
<1>1. u \in Slots
  BY <1>0, SlotIs
<1>2. /\ new \in Seq(Items \union {Undefined})
      /\ Len(new) = n - k
      /\ \A j \in 1 .. n - k : new[j] = b[SlotAfter(u, j - 1)]
  BY <1>0, <1>1, WindowIs
<1>3. /\ old \in Seq(Items \union {Undefined})
      /\ Len(old) = n
      /\ \A j \in 1 .. n : old[j] = b[SlotAfter(t, j - 1)]
  BY WindowIs
<1>4. \A j \in 1 .. n - k : SlotAfter(u, j - 1) = SlotAfter(t, k + j - 1)
  <2> TAKE j \in 1 .. n - k
  <2>1. j - 1 \in 0 .. RingCapacity /\ k + (j - 1) <= RingCapacity /\ k + j - 1 = k + (j - 1)
    BY <1>0
  <2> QED BY <1>0, <2>1, SlotsAdd
<1> HIDE DEF u, old, new
<1>5. /\ SubSeq(old, k + 1, n) \in Seq(Items \union {Undefined})
      /\ Len(SubSeq(old, k + 1, n)) = n - k
      /\ \A j \in 1 .. n - k : SubSeq(old, k + 1, n)[j] = old[k + j]
  BY <1>0, <1>3
<1>6. \A j \in 1 .. n - k : new[j] = SubSeq(old, k + 1, n)[j]
  <2> TAKE j \in 1 .. n - k
  <2>1. k + j \in 1 .. n
    BY <1>0
  <2>2. old[k + j] = b[SlotAfter(t, k + j - 1)]
    BY <2>1, <1>3
  <2>3. new[j] = b[SlotAfter(t, k + j - 1)]
    BY <1>2, <1>4
  <2> QED BY <2>2, <2>3, <1>5
<1>7. new = SubSeq(old, k + 1, n)
  BY <1>2, <1>5, <1>6, SameSequence
<1> QED BY <1>7 DEF u, old, new

\* An advance of k takes k items from the front of the window.
LEMMA ConsumedFromFront ==
  ASSUME NEW b \in [Slots -> Items \union {Undefined}], NEW t \in Slots, NEW n \in 0 .. RingCapacity,
         NEW k \in 0 .. n
  PROVE  Window(Cleared(b, t, k), SlotAfter(t, k), n - k) = SubSeq(Window(b, t, n), k + 1, n)
<1> DEFINE u == SlotAfter(t, k)
<1>0. RingCapacity \in Nat \ {0} /\ k \in 0 .. RingCapacity
  BY RingCapacityAssumption
<1>1. \A j \in 1 .. n - k : Cleared(b, t, k)[SlotAfter(u, j - 1)] = b[SlotAfter(u, j - 1)]
  <2> TAKE j \in 1 .. n - k
  <2>1. /\ j - 1 \in 0 .. RingCapacity /\ k + (j - 1) <= RingCapacity
        /\ k + (j - 1) \in 0 .. RingCapacity - 1 /\ k + (j - 1) \in 0 .. RingCapacity
        /\ ~ (k + (j - 1) < k)
    BY <1>0
  <2>2. SlotAfter(u, j - 1) = SlotAfter(t, k + (j - 1))
    BY <1>0, <2>1, SlotsAdd
  <2>3. SlotAfter(t, k + (j - 1)) \in Slots /\ SlotAfter(t, k + (j - 1)) \notin SlotsFrom(t, k)
    BY <1>0, <2>1, InWindow, SlotIs
  <2> QED BY <2>2, <2>3 DEF Cleared
<1>2. Window(Cleared(b, t, k), u, n - k) = Window(b, u, n - k)
  BY <1>1 DEF Window
<1> QED BY <1>2, EndOfWindow

-----------------------------------------------------------------------------
LEMMA PeekAllIsWindow == PeekAll = Window(buffer, tail, count) /\ PeekAll' = Window(buffer', tail', count')
BY DEF PeekAll, Window, SlotAfter

LEMMA InitInv == RingInit => RingIInv
<1> SUFFICES ASSUME RingInit PROVE RingIInv
  OBVIOUS
<1>1. 0 \in Slots /\ 0 \in 0 .. RingCapacity /\ SlotAfter(0, 0) = 0
  <2>1. 0 \in Slots /\ 0 \in 0 .. RingCapacity /\ 0 < RingCapacity
    BY RingCapacityAssumption DEF Slots
  <2>2. SlotAfter(0, 0) = IF 0 + 0 < RingCapacity THEN 0 + 0 ELSE 0 + 0 - RingCapacity
    BY <2>1, SlotIs
  <2> QED BY <2>1, <2>2
<1> QED BY <1>1 DEF RingInit, RingIInv, RingTypeOK, PointersAgree, WindowOccupied, SlotsFrom

\* A push keeps the invariant and is a push to the queue.
LEMMA PushStep ==
  ASSUME RingIInv, NEW x \in Items, Push(x)
  PROVE  RingIInv' /\ Queue!Push(x)
<1>0. /\ RingCapacity \in Nat \ {0} /\ 1 \in 0 .. RingCapacity /\ x # Undefined
      /\ buffer \in [Slots -> Items \union {Undefined}]
      /\ head \in Slots /\ tail \in Slots /\ count \in 0 .. RingCapacity
      /\ head = SlotAfter(tail, count)
      /\ \A i \in Slots : buffer[i] # Undefined <=> i \in SlotsFrom(tail, count)
  BY RingCapacityAssumption, UndefinedAssumption DEF RingIInv, RingTypeOK, PointersAgree, WindowOccupied
<1>1. /\ buffer' = [buffer EXCEPT ![head] = x]
      /\ head' = SlotAfter(head, 1)
      /\ buffer' \in [Slots -> Items \union {Undefined}]
      /\ head' \in Slots
  BY <1>0, SlotIs DEF Push
<1>2. Len(PeekAll) = count
  BY <1>0, WindowIs, PeekAllIsWindow
<1>3. CASE count < RingCapacity
  <2>1. tail' = tail /\ count' = count + 1
    BY <1>3 DEF Push
  <2>2. RingTypeOK'
    BY <1>0, <1>1, <1>3, <2>1 DEF RingTypeOK, Slots
  <2>3. PointersAgree'
    <3>1. head' = SlotAfter(tail, count + 1)
      BY <1>0, <1>1, <1>3, SlotsAdd
    <3> QED BY <3>1, <2>1 DEF PointersAgree, SlotAfter
  <2>4. WindowOccupied'
    <3>1. SUFFICES ASSUME NEW i \in Slots
                   PROVE  buffer'[i] # Undefined <=> i \in SlotsFrom(tail, count + 1)
      BY <2>1 DEF WindowOccupied, SlotsFrom, Slots, SlotAfter
    <3>2. PICK p \in 0 .. RingCapacity - 1 : i = SlotAfter(tail, p)
      BY <1>0, SlotReached
    <3>3. i \in SlotsFrom(tail, count + 1) <=> p < count + 1
      BY <1>0, <1>3, <3>2, InWindow
    <3>4. i \in SlotsFrom(tail, count) <=> p < count
      BY <1>0, <3>2, InWindow
    <3>5. i = head <=> p = count
      <4>1. p \in 0 .. RingCapacity /\ p < RingCapacity /\ (p - count < RingCapacity) /\ (count - p < RingCapacity \/ p = 0)
        BY <1>0
      <4>2. ASSUME p < count PROVE i # head
        BY <1>0, <1>3, <3>2, <4>1, <4>2, SlotsDiffer
      <4>3. ASSUME count < p PROVE i # head
        BY <1>0, <3>2, <4>1, <4>3, SlotsDiffer
      <4> QED BY <1>0, <3>2, <4>1, <4>2, <4>3
    <3> QED BY <1>0, <1>1, <3>3, <3>4, <3>5
  <2>5. PeekAll' = Append(PeekAll, x)
    <3>1. Window([buffer EXCEPT ![SlotAfter(tail, count)] = x], tail, count + 1)
            = Append(Window(buffer, tail, count), x)
      BY <1>0, <1>3, PushedWithRoom
    <3>2. PeekAll' = Window([buffer EXCEPT ![SlotAfter(tail, count)] = x], tail, count + 1)
      BY <1>0, <1>1, <2>1, PeekAllIsWindow
    <3> QED BY <3>1, <3>2, PeekAllIsWindow
  <2>6. Queue!Push(x)
    BY <1>0, <1>2, <1>3, <2>5 DEF Queue!Push, Queue!Pushed
  <2> QED BY <2>2, <2>3, <2>4, <2>6 DEF RingIInv
<1>4. CASE count = RingCapacity
  <2>1. tail' = SlotAfter(tail, 1) /\ count' = RingCapacity /\ head = tail /\ tail' \in Slots
    BY <1>0, <1>4, FullCircle, SlotIs DEF Push
  <2>2. RingTypeOK'
    BY <1>0, <1>1, <2>1 DEF RingTypeOK, Slots
  <2>3. PointersAgree'
    <3>1. SlotAfter(tail', RingCapacity) = tail'
      BY <2>1, FullCircle
    <3> QED BY <3>1, <2>1, <1>1 DEF PointersAgree, SlotAfter
  <2>4. WindowOccupied'
    <3>1. SUFFICES ASSUME NEW i \in Slots
                   PROVE  buffer'[i] # Undefined <=> i \in SlotsFrom(tail', RingCapacity)
      BY <2>1 DEF WindowOccupied, SlotsFrom, Slots, SlotAfter
    <3>2. PICK p \in 0 .. RingCapacity - 1 : i = SlotAfter(tail', p)
      BY <2>1, SlotReached
    <3>3. PICK q \in 0 .. RingCapacity - 1 : i = SlotAfter(tail, q)
      BY <1>0, SlotReached
    <3>4. RingCapacity \in 0 .. RingCapacity /\ p < RingCapacity /\ q < RingCapacity
      BY <1>0
    <3>5. i \in SlotsFrom(tail', RingCapacity) /\ i \in SlotsFrom(tail, RingCapacity)
      BY <1>0, <2>1, <3>2, <3>3, <3>4, InWindow
    <3> QED BY <1>0, <1>1, <1>4, <3>5
  <2>5. PeekAll' = Append(Tail(PeekAll), x)
    BY <1>0, <1>1, <1>4, <2>1, PushedWhenFull, PeekAllIsWindow
  <2>6. Queue!Push(x)
    BY <1>0, <1>2, <1>4, <2>5 DEF Queue!Push, Queue!Pushed
  <2> QED BY <2>2, <2>3, <2>4, <2>6 DEF RingIInv
<1> QED BY <1>0, <1>3, <1>4

\* Consuming n items keeps the invariant and advances the queue by them, or by
\* all there are.
LEMMA ConsumeStep ==
  ASSUME RingIInv, NEW n \in Nat, Consume(n)
  PROVE  RingIInv' /\ PeekAll' = Queue!AdvanceBy(PeekAll, n)
<1> DEFINE k == Min(n, count)
           i0 == SlotAfter(tail, k)
<1>0. /\ RingCapacity \in Nat \ {0}
      /\ buffer \in [Slots -> Items \union {Undefined}]
      /\ head \in Slots /\ tail \in Slots /\ count \in 0 .. RingCapacity
      /\ head = SlotAfter(tail, count)
      /\ \A i \in Slots : buffer[i] # Undefined <=> i \in SlotsFrom(tail, count)
  BY RingCapacityAssumption DEF RingIInv, RingTypeOK, PointersAgree, WindowOccupied
<1>1. /\ k \in 0 .. count /\ k \in 0 .. RingCapacity /\ count - k \in 0 .. RingCapacity
      /\ k + (count - k) = count
      /\ k = IF n >= count THEN count ELSE n
  BY <1>0 DEF Min
<1>2. /\ buffer' = [i \in Slots |-> IF i \in SlotsFrom(tail, k) THEN Undefined ELSE buffer[i]]
      /\ tail' = i0 /\ count' = count - k /\ head' = head
  BY DEF Consume
<1>3. i0 \in Slots
  BY <1>0, <1>1, SlotIs
<1> HIDE DEF k
<1>4. RingTypeOK'
  <2>1. buffer' \in [Slots -> Items \union {Undefined}]
    BY <1>0, <1>2
  <2> QED BY <1>0, <1>1, <1>2, <1>3, <2>1 DEF RingTypeOK, Slots
<1>5. PointersAgree'
  <2>1. SlotAfter(i0, count - k) = SlotAfter(tail, k + (count - k))
    BY <1>0, <1>1, SlotsAdd
  <2>2. head = SlotAfter(i0, count - k)
    BY <1>0, <1>1, <2>1
  <2> QED BY <1>2, <2>2 DEF PointersAgree, SlotAfter
<1>6. WindowOccupied'
  <2>1. SUFFICES ASSUME NEW i \in Slots
                 PROVE  buffer'[i] # Undefined <=> i \in SlotsFrom(i0, count - k)
    BY <1>2 DEF WindowOccupied, SlotsFrom, Slots, SlotAfter
  <2>2. PICK p \in 0 .. RingCapacity - 1 : i = SlotAfter(tail, p)
    BY <1>0, SlotReached
  <2> DEFINE q == IF p >= k THEN p - k ELSE p - k + RingCapacity
  <2>3. i = SlotAfter(i0, q)
    BY <1>0, <1>1, <2>2, SlotsSeenFrom
  <2>4. q \in 0 .. RingCapacity - 1 /\ (q < count - k <=> k <= p /\ p < count)
    BY <1>0, <1>1
  <2>5. i \in SlotsFrom(tail, k) <=> p < k
    BY <1>0, <1>1, <2>2, InWindow
  <2>6. i \in SlotsFrom(tail, count) <=> p < count
    BY <1>0, <2>2, InWindow
  <2> HIDE DEF q
  <2>7. i \in SlotsFrom(i0, count - k) <=> q < count - k
    BY <1>1, <1>3, <2>3, <2>4, InWindow
  <2>8. p \in Int /\ k \in Int
    BY <1>0, <1>1
  <2> QED BY <1>0, <1>2, <2>4, <2>5, <2>6, <2>7, <2>8
<1>7. PeekAll' = Queue!AdvanceBy(PeekAll, n)
  <2>1. /\ PeekAll \in Seq(Items \union {Undefined}) /\ Len(PeekAll) = count
    BY <1>0, WindowIs, PeekAllIsWindow
  <2>2. PeekAll' = Window(Cleared(buffer, tail, k), i0, count - k)
    BY <1>2, PeekAllIsWindow DEF Cleared
  <2>3. PeekAll' = SubSeq(PeekAll, k + 1, count)
    <3>1. Window(Cleared(buffer, tail, k), SlotAfter(tail, k), count - k)
            = SubSeq(Window(buffer, tail, count), k + 1, count)
      <4>1. \A j \in 0 .. count :
              Window(Cleared(buffer, tail, j), SlotAfter(tail, j), count - j)
                = SubSeq(Window(buffer, tail, count), j + 1, count)
        BY <1>0, ConsumedFromFront
      <4> QED BY <1>1, <4>1
    <3> QED BY <2>2, <3>1, PeekAllIsWindow
  <2>4. CASE n >= count
    <3>1. SubSeq(PeekAll, count + 1, count) = << >>
      BY <1>0, <2>1
    <3> QED BY <1>1, <2>1, <2>3, <2>4, <3>1 DEF Queue!AdvanceBy
  <2>5. CASE ~ (n >= count)
    BY <1>1, <2>1, <2>3, <2>5 DEF Queue!AdvanceBy
  <2> QED BY <2>4, <2>5
<1> QED BY <1>4, <1>5, <1>6, <1>7 DEF RingIInv

\* clear() is the initial state again.
LEMMA ClearStep ==
  ASSUME RingIInv, Clear
  PROVE  RingIInv' /\ PeekAll' = << >>
<1>1. 0 \in Slots /\ 0 \in 0 .. RingCapacity /\ SlotAfter(0, 0) = 0
  <2>1. 0 \in Slots /\ 0 \in 0 .. RingCapacity /\ 0 < RingCapacity
    BY RingCapacityAssumption DEF Slots
  <2>2. SlotAfter(0, 0) = IF 0 + 0 < RingCapacity THEN 0 + 0 ELSE 0 + 0 - RingCapacity
    BY <2>1, SlotIs
  <2> QED BY <2>1, <2>2
<1>2. RingTypeOK' /\ PointersAgree'
  BY <1>1 DEF Clear, RingTypeOK, PointersAgree, Slots, SlotAfter
<1>3. WindowOccupied'
  BY <1>1 DEF Clear, WindowOccupied, Slots, SlotsFrom, SlotAfter
<1>4. PeekAll' = << >>
  BY DEF Clear, PeekAll
<1> QED BY <1>2, <1>3, <1>4 DEF RingIInv

-----------------------------------------------------------------------------
(* Every step is a step of the queue, or leaves it alone.                  *)

LEMMA NextStep ==
  ASSUME RingIInv, [RingNext]_ringVars
  PROVE  RingIInv' /\ [Queue!Next]_PeekAll
<1>0. count \in 0 .. RingCapacity /\ RingCapacity \in Nat \ {0}
  BY RingCapacityAssumption DEF RingIInv, RingTypeOK
<1>1. ASSUME NEW x \in Items, Push(x) PROVE RingIInv' /\ Queue!Next
  BY <1>1, PushStep DEF Queue!Next
<1>2. ASSUME NEW n \in 0 .. RingCapacity + 1, Advance(n) PROVE RingIInv' /\ [Queue!Next]_PeekAll
  <2>1. RingIInv' /\ PeekAll' = Queue!AdvanceBy(PeekAll, n)
    BY <1>0, <1>2, ConsumeStep DEF Advance
  <2>2. CASE n <= RingCapacity
    <3>1. n \in 0 .. RingCapacity
      BY <1>0, <2>2
    <3> QED BY <2>1, <3>1 DEF Queue!Next, Queue!Advance
  <2>3. CASE ~ (n <= RingCapacity)
    <3>1. Len(PeekAll) = count
      BY WindowIs, PeekAllIsWindow DEF RingIInv, RingTypeOK
    <3>2. Queue!AdvanceBy(PeekAll, n) = Queue!AdvanceBy(PeekAll, RingCapacity)
      BY <1>0, <2>3, <3>1 DEF Queue!AdvanceBy
    <3>3. RingCapacity \in 0 .. RingCapacity
      BY <1>0
    <3> QED BY <2>1, <3>2, <3>3 DEF Queue!Next, Queue!Advance
  <2> QED BY <2>2, <2>3
<1>3. CASE Flush
  <2>1. count \in Nat
    BY <1>0
  <2>2. RingIInv' /\ PeekAll' = Queue!AdvanceBy(PeekAll, count)
    BY <1>3, <2>1, ConsumeStep DEF Flush
  <2> QED BY <1>0, <2>2 DEF Queue!Next, Queue!Advance
<1>4. CASE Clear
  BY <1>4, ClearStep DEF Queue!Next, Queue!Clear
<1>5. CASE UNCHANGED ringVars
  BY <1>5 DEF ringVars, RingIInv, RingTypeOK, PointersAgree, WindowOccupied, PeekAll, Slots, SlotsFrom, SlotAfter
<1> QED BY <1>1, <1>2, <1>3, <1>4, <1>5 DEF RingNext

\* RingBuffer.ts: the write pointer is count slots after the read pointer and
\* exactly the slots between them hold items, through every wrap and eviction.
THEOREM RingInvariance == RingSpec => []RingIInv
<1>1. RingIInv /\ [RingNext]_ringVars => RingIInv'
  BY NextStep
<1> QED BY InitInv, <1>1, PTL DEF RingSpec

\* "Slots cleared on consumption": no consumed item stays in the array and no
\* unconsumed one was cleared.
THEOREM ConsumedIsCleared == RingSpec => []WindowOccupied
<1>1. RingIInv => WindowOccupied
  BY DEF RingIInv
<1> QED BY RingInvariance, <1>1, PTL

\* The queries agree, after every wrap of either pointer: peekLast(n) is the end
\* of peekAll, peekOldest and peekNewest are its first and its last item.
THEOREM QueriesAgreeAlways == RingSpec => []QueriesAgree
<1>1. ASSUME RingIInv PROVE QueriesAgree
  <2>0. /\ RingCapacity \in Nat \ {0} /\ count \in Nat
        /\ buffer \in [Slots -> Items \union {Undefined}]
        /\ head \in Slots /\ tail \in Slots /\ count \in 0 .. RingCapacity
        /\ head = SlotAfter(tail, count)
    BY <1>1, RingCapacityAssumption DEF RingIInv, RingTypeOK, PointersAgree
  <2>1. ASSUME NEW n \in 0 .. RingCapacity + 1
        PROVE  PeekLast(n) = SubSeq(PeekAll, count - Min(n, count) + 1, count)
    <3> DEFINE take == Min(n, count)
    <3>1. take \in 0 .. count /\ count - take \in 0 .. count /\ count - (count - take) = take
      BY <2>0 DEF Min
    <3>2. PeekLast(n) = Window(buffer, SlotAfter(tail, count - take), take)
      BY DEF PeekLast, Window
    <3> HIDE DEF take
    <3>3. \A k \in 0 .. count : Window(buffer, SlotAfter(tail, k), count - k)
                                  = SubSeq(Window(buffer, tail, count), k + 1, count)
      BY <2>0, EndOfWindow
    <3>4. Window(buffer, SlotAfter(tail, count - take), take)
            = SubSeq(PeekAll, count - take + 1, count)
      BY <3>1, <3>3, PeekAllIsWindow
    <3> QED BY <3>2, <3>4 DEF take
  <2>2. ASSUME count > 0 PROVE PeekOldest = PeekAll[1] /\ PeekNewest = PeekAll[count]
    <3>1. /\ PeekAll[1] = buffer[SlotAfter(tail, 1 - 1)]
          /\ PeekAll[count] = buffer[SlotAfter(tail, count - 1)]
      BY <2>0, <2>2 DEF PeekAll
    <3>2. SlotAfter(tail, 0) = tail
      <4>1. 0 \in 0 .. RingCapacity
        BY <2>0
      <4>2. SlotAfter(tail, 0) = IF tail + 0 < RingCapacity THEN tail + 0 ELSE tail + 0 - RingCapacity
        BY <2>0, <4>1, SlotIs
      <4> QED BY <2>0, <4>2 DEF Slots
    <3>3. (head - 1 + RingCapacity) % RingCapacity = SlotAfter(tail, count - 1)
      <4>1. count - 1 \in 0 .. RingCapacity
        BY <2>0, <2>2
      <4>2. head = IF tail + count < RingCapacity THEN tail + count ELSE tail + count - RingCapacity
        BY <2>0, SlotIs
      <4>3. SlotAfter(tail, count - 1) = IF tail + (count - 1) < RingCapacity
                                           THEN tail + (count - 1)
                                           ELSE tail + (count - 1) - RingCapacity
        BY <2>0, <4>1, SlotIs
      <4> DEFINE a == head - 1 + RingCapacity
      <4>4. a \in Nat /\ a < RingCapacity + RingCapacity
        BY <2>0 DEF Slots
      <4>5. a % RingCapacity = IF a < RingCapacity THEN a ELSE a - RingCapacity
        <5> HIDE DEF a
        <5> QED BY <2>0, <4>4, Wraps
      <4> QED BY <2>0, <2>2, <4>2, <4>3, <4>5 DEF Slots
    <3> QED BY <2>0, <2>2, <3>1, <3>2, <3>3 DEF PeekOldest, PeekNewest
  <2> QED BY <2>1, <2>2 DEF QueriesAgree
<1> QED BY RingInvariance, <1>1, PTL

\* RingBuffer implements the evicting queue, whatever its capacity: push, advance,
\* flush and clear do to peekAll what the queue's operations do.
THEOREM Implementation == RingSpec => ImplementsEvictingQueue
<1>1. RingInit => Queue!Init
  <2>1. ASSUME RingInit PROVE PeekAll = << >>
    BY <2>1 DEF RingInit, PeekAll
  <2> QED BY <2>1 DEF Queue!Init
<1>2. RingIInv /\ [RingNext]_ringVars => [Queue!Next]_PeekAll
  BY NextStep
<1> QED BY RingInvariance, <1>1, <1>2, PTL DEF RingSpec, ImplementsEvictingQueue, Queue!Spec

-----------------------------------------------------------------------------
(* The journal writer.                                                     *)

\* All slices up to this one have left the buffer.
Behind == pushed - Len(queue)

Appending == \E c \in Callers : pc[c] = "appending"
Truncating == \E c \in Callers : pc[c] = "truncating"

\* The buffer holds the slices Behind + 1 .. pushed, in order.
QueueInv ==
  /\ Len(queue) <= pushed
  /\ \A i \in 1 .. Len(queue) : queue[i] = Behind + i

\* The batch in flight is a run of slices that was the whole buffer when it was
\* read; evictions since then can only have moved the buffer past its start.
BatchInv ==
  Appending =>
    /\ 0 < Len(batch) /\ Len(batch) <= Len(queue)
    /\ \A i \in 1 .. Len(batch) : batch[i] = batch[1] + i - 1
    /\ batch[1] - 1 <= Behind
    /\ evictions = 0 => batch[1] - 1 = Behind

\* Nothing erased is ahead: neither in the buffer, nor in the batch, nor in
\* the file.
EraseInv ==
  /\ erased <= Behind
  /\ Truncating => cleared <= Behind
  /\ Appending => erased <= batch[1] - 1
  /\ \A s \in Readable : s > erased

\* The last line of a file without its final newline is still owed by the
\* buffer, or was discarded.
OpenLineInv ==
  openLine =>
    /\ file # << >>
    /\ evictions = 0 /\ glued = 0 =>
         \/ file[Len(file)] = Torn
         \/ file[Len(file)] > Behind
         \/ file[Len(file)] \in forgotten

\* Only slices that were pushed are in the file.
FileBehindPushed == \A s \in Readable : s <= pushed

AccountInv ==
  evictions = 0 /\ glued = 0 => 1 .. Behind \subseteq Readable \union forgotten

OrderInv ==
  failures = 0 =>
    /\ ~openLine
    /\ file \in Seq(Nat)
    /\ \A i \in 1 .. Len(file) : file[i] <= Behind
    /\ Appending => \A i \in 1 .. Len(file) : file[i] < batch[1]
    /\ WrittenOnceInOrder

IInv ==
  /\ TypeOK
  /\ FileOperationsExclusive
  /\ QueueInv
  /\ BatchInv
  /\ EraseInv
  /\ OpenLineInv
  /\ FileBehindPushed
  /\ AccountInv
  /\ OrderInv
-----------------------------------------------------------------------------
(* What the operators on the buffer and the file return.                   *)

LEMMA PushedLemma ==
  ASSUME NEW q \in Seq(Nat), NEW x \in Nat, Len(q) <= Capacity
  PROVE  LET p == Buffer!Pushed(q, x)
             full == Len(q) = Capacity
         IN  /\ p \in Seq(Nat)
             /\ Len(p) = IF full THEN Capacity ELSE Len(q) + 1
             /\ p[Len(p)] = x
             /\ \A i \in 1 .. Len(p) - 1 : p[i] = q[IF full THEN i + 1 ELSE i]
<1> USE CapacityAssumption
<1>1. CASE Len(q) = Capacity
  <2>1. Buffer!Pushed(q, x) = Append(Tail(q), x)
    BY <1>1 DEF Buffer!Pushed
  <2>2. Tail(q) \in Seq(Nat) /\ Len(Tail(q)) = Len(q) - 1
        /\ \A i \in 1 .. Len(q) - 1 : Tail(q)[i] = q[i + 1]
    BY <1>1
  <2>. QED  BY <1>1, <2>1, <2>2
<1>2. CASE Len(q) # Capacity
  <2>1. Buffer!Pushed(q, x) = Append(q, x)
    BY <1>2 DEF Buffer!Pushed
  <2>. QED  BY <1>2, <2>1
<1>. QED  BY <1>1, <1>2

LEMMA AdvanceLemma ==
  ASSUME NEW q \in Seq(Nat), NEW n \in Nat, n <= Len(q)
  PROVE  LET a == Buffer!AdvanceBy(q, n)
         IN  /\ a \in Seq(Nat)
             /\ Len(a) = Len(q) - n
             /\ \A i \in 1 .. Len(a) : a[i] = q[n + i]
<1>1. CASE n >= Len(q)
  BY <1>1 DEF Buffer!AdvanceBy
<1>2. CASE n < Len(q)
  <2>1. Buffer!AdvanceBy(q, n) = SubSeq(q, n + 1, Len(q))
    BY <1>2 DEF Buffer!AdvanceBy
  <2>. QED  BY <1>2, <2>1
<1>. QED  BY <1>1, <1>2

LEMMA EvictedLemma ==
  ASSUME NEW q \in Seq(Nat)
  PROVE  Cardinality(Buffer!EvictedBy(q)) = IF Len(q) = Capacity THEN 1 ELSE 0
BY FS_EmptySet, FS_Singleton DEF Buffer!EvictedBy

\* What an append does to the lines: the ones before the last stay, the last
\* one stays or is torn, the new ones follow.
LEMMA AppendedLemma ==
  ASSUME NEW b \in Seq(Nat \union {Torn}), b # << >>,
         file \in Seq(Nat \union {Torn}), openLine \in BOOLEAN,
         openLine => file # << >>
  PROVE  /\ Appended(b) \in Seq(Nat \union {Torn})
         /\ Len(Appended(b)) = IF openLine THEN Len(file) + Len(b) - 1 ELSE Len(file) + Len(b)
         /\ ~openLine =>
              /\ \A i \in 1 .. Len(file) : Appended(b)[i] = file[i]
              /\ \A i \in 1 .. Len(b) : Appended(b)[Len(file) + i] = b[i]
         /\ openLine =>
              /\ \A i \in 1 .. Len(file) - 1 : Appended(b)[i] = file[i]
              /\ Appended(b)[Len(file)] = Torn
              /\ \A i \in 2 .. Len(b) : Appended(b)[Len(file) + i - 1] = b[i]
<1>1. CASE ~openLine
  <2>1. Appended(b) = file \o b
    BY <1>1 DEF Appended
  <2>. QED  BY <1>1, <2>1
<1>2. CASE openLine
  <2>. DEFINE f == [file EXCEPT ![Len(file)] = Torn]
              t == Tail(b)
  <2>1. Appended(b) = f \o t
    BY <1>2 DEF Appended
  <2>2. /\ f \in Seq(Nat \union {Torn}) /\ Len(f) = Len(file)
        /\ \A i \in 1 .. Len(file) - 1 : f[i] = file[i]
        /\ f[Len(file)] = Torn
    BY <1>2
  <2>3. t \in Seq(Nat \union {Torn}) /\ Len(t) = Len(b) - 1
        /\ \A i \in 1 .. Len(b) - 1 : t[i] = b[i + 1]
    <3>1. Len(b) > 0
      OBVIOUS
    <3>. QED  BY <3>1
  <2>. HIDE DEF f, t
  <2>4. /\ f \o t \in Seq(Nat \union {Torn})
        /\ Len(f \o t) = Len(f) + Len(t)
        /\ \A i \in 1 .. Len(f) : (f \o t)[i] = f[i]
        /\ \A i \in 1 .. Len(t) : (f \o t)[Len(f) + i] = t[i]
    <3>1. f \in Seq(Nat \union {Torn}) /\ t \in Seq(Nat \union {Torn})
      BY <2>2, <2>3
    <3>. QED  BY <3>1
  <2>5. ASSUME NEW i \in 2 .. Len(b)
        PROVE  (f \o t)[Len(file) + i - 1] = b[i]
    <3>1. i - 1 \in 1 .. Len(t) /\ Len(file) + i - 1 = Len(f) + (i - 1)
      BY <2>2, <2>3
    <3>2. (f \o t)[Len(f) + (i - 1)] = t[i - 1]
      BY <2>4, <3>1
    <3>. QED  BY <2>3, <3>1, <3>2
  <2>6. Len(file) \in 1 .. Len(f)
    BY <1>2, <2>2
  <2>7. ASSUME NEW i \in 1 .. Len(file) - 1
        PROVE  (f \o t)[i] = file[i]
    <3>1. i \in 1 .. Len(f)
      BY <2>6, LenProperties
    <3>. QED  BY <2>2, <2>4, <3>1
  <2>8. (f \o t)[Len(file)] = Torn
    <3>1. \A i \in 1 .. Len(f) : (f \o t)[i] = f[i]
      BY <2>4
    <3>2. (f \o t)[Len(file)] = f[Len(file)]
      BY <2>6, <3>1
    <3>. QED  BY <2>2, <3>2
  <2>9. Len(f \o t) = Len(file) + Len(b) - 1
    BY <2>2, <2>3, <2>4
  <2>. QED  BY <1>2, <2>1, <2>4, <2>5, <2>7, <2>8, <2>9
<1>. QED  BY <1>1, <1>2
-----------------------------------------------------------------------------
(* IInv is inductive, one lemma per action.                                *)

USE CapacityAssumption, BoundsAssumption, NoOneAssumption, TornAssumption

LEMMA InitEstablishesIInv == Init => IInv
<1>. SUFFICES ASSUME Init PROVE IInv
  OBVIOUS
<1>. USE DEF Init
<1>1. TypeOK
  <2>1. << >> \in Seq(Nat) /\ << >> \in Seq(Nat \union {Torn}) /\ Len(<< >>) = 0
    OBVIOUS
  <2>2. pc \in [Callers -> Waiting \union Holding \union {"idle"}]
    OBVIOUS
  <2>3. 0 \in 0 .. MaxPushed /\ 0 \in 0 .. MaxFailures /\ 0 <= Capacity
    OBVIOUS
  <2>. QED  BY <2>1, <2>2, <2>3 DEF TypeOK
<1>2. FileOperationsExclusive
  BY DEF FileOperationsExclusive, Holding
<1>3. QueueInv /\ BatchInv
  BY DEF QueueInv, BatchInv, Behind, Appending
<1>4. Readable = {}
  BY DEF Readable, RangeOf
<1>5. EraseInv /\ OpenLineInv /\ FileBehindPushed /\ AccountInv
  BY <1>4 DEF EraseInv, OpenLineInv, FileBehindPushed, AccountInv, Behind, Appending, Truncating
<1>6. OrderInv
  BY DEF OrderInv, Behind, Appending, WrittenOnceInOrder
<1>. QED  BY <1>1, <1>2, <1>3, <1>5, <1>6 DEF IInv

\* A push lets Behind grow by one exactly when it evicts.
LEMMA PushPreservesIInv == IInv /\ PushSlice => IInv'
<1>. SUFFICES ASSUME IInv, PushSlice PROVE IInv'
  OBVIOUS
<1>. DEFINE full == Len(queue) = Capacity
<1>1. /\ queue \in Seq(Nat) /\ Len(queue) <= Capacity /\ Len(queue) \in Nat
      /\ pushed \in Nat /\ pushed' = pushed + 1 /\ pushed' <= MaxPushed
      /\ UNCHANGED <<journal, lock, failures>>
  BY DEF IInv, TypeOK, PushSlice
<1>2. /\ queue' \in Seq(Nat)
      /\ Len(queue') = IF full THEN Capacity ELSE Len(queue) + 1
      /\ queue'[Len(queue')] = pushed + 1
      /\ \A i \in 1 .. Len(queue') - 1 : queue'[i] = queue[IF full THEN i + 1 ELSE i]
  BY <1>1, PushedLemma DEF PushSlice
<1>3. /\ evictions \in Nat
      /\ evictions' = IF full THEN evictions + 1 ELSE evictions
  BY <1>1, EvictedLemma DEF PushSlice, IInv, TypeOK
<1>4. Behind' = IF full THEN Behind + 1 ELSE Behind
  BY <1>1, <1>2 DEF Behind
<1>5. Behind \in Nat
  BY <1>1 DEF IInv, QueueInv, Behind
<1>6. TypeOK'
  BY <1>1, <1>2, <1>3 DEF IInv, TypeOK, journal, lock
<1>7. FileOperationsExclusive'
  BY <1>1 DEF IInv, FileOperationsExclusive, lock
<1>8. QueueInv'
  <2>1. Len(queue') <= pushed'
    BY <1>1, <1>2 DEF IInv, QueueInv
  <2>2. ASSUME NEW i \in 1 .. Len(queue')
        PROVE  queue'[i] = Behind' + i
    <3>1. CASE i = Len(queue')
      BY <3>1, <1>1, <1>2 DEF Behind
    <3>2. CASE i # Len(queue')
      <4>1. i \in 1 .. Len(queue') - 1
        BY <3>2, <1>1, <1>2
      <4>2. CASE full
        <5>1. i + 1 \in 1 .. Len(queue)
          BY <4>1, <4>2, <1>1, <1>2
        <5>. QED  BY <4>1, <4>2, <5>1, <1>2, <1>4, <1>5 DEF IInv, QueueInv
      <4>3. CASE ~full
        <5>1. i \in 1 .. Len(queue)
          BY <4>1, <4>3, <1>1, <1>2
        <5>. QED  BY <4>1, <4>3, <5>1, <1>2, <1>4, <1>5 DEF IInv, QueueInv
      <4>. QED  BY <4>2, <4>3
    <3>. QED  BY <3>1, <3>2
  <2>. QED  BY <2>1, <2>2 DEF QueueInv
<1>9. BatchInv'
  <2>1. Appending' = Appending /\ batch' = batch
    BY <1>1 DEF Appending, lock
  <2>2. batch \in Seq(Nat) /\ Len(batch) \in Nat
    BY DEF IInv, TypeOK
  <2>3. ASSUME Appending
        PROVE  batch[1] \in Nat
    BY <2>2, <2>3 DEF IInv, BatchInv
  <2>4. SUFFICES ASSUME Appending PROVE BatchInv'
    BY <2>1 DEF BatchInv
  <2>5. /\ 0 < Len(batch) /\ Len(batch) <= Len(queue)
        /\ \A i \in 1 .. Len(batch) : batch[i] = batch[1] + i - 1
        /\ batch[1] - 1 <= Behind
        /\ evictions = 0 => batch[1] - 1 = Behind
    BY <2>4 DEF IInv, BatchInv
  <2>6. Len(batch) <= Len(queue')
    BY <2>5, <2>2, <1>1, <1>2
  <2>7. batch[1] - 1 <= Behind'
    BY <2>3, <2>4, <2>5, <1>4, <1>5
  <2>8. evictions' = 0 => batch[1] - 1 = Behind'
    BY <2>5, <1>3, <1>4
  <2>. QED  BY <2>1, <2>5, <2>6, <2>7, <2>8 DEF BatchInv
<1>10. EraseInv'
  <2>1. /\ Appending' = Appending /\ Truncating' = Truncating /\ batch' = batch
        /\ erased' = erased /\ cleared' = cleared /\ Readable' = Readable
    BY <1>1 DEF Appending, Truncating, lock, journal, Readable, RangeOf
  <2>2. erased \in Nat /\ cleared \in Nat
    BY DEF IInv, TypeOK
  <2>. QED  BY <1>4, <1>5, <2>1, <2>2 DEF IInv, EraseInv
<1>11. OpenLineInv' /\ FileBehindPushed' /\ AccountInv'
  <2>0. \A s \in Readable : s \in Nat
    BY DEF IInv, TypeOK, Readable, RangeOf
  <2>1. /\ file' = file /\ openLine' = openLine /\ glued' = glued
        /\ forgotten' = forgotten /\ Readable' = Readable
    BY <1>1 DEF journal, Readable, RangeOf
  <2>2. evictions' = 0 => evictions = 0 /\ Behind' = Behind
    BY <1>3, <1>4
  <2>. QED  BY <1>1, <2>0, <2>1, <2>2 DEF IInv, OpenLineInv, FileBehindPushed, AccountInv
<1>12. OrderInv'
  <2>1. /\ Appending' = Appending /\ batch' = batch
        /\ file' = file /\ openLine' = openLine /\ failures' = failures
    BY <1>1 DEF Appending, lock, journal
  <2>2. ASSUME failures = 0, NEW i \in 1 .. Len(file)
        PROVE  file[i] <= Behind'
    <3>1. file[i] \in Nat /\ file[i] <= Behind
      BY <2>2 DEF IInv, OrderInv
    <3>. QED  BY <3>1, <1>4, <1>5
  <2>. QED  BY <2>1, <2>2 DEF IInv, OrderInv, WrittenOnceInOrder
<1>. QED  BY <1>6, <1>7, <1>8, <1>9, <1>10, <1>11, <1>12 DEF IInv

-----------------------------------------------------------------------------
(* The mutex.                                                              *)

LockTypeOK ==
  /\ mutex \in Callers \union {NoOne}
  /\ pc \in [Callers -> Waiting \union Holding \union {"idle"}]

\* Whoever holds the mutex is alone in a file operation; nobody is in one when
\* the mutex is free.
LEMMA FreeLemma ==
  ASSUME IInv, mutex = NoOne
  PROVE  ~Appending /\ ~Truncating
BY DEF IInv, FileOperationsExclusive, Appending, Truncating, Holding

LEMMA HolderLemma ==
  ASSUME IInv, NEW c \in Callers, pc[c] \in Holding
  PROVE  /\ Appending <=> pc[c] = "appending"
         /\ Truncating <=> pc[c] = "truncating"
BY DEF IInv, FileOperationsExclusive, Appending, Truncating, Holding

LEMMA AcquireLemma ==
  ASSUME IInv, NEW c \in Callers, mutex = NoOne,
         NEW label \in Holding, Goto(c, label), mutex' = c
  PROVE  /\ LockTypeOK'
         /\ FileOperationsExclusive'
         /\ Appending' <=> label = "appending"
         /\ Truncating' <=> label = "truncating"
<1>1. pc \in [Callers -> Waiting \union Holding \union {"idle"}]
  BY DEF IInv, TypeOK
<1>2. \A d \in Callers : pc'[d] = IF d = c THEN label ELSE pc[d]
  BY <1>1 DEF Goto
<1>3. \A d \in Callers : pc[d] \notin Holding
  BY DEF IInv, FileOperationsExclusive
<1>4. LockTypeOK'
  BY <1>1 DEF LockTypeOK, Goto
<1>5. FileOperationsExclusive'
  BY <1>2, <1>3 DEF FileOperationsExclusive
<1>6. Appending' <=> label = "appending"
  BY <1>2, <1>3 DEF Appending, Holding
<1>7. Truncating' <=> label = "truncating"
  BY <1>2, <1>3 DEF Truncating, Holding
<1>. QED  BY <1>4, <1>5, <1>6, <1>7

LEMMA ReleaseLemma ==
  ASSUME IInv, NEW c \in Callers, pc[c] \in Holding, Release(c)
  PROVE  LockTypeOK' /\ FileOperationsExclusive' /\ ~Appending' /\ ~Truncating'
<1>1. pc \in [Callers -> Waiting \union Holding \union {"idle"}]
  BY DEF IInv, TypeOK
<1>2. \A d \in Callers : pc'[d] = IF d = c THEN "idle" ELSE pc[d]
  BY <1>1 DEF Release, Goto
<1>3. \A d \in Callers : d # c => pc[d] \notin Holding
  BY DEF IInv, FileOperationsExclusive
<1>4. \A d \in Callers : pc'[d] \notin Holding
  BY <1>2, <1>3 DEF Holding
<1>5. LockTypeOK'
  BY <1>1 DEF LockTypeOK, Release, Goto
<1>6. FileOperationsExclusive'
  BY <1>4 DEF FileOperationsExclusive, Release
<1>. QED  BY <1>4, <1>5, <1>6 DEF Appending, Truncating, Holding

\* A call that starts to wait, or returns without a file operation.
LEMMA QuietLemma ==
  ASSUME IInv, NEW c \in Callers, pc[c] \notin Holding,
         NEW label \in Waiting \union {"idle"}, Goto(c, label), UNCHANGED mutex
  PROVE  /\ LockTypeOK'
         /\ FileOperationsExclusive'
         /\ Appending' <=> Appending
         /\ Truncating' <=> Truncating
<1>1. pc \in [Callers -> Waiting \union Holding \union {"idle"}]
  BY DEF IInv, TypeOK
<1>2. label \notin Holding
  BY DEF Waiting, Holding
<1>3. \A d \in Callers : pc'[d] = IF d = c THEN label ELSE pc[d]
  BY <1>1 DEF Goto
<1>4. LockTypeOK'
  <2>1. mutex \in Callers \union {NoOne}
    BY DEF IInv, TypeOK
  <2>. QED  BY <1>1, <2>1 DEF LockTypeOK, Goto
<1>5. FileOperationsExclusive'
  BY <1>2, <1>3 DEF IInv, FileOperationsExclusive
<1>6. (Appending' <=> Appending) /\ (Truncating' <=> Truncating)
  BY <1>2, <1>3 DEF Appending, Truncating, Holding
<1>. QED  BY <1>4, <1>5, <1>6

\* Steps that only move a call along.
LEMMA FrameLemma ==
  ASSUME IInv, LockTypeOK', FileOperationsExclusive',
         Appending' => Appending, Truncating' => Truncating,
         UNCHANGED <<memory, journal, batch, cleared, failures>>
  PROVE  IInv'
<1>1. /\ queue' = queue /\ pushed' = pushed /\ evictions' = evictions
      /\ file' = file /\ openLine' = openLine /\ glued' = glued
      /\ forgotten' = forgotten /\ erased' = erased
      /\ batch' = batch /\ cleared' = cleared /\ failures' = failures
  BY DEF memory, journal
<1>2. TypeOK'
  BY <1>1 DEF IInv, TypeOK, LockTypeOK
<1>3. Behind' = Behind /\ Readable' = Readable
  BY <1>1 DEF Behind, Readable, RangeOf
<1>4. QueueInv' /\ BatchInv'
  BY <1>1, <1>3 DEF IInv, QueueInv, BatchInv
<1>5. EraseInv' /\ OpenLineInv' /\ FileBehindPushed' /\ AccountInv'
  BY <1>1, <1>3 DEF IInv, EraseInv, OpenLineInv, FileBehindPushed, AccountInv
<1>6. OrderInv'
  BY <1>1, <1>3 DEF IInv, OrderInv, WrittenOnceInOrder
<1>. QED  BY <1>2, <1>4, <1>5, <1>6 DEF IInv

-----------------------------------------------------------------------------
(* Calls taking the mutex.                                                 *)

LEMMA BeginFlushPreservesIInv ==
  ASSUME IInv, NEW c \in Callers, pc[c] \notin Holding, mutex = NoOne, BeginFlush(c)
  PROVE  IInv'
<1>1. UNCHANGED <<memory, journal, cleared, failures>>
  BY DEF BeginFlush
<1>2. CASE queue = << >>
  <2>1. Goto(c, "idle") /\ UNCHANGED mutex /\ UNCHANGED batch
    BY <1>2 DEF BeginFlush
  <2>2. /\ LockTypeOK' /\ FileOperationsExclusive'
        /\ Appending' <=> Appending
        /\ Truncating' <=> Truncating
    BY <2>1, QuietLemma
  <2>. QED  BY <1>1, <2>1, <2>2, FrameLemma
<1>3. CASE queue # << >>
  <2>1. Goto(c, "appending") /\ mutex' = c /\ batch' = queue
    BY <1>3 DEF BeginFlush
  <2>2. LockTypeOK' /\ FileOperationsExclusive' /\ Appending' /\ ~Truncating'
    BY <2>1, AcquireLemma DEF Holding
  <2>3. /\ queue' = queue /\ pushed' = pushed /\ evictions' = evictions
        /\ file' = file /\ openLine' = openLine /\ glued' = glued
        /\ forgotten' = forgotten /\ erased' = erased
        /\ cleared' = cleared /\ failures' = failures
    BY <1>1 DEF memory, journal
  <2>4. /\ queue \in Seq(Nat) /\ Len(queue) \in Nat /\ pushed \in Nat /\ Len(queue) > 0
        /\ \A i \in 1 .. Len(queue) : queue[i] = Behind + i
        /\ Behind \in Nat
    <3>1. queue \in Seq(Nat) /\ pushed \in Nat
      BY DEF IInv, TypeOK
    <3>2. Len(queue) \in Nat /\ Len(queue) > 0
      BY <3>1, <1>3, EmptySeq
    <3>. QED  BY <3>1, <3>2 DEF IInv, QueueInv, Behind
  <2>5. TypeOK'
    BY <2>1, <2>2, <2>3, <2>4 DEF IInv, TypeOK, LockTypeOK
  <2>6. Behind' = Behind /\ Readable' = Readable
    BY <2>3 DEF Behind, Readable, RangeOf
  <2>7. batch'[1] = Behind + 1
    BY <2>1, <2>4
  <2>8. QueueInv' /\ BatchInv'
    BY <2>1, <2>3, <2>4, <2>6, <2>7 DEF IInv, QueueInv, BatchInv
  <2>9. EraseInv'
    BY <2>2, <2>3, <2>4, <2>6, <2>7 DEF IInv, EraseInv
  <2>10. OpenLineInv' /\ FileBehindPushed' /\ AccountInv'
    BY <2>3, <2>6 DEF IInv, OpenLineInv, FileBehindPushed, AccountInv
  <2>11. OrderInv'
    <3>1. ASSUME failures = 0, NEW i \in 1 .. Len(file)
          PROVE  file[i] < batch'[1]
      <4>1. file[i] <= Behind /\ file[i] \in Nat
        BY <3>1 DEF IInv, OrderInv
      <4>. QED  BY <4>1, <2>4, <2>7
    <3>. QED  BY <2>3, <2>6, <3>1 DEF IInv, OrderInv, WrittenOnceInOrder
  <2>. QED  BY <2>2, <2>5, <2>8, <2>9, <2>10, <2>11 DEF IInv
<1>. QED  BY <1>2, <1>3

LEMMA BeginTruncatePreservesIInv ==
  ASSUME IInv, NEW c \in Callers, mutex = NoOne, BeginTruncate(c)
  PROVE  IInv'
<1>1. /\ Goto(c, "truncating") /\ mutex' = c
      /\ cleared' = pushed /\ queue' = << >>
      /\ forgotten' = forgotten \union RangeOf(queue)
      /\ pushed' = pushed /\ evictions' = evictions /\ batch' = batch
      /\ file' = file /\ openLine' = openLine /\ glued' = glued
      /\ erased' = erased /\ failures' = failures
  BY DEF BeginTruncate
<1>2. LockTypeOK' /\ FileOperationsExclusive' /\ ~Appending' /\ Truncating'
  BY <1>1, AcquireLemma DEF Holding
<1>3. /\ queue \in Seq(Nat) /\ Len(queue) \in Nat /\ pushed \in Nat /\ Behind \in Nat
      /\ \A i \in 1 .. Len(queue) : queue[i] = Behind + i
      /\ pushed = Behind + Len(queue)
  BY DEF IInv, TypeOK, QueueInv, Behind
<1>4. Len(queue') = 0 /\ Behind' = pushed
  BY <1>1, <1>3 DEF Behind
<1>5. RangeOf(queue) = (Behind + 1) .. pushed
  <2>1. RangeOf(queue) \subseteq (Behind + 1) .. pushed
    BY <1>3 DEF RangeOf
  <2>2. ASSUME NEW s \in (Behind + 1) .. pushed
        PROVE  s \in RangeOf(queue)
    <3>1. s - Behind \in 1 .. Len(queue) /\ queue[s - Behind] = s
      BY <1>3
    <3>. QED  BY <3>1 DEF RangeOf
  <2>. QED  BY <2>1, <2>2
<1>6. TypeOK'
  <2>1. forgotten' \subseteq Nat
    <3>1. RangeOf(queue) \subseteq Nat
      BY <1>3, <1>5
    <3>2. forgotten \subseteq Nat
      BY DEF IInv, TypeOK
    <3>. QED  BY <1>1, <3>1, <3>2
  <2>2. queue' \in Seq(Nat) /\ Len(queue') <= Capacity
    BY <1>1, <1>4
  <2>. QED  BY <1>1, <1>2, <2>1, <2>2 DEF IInv, TypeOK, LockTypeOK
<1>7. Readable' = Readable
  BY <1>1 DEF Readable, RangeOf
<1>8. QueueInv' /\ BatchInv' /\ FileBehindPushed'
  BY <1>1, <1>2, <1>3, <1>4, <1>7 DEF IInv, QueueInv, BatchInv, FileBehindPushed
<1>9. EraseInv'
  <2>1. erased \in Nat /\ erased <= Behind
    BY DEF IInv, EraseInv, TypeOK
  <2>2. erased <= pushed
    BY <2>1, <1>3
  <2>3. ~Appending' /\ \A s \in Readable' : s > erased'
    BY <1>1, <1>2, <1>7 DEF IInv, EraseInv
  <2>4. cleared' <= Behind' /\ erased' <= Behind'
    BY <1>1, <1>3, <1>4, <2>2
  <2>. QED  BY <2>3, <2>4 DEF EraseInv
<1>10. OpenLineInv'
  <2>1. ASSUME openLine, file # << >>, file[Len(file)] # Torn, file[Len(file)] > Behind
        PROVE  file[Len(file)] \in forgotten'
    <3>1. file[Len(file)] \in Readable
      <4>1. Len(file) \in 1 .. Len(file)
        BY <2>1, EmptySeq DEF IInv, TypeOK
      <4>. QED  BY <2>1, <4>1 DEF Readable, RangeOf
    <3>2. file[Len(file)] \in Nat
      BY <3>1 DEF Readable, RangeOf, IInv, TypeOK
    <3>3. file[Len(file)] <= pushed
      BY <3>1 DEF IInv, FileBehindPushed
    <3>. QED  BY <1>1, <1>3, <1>5, <2>1, <3>2, <3>3
  <2>. QED  BY <1>1, <2>1 DEF IInv, OpenLineInv
<1>11. AccountInv'
  <2>1. ASSUME evictions = 0, glued = 0, NEW s \in 1 .. pushed
        PROVE  s \in Readable \union forgotten'
    <3>1. CASE s <= Behind
      BY <2>1, <3>1, <1>1, <1>3 DEF IInv, AccountInv
    <3>2. CASE s > Behind
      BY <2>1, <3>2, <1>1, <1>3, <1>5
    <3>. QED  BY <3>1, <3>2, <1>3
  <2>. QED  BY <1>1, <1>4, <1>7, <2>1 DEF AccountInv
<1>12. OrderInv'
  <2>1. ASSUME failures = 0, NEW i \in 1 .. Len(file)
        PROVE  file[i] <= Behind'
    <3>1. file[i] <= Behind /\ file[i] \in Nat
      BY <2>1 DEF IInv, OrderInv
    <3>. QED  BY <3>1, <1>3, <1>4
  <2>. QED  BY <1>1, <1>2, <2>1 DEF IInv, OrderInv, WrittenOnceInOrder
<1>. QED  BY <1>2, <1>6, <1>8, <1>9, <1>10, <1>11, <1>12 DEF IInv

LEMMA BeginPreservesIInv ==
  ASSUME IInv, NEW c \in Callers, pc[c] \notin Holding, mutex = NoOne,
         NEW label \in Waiting, Begin(c, label)
  PROVE  IInv'
BY BeginFlushPreservesIInv, BeginTruncatePreservesIInv DEF Begin

LEMMA CallPreservesIInv ==
  ASSUME IInv, NEW c \in Callers, NEW label \in Waiting, Call(c, label)
  PROVE  IInv'
<1>1. pc[c] \notin Holding
  BY DEF Call, Holding
<1>2. CASE mutex = NoOne
  BY <1>1, <1>2, BeginPreservesIInv DEF Call
<1>3. CASE mutex # NoOne
  <2>1. Goto(c, label) /\ UNCHANGED <<memory, journal, failures, mutex, batch, cleared>>
    BY <1>3 DEF Call
  <2>2. /\ LockTypeOK' /\ FileOperationsExclusive'
        /\ Appending' <=> Appending
        /\ Truncating' <=> Truncating
    BY <1>1, <2>1, QuietLemma
  <2>. QED  BY <2>1, <2>2, FrameLemma
<1>. QED  BY <1>2, <1>3

LEMMA ResumePreservesIInv ==
  ASSUME IInv, NEW c \in Callers, Resume(c)
  PROVE  IInv'
<1>1. pc[c] \notin Holding
  BY DEF Resume, Waiting, Holding
<1>. QED  BY <1>1, BeginPreservesIInv DEF Resume

-----------------------------------------------------------------------------
(* File operations.                                                        *)

LEMMA TruncateSucceedsPreservesIInv ==
  ASSUME IInv, NEW c \in Callers, TruncateSucceeds(c)
  PROVE  IInv'
<1>1. /\ pc[c] \in Holding /\ Release(c) /\ Truncating
      /\ queue' = queue /\ pushed' = pushed /\ evictions' = evictions
      /\ file' = << >> /\ openLine' = FALSE /\ glued' = glued
      /\ forgotten' = forgotten \union Readable
      /\ erased' = cleared /\ failures' = failures
      /\ batch' = batch /\ cleared' = cleared
  BY DEF TruncateSucceeds, Emptied, memory, Holding, Truncating
<1>2. LockTypeOK' /\ FileOperationsExclusive' /\ ~Appending' /\ ~Truncating'
  BY <1>1, ReleaseLemma
<1>3. Behind' = Behind /\ Readable' = {} /\ Len(file') = 0
  BY <1>1 DEF Behind, Readable, RangeOf
<1>4. TypeOK'
  <2>1. Readable \subseteq Nat
    BY DEF IInv, TypeOK, Readable, RangeOf
  <2>2. forgotten' \subseteq Nat /\ erased' \in Nat
    BY <1>1, <2>1 DEF IInv, TypeOK
  <2>3. file' \in Seq(Nat \union {Torn})
    BY <1>1
  <2>. QED  BY <1>1, <1>2, <2>2, <2>3 DEF IInv, TypeOK, LockTypeOK
<1>5. QueueInv' /\ BatchInv' /\ FileBehindPushed' /\ OpenLineInv'
  BY <1>1, <1>2, <1>3 DEF IInv, QueueInv, BatchInv, FileBehindPushed, OpenLineInv
<1>6. EraseInv'
  BY <1>1, <1>2, <1>3 DEF IInv, EraseInv
<1>7. AccountInv'
  BY <1>1, <1>3 DEF IInv, AccountInv
<1>8. OrderInv'
  <2>1. file' \in Seq(Nat)
    BY <1>1
  <2>. QED  BY <1>1, <1>2, <1>3, <2>1 DEF OrderInv, WrittenOnceInOrder
<1>. QED  BY <1>2, <1>4, <1>5, <1>6, <1>7, <1>8 DEF IInv

LEMMA TruncateFailsPreservesIInv ==
  ASSUME IInv, NEW c \in Callers, TruncateFails(c)
  PROVE  IInv'
<1>1. /\ pc[c] \in Holding /\ Release(c)
      /\ queue' = queue /\ pushed' = pushed /\ evictions' = evictions
      /\ glued' = glued /\ erased' = erased
      /\ batch' = batch /\ cleared' = cleared
      /\ failures' = failures + 1 /\ failures < MaxFailures
  BY DEF TruncateFails, memory, Holding
<1>2. LockTypeOK' /\ FileOperationsExclusive' /\ ~Appending' /\ ~Truncating'
  BY <1>1, ReleaseLemma
<1>3. Behind' = Behind /\ failures' # 0 /\ failures' \in 0 .. MaxFailures
  BY <1>1 DEF Behind, IInv, TypeOK
<1>4. QueueInv' /\ BatchInv' /\ OrderInv'
  BY <1>1, <1>2, <1>3 DEF IInv, QueueInv, BatchInv, OrderInv
<1>5. CASE Emptied
  <2>1. /\ file' = << >> /\ openLine' = FALSE
        /\ forgotten' = forgotten \union Readable
    BY <1>5 DEF Emptied
  <2>2. Readable' = {} /\ Readable \subseteq Nat
    BY <2>1 DEF IInv, TypeOK, Readable, RangeOf
  <2>3. TypeOK'
    <3>1. forgotten' \subseteq Nat /\ file' \in Seq(Nat \union {Torn})
      BY <2>1, <2>2 DEF IInv, TypeOK
    <3>. QED  BY <1>1, <1>2, <1>3, <2>1, <3>1 DEF IInv, TypeOK, LockTypeOK
  <2>. QED  BY <1>1, <1>2, <1>3, <1>4, <2>1, <2>2, <2>3
            DEF IInv, EraseInv, OpenLineInv, FileBehindPushed, AccountInv
<1>6. CASE UNCHANGED <<file, openLine, forgotten>>
  <2>1. Readable' = Readable
    BY <1>6 DEF Readable, RangeOf
  <2>2. TypeOK'
    BY <1>1, <1>2, <1>3, <1>6 DEF IInv, TypeOK, LockTypeOK
  <2>3. EraseInv' /\ FileBehindPushed'
    BY <1>1, <1>2, <1>3, <2>1 DEF IInv, EraseInv, FileBehindPushed
  <2>4. OpenLineInv' /\ AccountInv'
    BY <1>1, <1>3, <1>6, <2>1 DEF IInv, OpenLineInv, AccountInv
  <2>. QED  BY <1>2, <1>4, <2>2, <2>3, <2>4 DEF IInv
<1>. QED  BY <1>5, <1>6 DEF TruncateFails

\* The same, seen as sets of lines: only the last line of a file that has no
\* final newline can disappear.
LEMMA AppendedRangeLemma ==
  ASSUME NEW b \in Seq(Nat \union {Torn}), b # << >>,
         file \in Seq(Nat \union {Torn}), openLine \in BOOLEAN,
         openLine => file # << >>
  PROVE  /\ RangeOf(Appended(b)) \subseteq RangeOf(file) \union RangeOf(b) \union {Torn}
         /\ ~openLine => RangeOf(file) \union RangeOf(b) \subseteq RangeOf(Appended(b))
         /\ openLine => RangeOf(file) \subseteq RangeOf(Appended(b)) \union {file[Len(file)]}
<1>. DEFINE a == Appended(b)
<1>1. /\ a \in Seq(Nat \union {Torn})
      /\ Len(a) = IF openLine THEN Len(file) + Len(b) - 1 ELSE Len(file) + Len(b)
      /\ ~openLine =>
           /\ \A i \in 1 .. Len(file) : a[i] = file[i]
           /\ \A i \in 1 .. Len(b) : a[Len(file) + i] = b[i]
      /\ openLine =>
           /\ \A i \in 1 .. Len(file) - 1 : a[i] = file[i]
           /\ a[Len(file)] = Torn
           /\ \A i \in 2 .. Len(b) : a[Len(file) + i - 1] = b[i]
  BY AppendedLemma
<1>. HIDE DEF a
<1>2. Len(b) \in Nat /\ Len(b) > 0 /\ Len(file) \in Nat /\ (openLine => Len(file) > 0)
  BY EmptySeq
<1>3. ASSUME NEW i \in 1 .. Len(a)
      PROVE  a[i] \in RangeOf(file) \union RangeOf(b) \union {Torn}
  <2>1. CASE ~openLine
    <3>1. CASE i <= Len(file)
      BY <1>1, <1>2, <2>1, <3>1 DEF RangeOf
    <3>2. CASE i > Len(file)
      <4>1. i - Len(file) \in 1 .. Len(b) /\ i = Len(file) + (i - Len(file))
        BY <1>1, <1>2, <2>1, <3>2
      <4>2. a[i] = b[i - Len(file)]
        BY <1>1, <2>1, <4>1
      <4>. QED  BY <4>1, <4>2 DEF RangeOf
    <3>. QED  BY <3>1, <3>2, <1>2
  <2>2. CASE openLine
    <3>1. CASE i < Len(file)
      <4>1. i \in 1 .. Len(file) - 1 /\ i \in 1 .. Len(file)
        BY <1>2, <3>1
      <4>. QED  BY <1>1, <2>2, <4>1 DEF RangeOf
    <3>2. CASE i = Len(file)
      BY <1>1, <2>2, <3>2
    <3>3. CASE i > Len(file)
      <4>. DEFINE j == i - Len(file) + 1
      <4>1. j \in 2 .. Len(b) /\ i = Len(file) + j - 1
        BY <1>1, <1>2, <2>2, <3>3
      <4>2. a[i] = b[j]
        BY <1>1, <2>2, <4>1
      <4>3. j \in 1 .. Len(b)
        BY <4>1
      <4>. QED  BY <4>2, <4>3 DEF RangeOf
    <3>. QED  BY <3>1, <3>2, <3>3, <1>2
  <2>. QED  BY <2>1, <2>2
<1>4. ASSUME ~openLine
      PROVE  RangeOf(file) \union RangeOf(b) \subseteq RangeOf(a)
  <2>1. ASSUME NEW i \in 1 .. Len(file)
        PROVE  file[i] \in RangeOf(a)
    <3>1. i \in 1 .. Len(a) /\ a[i] = file[i]
      BY <1>1, <1>2, <1>4
    <3>. QED  BY <3>1 DEF RangeOf
  <2>2. ASSUME NEW i \in 1 .. Len(b)
        PROVE  b[i] \in RangeOf(a)
    <3>1. Len(file) + i \in 1 .. Len(a) /\ a[Len(file) + i] = b[i]
      BY <1>1, <1>2, <1>4
    <3>. QED  BY <3>1 DEF RangeOf
  <2>. QED  BY <2>1, <2>2 DEF RangeOf
<1>5. ASSUME openLine
      PROVE  RangeOf(file) \subseteq RangeOf(a) \union {file[Len(file)]}
  <2>1. ASSUME NEW i \in 1 .. Len(file), i # Len(file)
        PROVE  file[i] \in RangeOf(a)
    <3>1. i \in 1 .. Len(file) - 1 /\ i \in 1 .. Len(a)
      BY <1>1, <1>2, <1>5, <2>1
    <3>2. a[i] = file[i]
      BY <1>1, <1>5, <3>1
    <3>. QED  BY <3>1, <3>2 DEF RangeOf
  <2>. QED  BY <2>1 DEF RangeOf
<1>6. RangeOf(a) \subseteq RangeOf(file) \union RangeOf(b) \union {Torn}
  BY <1>3 DEF RangeOf
<1>. QED  BY <1>4, <1>5, <1>6 DEF a

\* The batch of the call that is appending.
LEMMA BatchLemma ==
  ASSUME IInv, Appending
  PROVE  /\ batch \in Seq(Nat) /\ batch \in Seq(Nat \union {Torn}) /\ batch # << >>
         /\ Len(batch) \in Nat /\ Len(batch) > 0 /\ Len(batch) <= Len(queue)
         /\ batch[1] \in Nat /\ batch[1] - 1 <= Behind
         /\ \A i \in 1 .. Len(batch) : batch[i] = batch[1] + i - 1
         /\ RangeOf(batch) \subseteq erased + 1 .. pushed
         /\ evictions = 0 => (Behind + 1) .. (Behind + Len(batch)) \subseteq RangeOf(batch)
<1>1. /\ batch \in Seq(Nat) /\ queue \in Seq(Nat) /\ Len(queue) \in Nat
      /\ pushed \in Nat /\ erased \in Nat
  BY DEF IInv, TypeOK
<1>2. /\ 0 < Len(batch) /\ Len(batch) <= Len(queue)
      /\ \A i \in 1 .. Len(batch) : batch[i] = batch[1] + i - 1
      /\ batch[1] - 1 <= Behind
      /\ evictions = 0 => batch[1] - 1 = Behind
  BY DEF IInv, BatchInv
<1>3. /\ batch[1] \in Nat /\ Len(batch) \in Nat
      /\ batch \in Seq(Nat \union {Torn}) /\ batch # << >>
  <2>1. Len(batch) \in Nat /\ \A i \in 1 .. Len(batch) : batch[i] \in Nat
    BY <1>1
  <2>2. batch # << >>
    BY <1>2
  <2>3. batch \in Seq(Nat \union {Torn})
    BY <1>1
  <2>. QED  BY <1>2, <2>1, <2>2, <2>3
<1>4. erased <= batch[1] - 1 /\ Behind + Len(queue) = pushed /\ Behind \in Nat
  BY <1>1 DEF IInv, EraseInv, QueueInv, Behind
<1>5. ASSUME NEW i \in 1 .. Len(batch)
      PROVE  batch[i] \in erased + 1 .. pushed
  <2>1. batch[i] = batch[1] + i - 1 /\ batch[1] + i - 1 \in Nat
    BY <1>2, <1>3
  <2>2. batch[1] + i - 1 <= pushed
    BY <1>1, <1>2, <1>3, <1>4
  <2>3. batch[1] + i - 1 >= erased + 1
    BY <1>1, <1>3, <1>4
  <2>. QED  BY <1>1, <2>1, <2>2, <2>3
<1>6. ASSUME evictions = 0, NEW s \in (Behind + 1) .. (Behind + Len(batch))
      PROVE  s \in RangeOf(batch)
  <2>1. s - Behind \in 1 .. Len(batch) /\ batch[1] = Behind + 1
    BY <1>2, <1>3, <1>4, <1>6
  <2>2. batch[s - Behind] = s
    BY <1>2, <1>3, <1>4, <2>1
  <2>. QED  BY <2>1, <2>2 DEF RangeOf
<1>. QED  BY <1>1, <1>2, <1>3, <1>5, <1>6 DEF RangeOf

LEMMA AppendSucceedsPreservesIInv ==
  ASSUME IInv, NEW c \in Callers, AppendSucceeds(c)
  PROVE  IInv'
<1>. DEFINE n == Len(batch)
<1>1. /\ pc[c] \in Holding /\ Release(c) /\ Appending
      /\ file' = Appended(batch) /\ openLine' = FALSE
      /\ glued' = IF openLine THEN glued + 1 ELSE glued
      /\ queue' = Buffer!AdvanceBy(queue, n)
      /\ pushed' = pushed /\ evictions' = evictions /\ failures' = failures
      /\ batch' = batch /\ cleared' = cleared
      /\ forgotten' = forgotten /\ erased' = erased
  BY DEF AppendSucceeds, AdvancedByBatch, Holding, Appending
<1>2. LockTypeOK' /\ FileOperationsExclusive' /\ ~Appending' /\ ~Truncating'
  BY <1>1, ReleaseLemma
<1>3. /\ queue \in Seq(Nat) /\ Len(queue) \in Nat /\ Len(queue) <= Capacity
      /\ pushed \in Nat /\ evictions \in Nat /\ glued \in Nat /\ erased \in Nat
      /\ file \in Seq(Nat \union {Torn}) /\ openLine \in BOOLEAN
      /\ openLine => file # << >>
  BY DEF IInv, TypeOK, OpenLineInv
<1>4. /\ batch \in Seq(Nat) /\ batch \in Seq(Nat \union {Torn}) /\ batch # << >>
      /\ n \in Nat /\ n > 0 /\ n <= Len(queue)
      /\ batch[1] \in Nat /\ batch[1] - 1 <= Behind
      /\ \A i \in 1 .. n : batch[i] = batch[1] + i - 1
      /\ RangeOf(batch) \subseteq erased + 1 .. pushed
      /\ evictions = 0 => (Behind + 1) .. (Behind + n) \subseteq RangeOf(batch)
  BY <1>1, BatchLemma
<1>5. /\ queue' \in Seq(Nat) /\ Len(queue') = Len(queue) - n
      /\ \A i \in 1 .. Len(queue') : queue'[i] = queue[n + i]
  BY <1>1, <1>3, <1>4, AdvanceLemma
<1>. HIDE DEF n
<1>6. Behind' = Behind + n /\ Behind \in Nat
  BY <1>1, <1>3, <1>4, <1>5 DEF Behind, IInv, QueueInv
<1>7. /\ file' \in Seq(Nat \union {Torn})
      /\ RangeOf(file') \subseteq RangeOf(file) \union RangeOf(batch) \union {Torn}
      /\ ~openLine => RangeOf(file) \union RangeOf(batch) \subseteq RangeOf(file')
  BY <1>1, <1>3, <1>4, AppendedLemma, AppendedRangeLemma
<1>8. Readable' \subseteq Readable \union RangeOf(batch)
  BY <1>7 DEF Readable, RangeOf
<1>9. TypeOK'
  <2>1. glued' \in Nat /\ Len(queue') <= Capacity
    <3>1. Len(queue) - n <= Capacity
      BY <1>3, <1>4, CapacityAssumption
    <3>. QED  BY <1>1, <1>3, <1>5, <3>1
  <2>. QED  BY <1>1, <1>2, <1>5, <1>7, <2>1 DEF IInv, TypeOK, LockTypeOK
<1>10. QueueInv'
  <2>1. Len(queue') <= pushed'
    BY <1>1, <1>3, <1>4, <1>5 DEF IInv, QueueInv
  <2>2. ASSUME NEW i \in 1 .. Len(queue')
        PROVE  queue'[i] = Behind' + i
    <3>3. Len(queue) \in Nat /\ n \in Nat /\ Len(queue') = Len(queue) - n
      BY <1>3, <1>4, <1>5
    <3>1. n + i \in 1 .. Len(queue)
      BY <3>3
    <3>2. queue[n + i] = Behind + (n + i)
      BY <3>1 DEF IInv, QueueInv
    <3>. QED  BY <1>5, <1>6, <3>3, <3>2
  <2>. QED  BY <2>1, <2>2 DEF QueueInv
<1>11. BatchInv' /\ OpenLineInv'
  BY <1>1, <1>2 DEF BatchInv, OpenLineInv
<1>12. EraseInv'
  <2>1. erased <= Behind
    BY DEF IInv, EraseInv
  <2>2. erased <= Behind'
    BY <1>3, <1>4, <1>6, <2>1
  <2>3. \A s \in RangeOf(batch) : s > erased
    BY <1>3, <1>4
  <2>4. \A s \in Readable' : s > erased
    BY <1>8, <2>3 DEF IInv, EraseInv
  <2>. QED  BY <1>1, <1>2, <2>2, <2>4 DEF EraseInv
<1>13. FileBehindPushed'
  <2>1. \A s \in RangeOf(batch) : s <= pushed
    BY <1>3, <1>4
  <2>. QED  BY <1>1, <1>8, <2>1 DEF IInv, FileBehindPushed
<1>14. AccountInv'
  <2>1. SUFFICES ASSUME evictions' = 0, glued' = 0, NEW s \in 1 .. Behind'
                 PROVE  s \in Readable' \union forgotten'
    BY DEF AccountInv
  <2>2. evictions = 0 /\ ~openLine /\ glued = 0
    BY <1>1, <1>3, <2>1
  <2>3. Readable \union RangeOf(batch) \subseteq Readable'
    <3>1. Torn \notin RangeOf(batch)
      BY <1>4, TornAssumption DEF RangeOf
    <3>. QED  BY <1>7, <2>2, <3>1 DEF Readable, RangeOf
  <2>4. CASE s <= Behind
    BY <1>1, <1>6, <2>1, <2>2, <2>3, <2>4 DEF IInv, AccountInv
  <2>5. CASE s > Behind
    BY <1>4, <1>6, <2>1, <2>2, <2>3, <2>5
  <2>. QED  BY <1>6, <2>1, <2>4, <2>5
<1>15. OrderInv'
  <2>1. SUFFICES ASSUME failures = 0
                 PROVE  /\ file' \in Seq(Nat)
                        /\ \A i \in 1 .. Len(file') : file'[i] <= Behind'
                        /\ WrittenOnceInOrder'
    BY <1>1, <1>2 DEF OrderInv
  <2>2. /\ ~openLine /\ file \in Seq(Nat)
        /\ \A i \in 1 .. Len(file) : file[i] <= Behind
        /\ \A i \in 1 .. Len(file) : file[i] < batch[1]
        /\ \A i, j \in 1 .. Len(file) : i < j => file[i] < file[j]
    BY <1>1, <2>1 DEF IInv, OrderInv, WrittenOnceInOrder
  <2>3. file' = file \o batch
    BY <1>1, <2>2 DEF Appended
  <2>4. /\ file' \in Seq(Nat) /\ Len(file') = Len(file) + n /\ Len(file) \in Nat
        /\ \A i \in 1 .. Len(file) : file'[i] = file[i] /\ file[i] \in Nat
    BY <1>4, <2>2, <2>3 DEF n
  <2>5. ASSUME NEW i \in 1 .. Len(file'), i > Len(file)
        PROVE  file'[i] = batch[1] + (i - Len(file)) - 1
    <3>1. i - Len(file) \in 1 .. n
      BY <1>4, <2>4, <2>5
    <3>2. file'[i] = batch[i - Len(file)]
      BY <1>4, <2>2, <2>3, <2>4, <2>5, <3>1 DEF n
    <3>. QED  BY <1>4, <3>1, <3>2
  <2>8. /\ Behind \in Nat /\ n \in Nat /\ Len(file) \in Nat /\ batch[1] \in Nat
        /\ Len(file') = Len(file) + n
        /\ batch[1] - 1 <= Behind /\ Behind' = Behind + n
    BY <1>4, <1>6, <2>4
  <2>6. ASSUME NEW i \in 1 .. Len(file')
        PROVE  file'[i] <= Behind'
    <3>1. CASE i <= Len(file)
      <4>1. i \in 1 .. Len(file)
        BY <2>8, <3>1
      <4>2. file'[i] \in Nat /\ file'[i] <= Behind
        BY <2>2, <2>4, <4>1
      <4>. QED  BY <2>8, <4>2
    <3>2. CASE i > Len(file)
      <4>1. file'[i] = batch[1] + (i - Len(file)) - 1
        BY <2>5, <3>2
      <4>. QED  BY <2>8, <3>2, <4>1
    <3>. QED  BY <2>8, <3>1, <3>2
  <2>7. ASSUME NEW i \in 1 .. Len(file'), NEW j \in 1 .. Len(file'), i < j
        PROVE  file'[i] < file'[j]
    <3>1. CASE j <= Len(file)
      <4>1. i \in 1 .. Len(file) /\ j \in 1 .. Len(file)
        BY <2>8, <2>7, <3>1
      <4>. QED  BY <2>2, <2>4, <2>7, <4>1
    <3>2. CASE i <= Len(file) /\ j > Len(file)
      <4>1. i \in 1 .. Len(file)
        BY <2>8, <3>2
      <4>2. file'[i] < batch[1] /\ file'[i] \in Nat
        BY <2>2, <2>4, <4>1
      <4>3. file'[j] = batch[1] + (j - Len(file)) - 1
        BY <2>5, <3>2
      <4>. QED  BY <2>8, <3>2, <4>2, <4>3
    <3>3. CASE i > Len(file)
      <4>1. j > Len(file)
        BY <2>8, <2>7, <3>3
      <4>2. /\ file'[i] = batch[1] + (i - Len(file)) - 1
            /\ file'[j] = batch[1] + (j - Len(file)) - 1
        BY <2>5, <3>3, <4>1
      <4>. QED  BY <2>8, <2>7, <4>2
    <3>. QED  BY <2>8, <3>1, <3>2, <3>3
  <2>. QED  BY <2>4, <2>6, <2>7 DEF WrittenOnceInOrder
<1>. QED  BY <1>2, <1>9, <1>10, <1>11, <1>12, <1>13, <1>14, <1>15 DEF IInv

LEMMA AppendFailsPreservesIInv ==
  ASSUME IInv, NEW c \in Callers, AppendFails(c)
  PROVE  IInv'
<1>1. /\ pc[c] \in Holding /\ Release(c) /\ Appending
      /\ queue' = queue /\ pushed' = pushed /\ evictions' = evictions
      /\ batch' = batch /\ cleared' = cleared
      /\ forgotten' = forgotten /\ erased' = erased
      /\ failures' = failures + 1 /\ failures < MaxFailures
  BY DEF AppendFails, memory, Holding, Appending
<1>2. LockTypeOK' /\ FileOperationsExclusive' /\ ~Appending' /\ ~Truncating'
  BY <1>1, ReleaseLemma
<1>3. /\ queue \in Seq(Nat) /\ pushed \in Nat /\ erased \in Nat
      /\ glued \in Nat /\ evictions \in Nat
      /\ file \in Seq(Nat \union {Torn}) /\ openLine \in BOOLEAN
      /\ openLine => file # << >>
  BY DEF IInv, TypeOK, OpenLineInv
<1>4. /\ Behind' = Behind /\ Behind \in Nat
      /\ failures' # 0 /\ failures' \in 0 .. MaxFailures
  BY <1>1 DEF Behind, IInv, TypeOK, QueueInv
<1>5. QueueInv' /\ BatchInv' /\ OrderInv'
  BY <1>1, <1>2, <1>4 DEF IInv, QueueInv, BatchInv, OrderInv
<1>6. CASE UNCHANGED <<file, openLine, glued>>
  <2>1. Readable' = Readable
    BY <1>6 DEF Readable, RangeOf
  <2>2. TypeOK'
    BY <1>1, <1>2, <1>4, <1>6 DEF IInv, TypeOK, LockTypeOK
  <2>3. EraseInv' /\ FileBehindPushed' /\ OpenLineInv' /\ AccountInv'
    BY <1>1, <1>2, <1>4, <1>6, <2>1
       DEF IInv, EraseInv, FileBehindPushed, OpenLineInv, AccountInv
  <2>. QED  BY <1>2, <1>5, <2>2, <2>3 DEF IInv
<1>7. ASSUME NEW n \in 0 .. Len(batch), NEW fragment \in BOOLEAN, NEW w,
             w = IF fragment THEN Append(SubSeq(batch, 1, n), Torn) ELSE SubSeq(batch, 1, n),
             w # << >>, file' = Appended(w), openLine' \in BOOLEAN,
             glued' = IF openLine /\ n > 0 THEN glued + 1 ELSE glued
      PROVE  IInv'
  <2>1. /\ batch \in Seq(Nat) /\ Len(batch) \in Nat /\ batch[1] \in Nat
        /\ RangeOf(batch) \subseteq erased + 1 .. pushed
        /\ \A i \in 1 .. Len(batch) : batch[i] = batch[1] + i - 1
    BY <1>1, BatchLemma
  <2>2. /\ SubSeq(batch, 1, n) \in Seq(Nat) /\ Len(SubSeq(batch, 1, n)) = n
        /\ \A i \in 1 .. n : SubSeq(batch, 1, n)[i] = batch[i]
    BY <1>7, <2>1
  <2>3. /\ w \in Seq(Nat \union {Torn}) /\ n \in Nat
        /\ Len(w) = IF fragment THEN n + 1 ELSE n
        /\ \A i \in 1 .. n : w[i] = batch[i]
        /\ fragment => w[n + 1] = Torn
    <3>1. CASE fragment
      <4>1. w = Append(SubSeq(batch, 1, n), Torn)
        BY <1>7, <3>1
      <4>. QED  BY <2>1, <2>2, <3>1, <4>1
    <3>2. CASE ~fragment
      BY <1>7, <2>1, <2>2, <3>2
    <3>. QED  BY <3>1, <3>2
  <2>4. RangeOf(w) \subseteq RangeOf(batch) \union {Torn}
    <3>1. ASSUME NEW i \in 1 .. Len(w)
          PROVE  w[i] \in RangeOf(batch) \union {Torn}
      <4>1. CASE i <= n
        <5>1. i \in 1 .. Len(batch) /\ w[i] = batch[i]
          BY <1>7, <2>1, <2>3, <4>1
        <5>. QED  BY <5>1 DEF RangeOf
      <4>2. CASE i > n
        <5>1. fragment /\ i = n + 1
          BY <2>3, <4>2
        <5>. QED  BY <2>3, <5>1
      <4>. QED  BY <2>3, <4>1, <4>2
    <3>. QED  BY <3>1 DEF RangeOf
  <2>5. /\ file' \in Seq(Nat \union {Torn})
        /\ Len(file') = IF openLine THEN Len(file) + Len(w) - 1 ELSE Len(file) + Len(w)
        /\ openLine => file'[Len(file)] = Torn
        /\ ~openLine => \A i \in 1 .. Len(w) : file'[Len(file) + i] = w[i]
    BY <1>3, <1>7, <2>3, AppendedLemma
  <2>6. /\ RangeOf(file') \subseteq RangeOf(file) \union RangeOf(w) \union {Torn}
        /\ ~openLine => RangeOf(file) \subseteq RangeOf(file')
        /\ openLine => RangeOf(file) \subseteq RangeOf(file') \union {file[Len(file)]}
    BY <1>3, <1>7, <2>3, AppendedRangeLemma
  <2>7. Readable' \subseteq Readable \union RangeOf(batch)
    BY <2>4, <2>6 DEF Readable
  <2>8. TypeOK'
    <3>1. glued' \in Nat
      BY <1>3, <1>7
    <3>. QED  BY <1>1, <1>2, <1>4, <1>7, <2>5, <3>1 DEF IInv, TypeOK, LockTypeOK
  <2>9. EraseInv' /\ FileBehindPushed'
    <3>1. \A s \in RangeOf(batch) : s > erased /\ s <= pushed
      BY <1>3, <2>1
    <3>2. \A s \in Readable' : s > erased /\ s <= pushed
      BY <2>7, <3>1 DEF IInv, EraseInv, FileBehindPushed
    <3>. QED  BY <1>1, <1>2, <1>4, <3>2 DEF IInv, EraseInv, FileBehindPushed
  <2>10. OpenLineInv'
    <3>1. Len(w) \in Nat /\ Len(w) > 0 /\ Len(file) \in Nat /\ (openLine => Len(file) > 0)
      BY <1>3, <1>7, <2>3, EmptySeq
    <3>2. file' # << >>
      <4>1. Len(file') > 0
        BY <2>5, <3>1
      <4>. QED  BY <4>1
    <3>3. ASSUME evictions = 0, glued' = 0
          PROVE  file'[Len(file')] = Torn \/ file'[Len(file')] > Behind
      <4>1. CASE openLine
        <5>1. n = 0
          BY <1>3, <1>7, <3>3, <4>1
        <5>2. Len(w) = 1
          BY <2>3, <3>1, <5>1
        <5>. QED  BY <2>5, <3>1, <4>1, <5>2
      <4>2. CASE ~openLine
        <5>1. Len(w) \in 1 .. Len(w) /\ Len(file') = Len(file) + Len(w)
          BY <2>5, <3>1, <4>2
        <5>2. file'[Len(file')] = w[Len(w)]
          BY <2>5, <4>2, <5>1
        <5>3. CASE fragment
          BY <2>3, <5>2, <5>3
        <5>4. CASE ~fragment
          <6>1. n \in 1 .. n /\ n \in 1 .. Len(batch) /\ Len(w) = n
            BY <1>7, <2>1, <2>3, <3>1, <5>4
          <6>2. w[n] = batch[1] + n - 1 /\ batch[1] - 1 = Behind
            BY <1>1, <2>1, <2>3, <3>3, <6>1 DEF IInv, BatchInv
          <6>. QED  BY <1>4, <2>1, <5>2, <6>1, <6>2
        <5>. QED  BY <5>3, <5>4
      <4>. QED  BY <4>1, <4>2
    <3>. QED  BY <1>1, <1>4, <3>2, <3>3 DEF OpenLineInv
  <2>11. AccountInv'
    <3>1. SUFFICES ASSUME evictions = 0, glued' = 0, NEW s \in 1 .. Behind
                   PROVE  s \in Readable' \union forgotten
      BY <1>1, <1>4 DEF AccountInv
    <3>2. glued = 0
      BY <1>3, <1>7, <3>1
    <3>3. s \in Readable \union forgotten
      BY <3>1, <3>2 DEF IInv, AccountInv
    <3>4. CASE s \in RangeOf(file') \/ s \in forgotten
      BY <3>1, <3>4, TornAssumption DEF Readable
    <3>5. CASE s \in Readable /\ s \notin RangeOf(file')
      <4>1. openLine /\ s = file[Len(file)]
        BY <2>6, <3>5 DEF Readable
      <4>2. s # Torn /\ ~(s > Behind)
        BY <1>4, <3>1, TornAssumption
      <4>. QED  BY <3>1, <3>2, <4>1, <4>2 DEF IInv, OpenLineInv
    <3>. QED  BY <3>3, <3>4, <3>5
  <2>. QED  BY <1>2, <1>5, <2>8, <2>9, <2>10, <2>11 DEF IInv
<1>. QED
  <2>1. PICK n \in 0 .. Len(batch), fragment \in BOOLEAN :
          LET whole   == SubSeq(batch, 1, n)
              written == IF fragment THEN Append(whole, Torn) ELSE whole
          IN  /\ fragment => n < Len(batch)
              /\ IF written = << >>
                   THEN UNCHANGED <<file, openLine, glued>>
                   ELSE /\ file' = Appended(written)
                        /\ openLine' \in IF fragment THEN {TRUE} ELSE BOOLEAN
                        /\ glued' = IF openLine /\ n > 0 THEN glued + 1 ELSE glued
    BY DEF AppendFails
  <2>. QED  BY <1>6, <1>7, <2>1
-----------------------------------------------------------------------------
(* The theorems.                                                           *)

LEMMA NextPreservesIInv == IInv /\ [Next]_vars => IInv'
<1>. SUFFICES ASSUME IInv, [Next]_vars PROVE IInv'
  OBVIOUS
<1>1. CASE PushSlice
  BY <1>1, PushPreservesIInv
<1>2. ASSUME NEW c \in Callers, NEW label \in Waiting, Call(c, label)
      PROVE  IInv'
  BY <1>2, CallPreservesIInv
<1>3. ASSUME NEW c \in Callers, Resume(c)
      PROVE  IInv'
  BY <1>3, ResumePreservesIInv
<1>4. ASSUME NEW c \in Callers, IOCompletes(c)
      PROVE  IInv'
  BY <1>4, AppendSucceedsPreservesIInv, AppendFailsPreservesIInv,
     TruncateSucceedsPreservesIInv, TruncateFailsPreservesIInv DEF IOCompletes
<1>5. CASE UNCHANGED vars
  <2>1. UNCHANGED <<memory, journal, lock, failures>> /\ UNCHANGED <<mutex, pc, batch, cleared>>
    BY <1>5 DEF vars, lock
  <2>2. LockTypeOK' /\ FileOperationsExclusive'
    BY <2>1 DEF IInv, TypeOK, LockTypeOK, FileOperationsExclusive
  <2>3. (Appending' => Appending) /\ (Truncating' => Truncating)
    BY <2>1 DEF Appending, Truncating
  <2>. QED  BY <2>1, <2>2, <2>3, FrameLemma
<1>. QED  BY <1>1, <1>2, <1>3, <1>4, <1>5 DEF Next

\* IInv is an invariant of JournalWriter, for every value of the constants.
THEOREM Invariance == Spec => []IInv
<1>. QED  BY InitEstablishesIInv, NextPreservesIInv, PTL DEF Spec

\* The state of JournalWriter keeps its types and its bounds; the ring buffer
\* never holds more than Capacity slices.
THEOREM TypeCorrect == Spec => []TypeOK
<1>1. IInv => TypeOK
  BY DEF IInv
<1>. QED  BY <1>1, Invariance, PTL

\* The promise mutex of flushNow and truncate excludes file operations, for any
\* number of waiting calls.
THEOREM MutualExclusion == Spec => []FileOperationsExclusive
<1>1. IInv => FileOperationsExclusive
  BY DEF IInv
<1>. QED  BY <1>1, Invariance, PTL

\* The two-phase commit of flushNow: without an overwritten slice or a torn line
\* nothing is lost, through any number of failures, retries and truncates.
THEOREM TwoPhaseCommit == Spec => []NothingLostWithoutCause
<1>1. ASSUME IInv, evictions = 0, glued = 0
      PROVE  Lost = {}
  <2>1. ASSUME NEW s \in 1 .. pushed
        PROVE  s \in RangeOf(queue) \union Readable \union forgotten
    <3>1. /\ queue \in Seq(Nat) /\ Len(queue) \in Nat /\ pushed \in Nat
          /\ Len(queue) <= pushed
          /\ \A i \in 1 .. Len(queue) : queue[i] = Behind + i
      BY <1>1 DEF IInv, TypeOK, QueueInv
    <3>2. CASE s <= Behind
      <4>1. s \in 1 .. Behind
        BY <3>1, <3>2 DEF Behind
      <4>. QED  BY <1>1, <4>1 DEF IInv, AccountInv
    <3>3. CASE s > Behind
      <4>1. s - Behind \in 1 .. Len(queue) /\ Behind \in Nat
        BY <3>1, <3>3 DEF Behind
      <4>2. queue[s - Behind] = s
        BY <3>1, <4>1
      <4>. QED  BY <4>1, <4>2 DEF RangeOf
    <3>. QED  BY <3>1, <3>2, <3>3 DEF Behind
  <2>. QED  BY <2>1 DEF Lost, Slices
<1>2. IInv => NothingLostWithoutCause
  BY <1>1 DEF NothingLostWithoutCause
<1>. QED  BY <1>2, Invariance, PTL

\* Without failures no slice is written twice or out of order, whatever calls of
\* flushNow and truncate interleave.
THEOREM WrittenOnce == Spec => []WrittenOnceInOrder
<1>1. IInv => WrittenOnceInOrder
  BY DEF IInv, OrderInv, WrittenOnceInOrder
<1>. QED  BY <1>1, Invariance, PTL

\* What a successful truncate erased never comes back, neither to the buffer nor
\* to the journal file, whatever was in flight.
THEOREM TruncateIsFinal == Spec => []NoResurrection
<1>1. ASSUME IInv, NEW s \in RangeOf(queue)
      PROVE  s > erased
  <2>1. PICK i \in 1 .. Len(queue) : s = queue[i]
    BY <1>1 DEF RangeOf
  <2>2. erased \in Nat /\ erased <= Behind /\ Behind \in Nat /\ queue[i] = Behind + i
    BY <1>1 DEF IInv, EraseInv, QueueInv, TypeOK, Behind
  <2>. QED  BY <2>1, <2>2
<1>2. IInv => NoResurrection
  BY <1>1 DEF NoResurrection, IInv, EraseInv
<1>. QED  BY <1>2, Invariance, PTL

-----------------------------------------------------------------------------
(* How often a slice is in the file.                                       *)

Occurrences(lines, s) == {i \in 1 .. Len(lines) : lines[i] = s}

\* The slices that an append may still write.
Owed == {s \in Nat : s > Behind \/ (Appending /\ s >= batch[1])}

\* Why: each failure leaves what is owed at most one more time in the file, and
\* the append that succeeds writes it once and no longer owes it.
RetryInv ==
  \A s \in Nat : /\ Cardinality(Occurrences(file, s)) <= failures + 1
                 /\ s \in Owed => Cardinality(Occurrences(file, s)) <= failures

\* An append adds one occurrence of what it writes once, and none of the rest.
LEMMA OccurrencesLemma ==
  ASSUME NEW b \in Seq(Nat \union {Torn}), b # << >>,
         file \in Seq(Nat \union {Torn}), openLine \in BOOLEAN,
         openLine => file # << >>, NEW s \in Nat,
         \A i, j \in 1 .. Len(b) : b[i] = s /\ b[j] = s => i = j
  PROVE  /\ Cardinality(Occurrences(file, s)) \in Nat
         /\ Cardinality(Occurrences(Appended(b), s)) \in Nat
         /\ Cardinality(Occurrences(Appended(b), s)) <= Cardinality(Occurrences(file, s)) + 1
         /\ (\A i \in 1 .. Len(b) : b[i] # s) =>
              Cardinality(Occurrences(Appended(b), s)) <= Cardinality(Occurrences(file, s))
<1>. DEFINE a == Appended(b)
            off == IF openLine THEN Len(file) - 1 ELSE Len(file)
            before == Occurrences(file, s)
            after == Occurrences(a, s)
<1>1. /\ a \in Seq(Nat \union {Torn})
      /\ Len(a) = IF openLine THEN Len(file) + Len(b) - 1 ELSE Len(file) + Len(b)
      /\ ~openLine =>
           /\ \A i \in 1 .. Len(file) : a[i] = file[i]
           /\ \A i \in 1 .. Len(b) : a[Len(file) + i] = b[i]
      /\ openLine =>
           /\ \A i \in 1 .. Len(file) - 1 : a[i] = file[i]
           /\ a[Len(file)] = Torn
           /\ \A i \in 2 .. Len(b) : a[Len(file) + i - 1] = b[i]
  BY AppendedLemma
<1>2. /\ Len(file) \in Nat /\ Len(b) \in Nat /\ off \in Nat /\ Len(a) \in Nat /\ off <= Len(file)
      /\ Len(a) = off + Len(b) /\ Torn # s
  <2>1. openLine => Len(file) > 0
    BY EmptySeq
  <2>. QED  BY <2>1, <1>1, TornAssumption
<1>. HIDE DEF a
<1>3. IsFiniteSet(before) /\ IsFiniteSet(after)
  <2>1. IsFiniteSet(1 .. Len(file))
    BY <1>2, FS_Interval
  <2>2. IsFiniteSet(1 .. Len(a))
    <3>1. Len(a) \in Int
      BY <1>2
    <3>. HIDE DEF off
    <3>. QED  BY <3>1, FS_Interval
  <2>. QED  BY <2>1, <2>2, FS_Subset DEF Occurrences
<1>4. ASSUME NEW k \in after
      PROVE  k \in before \/ (k - off \in 1 .. Len(b) /\ b[k - off] = s)
  <2>1. k \in 1 .. Len(a) /\ a[k] = s
    BY <1>4 DEF Occurrences
  <2>2. CASE k <= off
    <3>1. k \in 1 .. Len(file) /\ a[k] = file[k]
      BY <1>1, <1>2, <2>1, <2>2
    <3>. QED  BY <2>1, <3>1 DEF Occurrences
  <2>3. CASE k > off /\ ~openLine
    <3>1. k - off \in 1 .. Len(b) /\ k = Len(file) + (k - off)
      BY <1>1, <1>2, <2>1, <2>3
    <3>. QED  BY <1>1, <2>1, <2>3, <3>1
  <2>4. CASE k > off /\ openLine
    <3>1. k # Len(file)
      BY <1>1, <1>2, <2>1, <2>4
    <3>2. k - off \in 2 .. Len(b) /\ k = Len(file) + (k - off) - 1
      BY <1>1, <1>2, <2>1, <2>4, <3>1
    <3>3. a[k] = b[k - off]
      BY <1>1, <2>4, <3>2
    <3>. QED  BY <1>2, <2>1, <3>2, <3>3
  <2>. QED  BY <1>2, <2>1, <2>2, <2>3, <2>4
<1>. HIDE DEF off, before, after
<1>5. Cardinality(before) \in Nat /\ Cardinality(after) \in Nat
  BY <1>3, FS_CardinalityType
<1>6. CASE \A i \in 1 .. Len(b) : b[i] # s
  <2>1. after \subseteq before
    BY <1>4, <1>6
  <2>2. Cardinality(after) <= Cardinality(before)
    BY <1>3, <2>1, FS_Subset
  <2>. QED  BY <1>5, <2>2 DEF before, after, a
<1>7. CASE \E i \in 1 .. Len(b) : b[i] = s
  <2>1. PICK i \in 1 .. Len(b) : b[i] = s
    BY <1>7
  <2>2. after \subseteq before \union {off + i}
    <3>1. ASSUME NEW k \in after, k \notin before
          PROVE  k = off + i
      <4>1. k - off \in 1 .. Len(b) /\ b[k - off] = s
        BY <1>4, <3>1
      <4>2. k - off = i
        BY <2>1, <4>1
      <4>3. k \in Nat
        BY <1>2 DEF after, Occurrences
      <4>. QED  BY <1>2, <2>1, <4>2, <4>3
    <3>. QED  BY <3>1
  <2>3. /\ IsFiniteSet(before \union {off + i})
        /\ Cardinality(before \union {off + i}) <= Cardinality(before) + 1
    <3>1. IsFiniteSet(before)
      BY <1>3
    <3>2. /\ IsFiniteSet(before \union {off + i})
          /\ Cardinality(before \union {off + i})
               = IF off + i \in before THEN Cardinality(before) ELSE Cardinality(before) + 1
      BY <3>1, FS_AddElement
    <3>. QED  BY <1>5, <3>2
  <2>4. Cardinality(after) <= Cardinality(before \union {off + i})
        /\ Cardinality(before \union {off + i}) \in Nat
    BY <2>2, <2>3, FS_Subset, FS_CardinalityType
  <2>5. Cardinality(after) <= Cardinality(before) + 1
    BY <1>5, <2>3, <2>4
  <2>. QED  BY <1>5, <1>7, <2>5 DEF before, after, a
<1>. QED  BY <1>6, <1>7

\* A file that is emptied, or left alone, and a buffer that has only moved on.
LEMMA RetryFrameLemma ==
  ASSUME IInv, RetryInv, file' = file \/ file' = << >>, failures' \in {failures, failures + 1},
         Owed' \subseteq Owed
  PROVE  RetryInv'
<1>1. failures \in Nat /\ failures' \in Nat /\ failures <= failures'
  BY DEF IInv, TypeOK
<1>2. ASSUME NEW s \in Nat
      PROVE  /\ Cardinality(Occurrences(file', s)) <= failures' + 1
             /\ s \in Owed' => Cardinality(Occurrences(file', s)) <= failures'
  <2>1. /\ Cardinality(Occurrences(file, s)) <= failures + 1
        /\ s \in Owed' => Cardinality(Occurrences(file, s)) <= failures
    BY DEF RetryInv
  <2>2. CASE file' = file
    <3>1. Cardinality(Occurrences(file, s)) \in Nat
      <4>1. file \in Seq(Nat \union {Torn}) /\ Len(file) \in Nat
        BY DEF IInv, TypeOK
      <4>2. IsFiniteSet(1 .. Len(file))
        BY <4>1, FS_Interval
      <4>. QED  BY <4>2, FS_Subset, FS_CardinalityType DEF Occurrences
    <3>2. Occurrences(file', s) = Occurrences(file, s)
      BY <2>2 DEF Occurrences
    <3>. QED  BY <1>1, <2>1, <3>1, <3>2
  <2>3. CASE file' = << >>
    <3>1. Occurrences(file', s) = {}
      BY <2>3 DEF Occurrences
    <3>2. Cardinality(Occurrences(file', s)) = 0
      BY <3>1, FS_EmptySet
    <3>3. PICK f \in Nat : failures' = f
      BY <1>1
    <3>. QED  BY <3>2, <3>3
  <2>. QED  BY <2>2, <2>3
<1>. QED  BY <1>2 DEF RetryInv

\* A flush that begins owes what the buffer holds; a truncate gives that up.
LEMMA BeginPreservesRetryInv ==
  ASSUME IInv, RetryInv, NEW c \in Callers, NEW label \in Waiting, mutex = NoOne, Begin(c, label)
  PROVE  RetryInv'
<1>1. failures' = failures /\ file' = file /\ failures \in Nat
  BY DEF Begin, BeginFlush, BeginTruncate, journal, IInv, TypeOK
<1>2. ~Appending /\ Behind \in Nat /\ Len(queue) \in Nat /\ pushed \in Nat /\ queue \in Seq(Nat)
  BY FreeLemma DEF Behind, IInv, TypeOK, QueueInv
<1>3. pc \in [Callers -> Waiting \union Holding \union {"idle"}]
  BY DEF IInv, TypeOK
<1>4. CASE BeginFlush(c) /\ queue = << >>
  <2>1. pc' = [pc EXCEPT ![c] = "idle"] /\ UNCHANGED <<queue, pushed, batch>>
    BY <1>4 DEF BeginFlush, Goto, memory
  <2>2. ~Appending'
    BY <1>2, <1>3, <2>1 DEF Appending
  <2>3. Behind' = Behind
    BY <2>1 DEF Behind
  <2>4. Owed' \subseteq Owed
    BY <1>2, <2>2, <2>3 DEF Owed
  <2>. QED  BY <1>1, <2>4, RetryFrameLemma
<1>5. CASE BeginFlush(c) /\ queue # << >>
  <2>1. batch' = queue /\ UNCHANGED <<queue, pushed>>
    BY <1>5 DEF BeginFlush, memory
  <2>2. batch'[1] = Behind + 1
    BY <1>2, <1>5, <2>1, EmptySeq DEF IInv, QueueInv
  <2>3. Behind' = Behind
    BY <2>1 DEF Behind
  <2>4. ASSUME NEW s \in Owed' PROVE s \in Owed
    <3>1. s \in Nat /\ (s > Behind' \/ s >= batch'[1])
      BY <2>4 DEF Owed
    <3>2. s > Behind
      BY <1>2, <2>2, <2>3, <3>1
    <3>. QED  BY <3>1, <3>2 DEF Owed
  <2>. QED  BY <1>1, <2>4, RetryFrameLemma
<1>6. CASE BeginTruncate(c)
  <2>1. pc' = [pc EXCEPT ![c] = "truncating"] /\ pushed' = pushed /\ queue' = << >>
    BY <1>6 DEF BeginTruncate, Goto
  <2>2. Behind' = pushed
    BY <1>2, <2>1 DEF Behind
  <2>3. ~Appending'
    BY <1>2, <1>3, <2>1 DEF Appending
  <2>4. ASSUME NEW s \in Owed' PROVE s \in Owed
    <3>1. s \in Nat /\ s > Behind'
      BY <2>3, <2>4 DEF Owed
    <3>2. s > Behind
      BY <1>2, <2>2, <3>1 DEF Behind
    <3>. QED  BY <3>1, <3>2 DEF Owed
  <2>. QED  BY <1>1, <2>4, RetryFrameLemma
<1>. QED  BY <1>4, <1>5, <1>6 DEF Begin

\* A push moves the buffer on, past slices that were evicted.
LEMMA PushPreservesRetryInv == ASSUME IInv, RetryInv, PushSlice PROVE RetryInv'
<1>0. /\ failures \in Nat /\ queue \in Seq(Nat) /\ pushed \in Nat /\ Len(queue) \in Nat /\ Behind \in Nat
      /\ Len(queue) <= Capacity /\ Behind = pushed - Len(queue)
  BY DEF IInv, TypeOK, Behind, QueueInv
<1>1. pushed' = pushed + 1 /\ queue' = Buffer!Pushed(queue, pushed + 1)
      /\ UNCHANGED <<file, pc, batch, failures>>
  BY DEF PushSlice, journal, lock
<1>2. Len(queue') = IF Len(queue) = Capacity THEN Capacity ELSE Len(queue) + 1
  BY <1>0, <1>1, PushedLemma
<1>3. Behind' = Behind \/ Behind' = Behind + 1
  BY <1>0, <1>1, <1>2 DEF Behind
<1>4. Appending' = Appending
  BY <1>1 DEF Appending
<1>5. Owed' \subseteq Owed
  BY <1>0, <1>1, <1>3, <1>4 DEF Owed
<1>. QED  BY <1>0, <1>1, <1>5, RetryFrameLemma

\* A call that has to wait, or has nothing to do with appends.
LEMMA StepPreservesRetryInv ==
  ASSUME IInv, RetryInv, NEW c \in Callers,
         \/ \E label \in Waiting : Call(c, label)
         \/ Resume(c)
         \/ TruncateSucceeds(c)
         \/ TruncateFails(c)
  PROVE  RetryInv'
<1>0. /\ pc \in [Callers -> Waiting \union Holding \union {"idle"}] /\ failures \in Nat
      /\ queue \in Seq(Nat) /\ pushed \in Nat /\ Len(queue) \in Nat /\ Behind \in Nat
  BY DEF IInv, TypeOK, Behind, QueueInv
<1>2. ASSUME NEW label \in Waiting, Call(c, label)
      PROVE  RetryInv'
  <2>1. CASE mutex = NoOne
    BY <1>2, <2>1, BeginPreservesRetryInv DEF Call
  <2>2. CASE mutex # NoOne
    <3>1. pc' = [pc EXCEPT ![c] = label] /\ pc[c] = "idle"
          /\ UNCHANGED <<queue, pushed, file, batch, failures>>
      BY <1>2, <2>2 DEF Call, Goto, memory, journal
    <3>2. Appending' => Appending
      BY <1>0, <3>1 DEF Appending, Waiting
    <3>3. Owed' \subseteq Owed
      BY <3>1, <3>2 DEF Owed, Behind
    <3>. QED  BY <1>0, <3>1, <3>3, RetryFrameLemma
  <2>. QED  BY <2>1, <2>2
<1>3. CASE Resume(c)
  BY <1>3, BeginPreservesRetryInv DEF Resume
<1>4. CASE TruncateSucceeds(c) \/ TruncateFails(c)
  <2>1. /\ pc' = [pc EXCEPT ![c] = "idle"] /\ UNCHANGED <<queue, pushed, batch>>
        /\ file' = file \/ file' = << >>
        /\ failures' \in {failures, failures + 1}
    BY <1>0, <1>4 DEF TruncateSucceeds, TruncateFails, Emptied, Release, Goto, memory
  <2>2. Appending' => Appending
    BY <1>0, <2>1 DEF Appending
  <2>3. Owed' \subseteq Owed
    BY <2>1, <2>2 DEF Owed, Behind
  <2>. QED  BY <2>1, <2>3, RetryFrameLemma
<1>. QED  BY <1>2, <1>3, <1>4

\* The append that succeeds writes what it owes, once.
LEMMA AppendSucceedsPreservesRetryInv ==
  ASSUME IInv, RetryInv, NEW c \in Callers, AppendSucceeds(c)
  PROVE  RetryInv'
<1>1. /\ pc[c] \in Holding /\ Release(c) /\ Appending
      /\ file' = Appended(batch) /\ failures' = failures /\ pushed' = pushed
      /\ queue' = Buffer!AdvanceBy(queue, Len(batch))
  BY DEF AppendSucceeds, AdvancedByBatch, Holding, Appending
<1>2. /\ file \in Seq(Nat \union {Torn}) /\ openLine \in BOOLEAN /\ (openLine => file # << >>)
      /\ queue \in Seq(Nat) /\ pushed \in Nat /\ Len(queue) \in Nat /\ failures \in Nat
      /\ Behind \in Nat
  BY DEF IInv, TypeOK, OpenLineInv, QueueInv, Behind
<1>3. /\ batch \in Seq(Nat \union {Torn}) /\ batch # << >>
      /\ Len(batch) \in Nat /\ Len(batch) <= Len(queue)
      /\ batch[1] \in Nat /\ batch[1] - 1 <= Behind
      /\ \A i \in 1 .. Len(batch) : batch[i] = batch[1] + i - 1
  BY <1>1, BatchLemma
<1>4. Behind' = Behind + Len(batch)
  <2>1. Len(queue') = Len(queue) - Len(batch)
    BY <1>1, <1>2, <1>3, AdvanceLemma
  <2>. QED  BY <1>1, <1>2, <1>3, <2>1 DEF Behind
<1>5. ~Appending'
  BY <1>1, ReleaseLemma
<1>6. ASSUME NEW s \in Nat
      PROVE  /\ Cardinality(Occurrences(file', s)) <= failures + 1
             /\ s \in Owed' => Cardinality(Occurrences(file', s)) <= failures
  <2>. DEFINE before == Cardinality(Occurrences(file, s))
              after  == Cardinality(Occurrences(file', s))
  <2>1. \A i, j \in 1 .. Len(batch) : batch[i] = s /\ batch[j] = s => i = j
    BY <1>3
  <2>2. /\ before \in Nat /\ after \in Nat /\ after <= before + 1
        /\ (\A i \in 1 .. Len(batch) : batch[i] # s) => after <= before
    BY <1>1, <1>2, <1>3, <2>1, OccurrencesLemma
  <2>3. before <= failures + 1 /\ (s \in Owed => before <= failures)
    BY DEF RetryInv
  <2>. HIDE DEF before, after
  <2>4. CASE s \in Owed /\ s \notin Owed'
    BY <1>2, <2>2, <2>3, <2>4 DEF after
  <2>5. CASE s \in Owed'
    <3>1. s > Behind + Len(batch)
      BY <1>4, <1>5, <2>5 DEF Owed
    <3>2. s \in Owed
      BY <1>2, <1>3, <3>1 DEF Owed
    <3>3. \A i \in 1 .. Len(batch) : batch[i] # s
      BY <1>2, <1>3, <3>1
    <3>. QED  BY <1>2, <2>2, <2>3, <3>2, <3>3 DEF after
  <2>6. CASE s \notin Owed /\ s \notin Owed'
    <3>1. s < batch[1]
      BY <1>1, <1>3, <2>6 DEF Owed
    <3>2. \A i \in 1 .. Len(batch) : batch[i] # s
      BY <1>3, <3>1
    <3>. QED  BY <1>2, <2>2, <2>3, <2>6, <3>2 DEF after
  <2>. QED  BY <2>4, <2>5, <2>6
<1>. QED  BY <1>1, <1>6 DEF RetryInv

\* The append that fails may have written some of it, and owes it still.
LEMMA AppendFailsPreservesRetryInv ==
  ASSUME IInv, RetryInv, NEW c \in Callers, AppendFails(c)
  PROVE  RetryInv'
<1>1. /\ pc[c] \in Holding /\ Release(c) /\ Appending
      /\ failures' = failures + 1 /\ queue' = queue /\ pushed' = pushed
  BY DEF AppendFails, memory, Holding, Appending
<1>2. /\ file \in Seq(Nat \union {Torn}) /\ openLine \in BOOLEAN /\ (openLine => file # << >>)
      /\ failures \in Nat
  BY DEF IInv, TypeOK, OpenLineInv
<1>3. /\ batch \in Seq(Nat) /\ Len(batch) \in Nat /\ batch[1] \in Nat
      /\ \A i \in 1 .. Len(batch) : batch[i] = batch[1] + i - 1
  BY <1>1, BatchLemma
<1>4. Owed' \subseteq Owed
  <2>1. ~Appending' /\ Behind' = Behind
    BY <1>1, ReleaseLemma DEF Behind
  <2>. QED  BY <2>1 DEF Owed
<1>5. CASE file' = file
  BY <1>1, <1>4, <1>5, RetryFrameLemma
<1>6. ASSUME NEW n \in 0 .. Len(batch), NEW fragment \in BOOLEAN, NEW w,
             w = IF fragment THEN Append(SubSeq(batch, 1, n), Torn) ELSE SubSeq(batch, 1, n),
             w # << >>, file' = Appended(w)
      PROVE  RetryInv'
  <2>1. /\ SubSeq(batch, 1, n) \in Seq(Nat) /\ Len(SubSeq(batch, 1, n)) = n
        /\ \A i \in 1 .. n : SubSeq(batch, 1, n)[i] = batch[i]
    BY <1>3, <1>6
  <2>2. /\ w \in Seq(Nat \union {Torn}) /\ n \in Nat /\ Len(w) \in Nat
        /\ \A i \in 1 .. Len(w) : (i \in 1 .. Len(batch) /\ w[i] = batch[i]) \/ w[i] = Torn
    <3>1. CASE fragment
      <4>1. w = Append(SubSeq(batch, 1, n), Torn)
        BY <1>6, <3>1
      <4>. QED  BY <1>3, <2>1, <3>1, <4>1
    <3>2. CASE ~fragment
      BY <1>3, <1>6, <2>1, <3>2
    <3>. QED  BY <3>1, <3>2
  <2>3. ASSUME NEW s \in Nat
        PROVE  /\ Cardinality(Occurrences(file', s)) <= failures' + 1
               /\ s \in Owed' => Cardinality(Occurrences(file', s)) <= failures'
    <3>. DEFINE before == Cardinality(Occurrences(file, s))
                after  == Cardinality(Occurrences(file', s))
    <3>1. ASSUME NEW i \in 1 .. Len(w), w[i] = s
          PROVE  i \in Nat /\ s = batch[1] + i - 1
      BY <1>3, <2>2, <3>1, TornAssumption
    <3>2. \A i, j \in 1 .. Len(w) : w[i] = s /\ w[j] = s => i = j
      BY <1>3, <3>1
    <3>3. /\ before \in Nat /\ after \in Nat /\ after <= before + 1
          /\ (\A i \in 1 .. Len(w) : w[i] # s) => after <= before
      BY <1>2, <1>6, <2>2, <3>2, OccurrencesLemma
    <3>4. before <= failures + 1 /\ (s \in Owed => before <= failures)
      BY DEF RetryInv
    <3>. HIDE DEF before, after
    <3>5. CASE s \in Owed
      BY <1>1, <1>2, <3>3, <3>4, <3>5 DEF after
    <3>6. CASE s \notin Owed
      <4>1. s < batch[1]
        BY <1>1, <1>3, <3>6 DEF Owed
      <4>2. \A i \in 1 .. Len(w) : w[i] # s
        BY <1>3, <3>1, <4>1
      <4>. QED  BY <1>1, <1>2, <1>4, <3>3, <3>4, <3>6, <4>2 DEF after
    <3>. QED  BY <3>5, <3>6
  <2>. QED  BY <2>3 DEF RetryInv
<1>. QED
  <2>1. PICK n \in 0 .. Len(batch), fragment \in BOOLEAN :
          LET whole   == SubSeq(batch, 1, n)
              written == IF fragment THEN Append(whole, Torn) ELSE whole
          IN  IF written = << >> THEN file' = file ELSE file' = Appended(written)
    BY DEF AppendFails
  <2>. QED  BY <1>5, <1>6, <2>1

\* A failure of the file writes a slice again at most once, so that what replay
\* counts twice is bounded by the failures, whatever was in flight.
THEOREM RepetitionBounded == Spec => []RepeatedOnlyByRetry
<1>1. Init => RetryInv
  <2>1. ASSUME Init, NEW s \in Nat
        PROVE  Cardinality(Occurrences(file, s)) = 0 /\ failures = 0
    <3>1. Occurrences(file, s) = {} /\ failures = 0
      BY <2>1 DEF Init, Occurrences
    <3>. QED  BY <3>1, FS_EmptySet
  <2>. QED  BY <2>1 DEF RetryInv
<1>2. IInv /\ RetryInv /\ [Next]_vars => RetryInv'
  <2>. SUFFICES ASSUME IInv, RetryInv, [Next]_vars PROVE RetryInv'
    OBVIOUS
  <2>1. CASE PushSlice
    BY <2>1, PushPreservesRetryInv
  <2>2. ASSUME NEW c \in Callers, (\E label \in Waiting : Call(c, label)) \/ Resume(c) \/ IOCompletes(c)
        PROVE  RetryInv'
    BY <2>2, StepPreservesRetryInv, AppendSucceedsPreservesRetryInv, AppendFailsPreservesRetryInv DEF IOCompletes
  <2>3. CASE UNCHANGED vars
    BY <2>3 DEF vars, memory, journal, lock, RetryInv, Occurrences, Owed, Behind, Appending
  <2>. QED  BY <2>1, <2>2, <2>3 DEF Next
<1>3. IInv /\ RetryInv => RepeatedOnlyByRetry
  <2>. SUFFICES ASSUME IInv, RetryInv, NEW s \in Slices
                PROVE  Cardinality({i \in 1 .. Len(file) : file[i] = s}) <= 1 + failures
    BY DEF RepeatedOnlyByRetry
  <2>1. s \in Nat /\ failures \in Nat
    BY DEF Slices, IInv, TypeOK
  <2>2. Cardinality(Occurrences(file, s)) <= failures + 1
    BY <2>1 DEF RetryInv
  <2>. QED  BY <2>1, <2>2 DEF Occurrences
<1>. QED  BY <1>1, <1>2, <1>3, Invariance, PTL DEF Spec
=============================================================================

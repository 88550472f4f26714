----------------------- MODULE SessionRecoveryProofs -----------------------
(***************************************************************************)
(* Proofs about SessionRecovery, for any length of time, any number of     *)
(* calls in flight, of crashes and of incidents: no tick is counted twice  *)
(* but for what a failed append wrote and rewrote, a crash costs only      *)
(* slices in memory and ticks without a slice, and a stop loses nothing,   *)
(* each unless one of the incidents that the property names has happened.  *)
(*                                                                         *)
(* The argument.  Which calls are in flight together, and what the session *)
(* is then, is Control.  Every data record, in memory, stored or carried   *)
(* by a call, is Past: nothing in it is from the future.  Filing says what *)
(* of the journal is in its file: a slice is there once, and no slice that *)
(* is to be written is, but for what failed appends have left.  A record   *)
(* is Clean when it counts no tick twice and neither a replay nor a        *)
(* compensation from it would.  What is lost depends on the order of the   *)
(* saves: the one that is served last decides what is stored, and Line     *)
(* says that each save, up to the one of the pause or of the end behind    *)
(* it, leaves data with which the next process restores what is owed.      *)
(***************************************************************************)
EXTENDS SessionRecovery, TLAPS, SequenceTheorems, FiniteSetTheorems, WellFoundedInduction

-----------------------------------------------------------------------------
(* Timing data.                                                            *)

Totals == [1 .. MaxTime -> Nat]

LEMMA Least ==
  ASSUME NEW T, T \subseteq Nat, T # {}
  PROVE  \E m \in T : \A k \in T : m <= k
<1>1. PICK m \in T : \A k \in T : ~(<<k, m>> \in OpToRel(<, Nat))
  BY NatLessThanWellFounded, WFMin, Zenon
<1>2. \A k \in T : ~(k < m)
  BY <1>1, Zenon DEF OpToRel
<1> QED BY <1>2

\* A set of times has a latest one.
LEMMA MaxIs ==
  ASSUME NEW b \in Nat, NEW S \in SUBSET (0 .. b), S # {}
  PROVE  Max(S) \in S /\ \A y \in S : Max(S) >= y
<1> DEFINE Ago == {b - m : m \in S}
<1>1. PICK d \in Ago : \A k \in Ago : d <= k
  <2>1. Ago \subseteq Nat /\ Ago # {}
    <3>1. \A m \in S : m \in Nat /\ m <= b
      OBVIOUS
    <3>2. \A m \in S : b - m \in Nat
      BY <3>1
    <3> QED BY <3>2
  <2> HIDE DEF Ago
  <2> QED BY <2>1, Least
<1>2. PICK x \in S : d = b - x
  BY <1>1
<1>3. \A y \in S : x >= y
  <2> TAKE y \in S
  <2>1. b - y \in Ago
    OBVIOUS
  <2> QED BY <1>1, <1>2, <2>1
<1> QED BY <1>3 DEF Max

LEMMA MaxOfTwo ==
  ASSUME NEW a \in Int, NEW b \in Int
  PROVE  /\ Max({a, b}) = IF a >= b THEN a ELSE b
         /\ Min({a, b}) = IF a <= b THEN a ELSE b
<1> DEFINE M == {a, b}
<1>1. \E x \in M : \A y \in M : x >= y
  <2>1. CASE a >= b
    BY <2>1
  <2>2. CASE ~(a >= b)
    BY <2>2
  <2> QED BY <2>1, <2>2
<1>2. Max(M) \in M /\ \A y \in M : Max(M) >= y
  <2> HIDE DEF M
  <2> QED BY <1>1 DEF Max
<1>3. \E x \in M : \A y \in M : x <= y
  <2>1. CASE a <= b
    BY <2>1
  <2>2. CASE ~(a <= b)
    BY <2>2
  <2> QED BY <2>1, <2>2
<1>4. Min(M) \in M /\ \A y \in M : Min(M) <= y
  <2> HIDE DEF M
  <2> QED BY <1>3 DEF Min
<1>5. /\ Max(M) \in {a, b} /\ Max(M) >= a /\ Max(M) >= b
      /\ Min(M) \in {a, b} /\ Min(M) <= a /\ Min(M) <= b
  BY <1>2, <1>4
<1> QED BY <1>5

LEMMA AddIs ==
  ASSUME NEW total \in Totals, NEW T
  PROVE  /\ Add(total, T) \in Totals
         /\ \A t \in 1 .. MaxTime : Add(total, T)[t] = IF t \in T THEN total[t] + 1 ELSE total[t]
         /\ Ticks(Add(total, T)) = Ticks(total) \union (T \intersect 1 .. MaxTime)
<1>1. /\ Add(total, T) \in Totals
      /\ \A t \in 1 .. MaxTime : Add(total, T)[t] = IF t \in T THEN total[t] + 1 ELSE total[t]
  BY DEF Add, Totals
<1>2. DOMAIN total = 1 .. MaxTime /\ DOMAIN Add(total, T) = 1 .. MaxTime
  BY <1>1 DEF Totals
<1>3. \A t \in 1 .. MaxTime : total[t] \in Nat
  BY DEF Totals
<1>4. \A t \in 1 .. MaxTime : Add(total, T)[t] > 0 <=> (total[t] > 0 \/ t \in T)
  BY <1>1, <1>3
<1>5. Ticks(Add(total, T)) = {t \in 1 .. MaxTime : total[t] > 0 \/ t \in T}
  BY <1>2, <1>4 DEF Ticks
<1>6. Ticks(total) = {t \in 1 .. MaxTime : total[t] > 0}
  BY <1>2 DEF Ticks
<1> QED BY <1>1, <1>5, <1>6

LEMMA TicksAre ==
  ASSUME NEW total \in Totals
  PROVE  Ticks(total) = {t \in 1 .. MaxTime : total[t] > 0}
  BY DEF Ticks, Totals

LEMMA PlusIs ==
  ASSUME NEW total \in Totals, NEW lines \in Totals
  PROVE  /\ Plus(total, lines) \in Totals
         /\ \A t \in 1 .. MaxTime : Plus(total, lines)[t] = total[t] + lines[t]
         /\ Ticks(Plus(total, lines)) = Ticks(total) \union Ticks(lines)
<1>1. \A t \in 1 .. MaxTime : total[t] \in Nat /\ lines[t] \in Nat
  BY DEF Totals
<1>2. DOMAIN total = 1 .. MaxTime
  BY DEF Totals
<1>3. /\ Plus(total, lines) \in Totals
      /\ \A t \in 1 .. MaxTime : Plus(total, lines)[t] = total[t] + lines[t]
  BY <1>1, <1>2 DEF Plus, Totals
<1>4. \A t \in 1 .. MaxTime : Plus(total, lines)[t] > 0 <=> (total[t] > 0 \/ lines[t] > 0)
  BY <1>1, <1>3
<1>5. /\ Ticks(Plus(total, lines)) = {t \in 1 .. MaxTime : Plus(total, lines)[t] > 0}
      /\ Ticks(total) = {t \in 1 .. MaxTime : total[t] > 0}
      /\ Ticks(lines) = {t \in 1 .. MaxTime : lines[t] > 0}
  BY <1>3, TicksAre
<1>6. Ticks(Plus(total, lines)) = Ticks(total) \union Ticks(lines)
  BY <1>4, <1>5
<1> QED BY <1>3, <1>6

LEMMA SinceIs ==
  ASSUME NEW lines \in Totals, NEW mark
  PROVE  /\ Since(lines, mark) \in Totals
         /\ \A t \in 1 .. MaxTime : Since(lines, mark)[t] = IF t > mark THEN lines[t] ELSE 0
         /\ Ticks(Since(lines, mark)) = {t \in Ticks(lines) : t > mark}
<1>1. /\ Since(lines, mark) \in Totals
      /\ \A t \in 1 .. MaxTime : Since(lines, mark)[t] = IF t > mark THEN lines[t] ELSE 0
  BY DEF Since, Totals
<1>2. /\ Ticks(Since(lines, mark)) = {t \in 1 .. MaxTime : Since(lines, mark)[t] > 0}
      /\ Ticks(lines) = {t \in 1 .. MaxTime : lines[t] > 0}
  BY <1>1, TicksAre
<1>3. \A t \in 1 .. MaxTime : Since(lines, mark)[t] > 0 <=> (t > mark /\ lines[t] > 0)
  BY <1>1
<1>4. Ticks(Since(lines, mark)) = {t \in Ticks(lines) : t > mark}
  BY <1>2, <1>3
<1> QED BY <1>1, <1>4

LEMMA Constants ==
  /\ MaxTime \in Nat \ {0} /\ MaxCalls \in Nat \ {0} /\ SleepTicks \in Nat \ {0} /\ SaveEvery \in Nat \ {0}
  /\ SleepGap \in Nat \ {0}
  /\ CompLimit \in Nat \ {0} /\ Midnights \subseteq Nat
  BY RecoveryAssumption

LEMMA NoTimeIs == NoTime \in Totals /\ Ticks(NoTime) = {} /\ \A t \in 1 .. MaxTime : NoTime[t] = 0
<1>1. NoTime \in Totals /\ \A t \in 1 .. MaxTime : NoTime[t] = 0
  BY DEF NoTime, Totals
<1> QED BY <1>1, TicksAre

LEMMA DataIs ==
  /\ Data = [total : Totals, start : 0 .. MaxTime, saved : -1 .. MaxTime, watermark : 0 .. MaxTime]
  /\ EmptyData \in Data /\ Missing \in Data
  /\ EmptyData.total = NoTime /\ EmptyData.start = 0 /\ EmptyData.watermark = 0 /\ EmptyData.saved = 0
  /\ Missing.total = NoTime /\ Missing.start = 0 /\ Missing.watermark = 0 /\ Missing.saved = -1
<1>1. Data = [total : Totals, start : 0 .. MaxTime, saved : -1 .. MaxTime, watermark : 0 .. MaxTime]
  BY DEF Data, Totals
<1>2. NoTime \in Totals /\ MaxTime \in Nat \ {0}
  BY NoTimeIs, Constants
<1>3. 0 \in 0 .. MaxTime /\ -1 \in -1 .. MaxTime /\ 0 \in -1 .. MaxTime
  BY <1>2
<1>4. EmptyData \in Data
  BY <1>1, <1>2, <1>3 DEF EmptyData
<1>5. Missing = [total |-> NoTime, start |-> 0, saved |-> -1, watermark |-> 0]
  BY DEF Missing, EmptyData
<1>6. Missing \in Data
  BY <1>1, <1>2, <1>3, <1>5
<1> QED BY <1>1, <1>4, <1>5, <1>6 DEF EmptyData

\* The session that ends enters the total.
LEMMA SealedIs ==
  ASSUME NEW d \in Data, NEW end \in 0 .. MaxTime, NEW start \in 0 .. MaxTime
  PROVE  /\ Sealed(d, end, start) \in Data
         /\ Sealed(d, end, start).total = Add(d.total, Span(d.start, end))
         /\ Sealed(d, end, start).start = start
         /\ Sealed(d, end, start).saved = IF start > 0 THEN start ELSE d.saved
         /\ Sealed(d, end, start).watermark = d.watermark
<1>1. /\ Data = [total : Totals, start : 0 .. MaxTime, saved : -1 .. MaxTime, watermark : 0 .. MaxTime]
      /\ MaxTime \in Nat
  BY DataIs, Constants
<1>2. /\ d.total \in Totals /\ d.start \in 0 .. MaxTime /\ d.saved \in -1 .. MaxTime
      /\ d.watermark \in 0 .. MaxTime
      /\ DOMAIN d = {"total", "start", "saved", "watermark"}
  BY <1>1
<1>3. Add(d.total, Span(d.start, end)) \in Totals
  BY <1>2, AddIs
<1>4. Sealed(d, end, start) = [d EXCEPT !.total = Add(d.total, Span(d.start, end)), !.start = start,
                                        !.saved = IF start > 0 THEN start ELSE d.saved]
  BY DEF Sealed
<1>5. (IF start > 0 THEN start ELSE d.saved) \in -1 .. MaxTime
  BY <1>1, <1>2
<1> HIDE DEF Data
<1> DEFINE saved == IF start > 0 THEN start ELSE d.saved
<1> HIDE DEF saved
<1>6. Sealed(d, end, start) = [d EXCEPT !.total = Add(d.total, Span(d.start, end)), !.start = start,
                                        !.saved = saved]
  BY <1>4 DEF saved
<1>7. saved \in -1 .. MaxTime
  BY <1>5 DEF saved
<1>8. /\ Sealed(d, end, start) \in Data
      /\ Sealed(d, end, start).total = Add(d.total, Span(d.start, end))
      /\ Sealed(d, end, start).start = start
      /\ Sealed(d, end, start).saved = saved
      /\ Sealed(d, end, start).watermark = d.watermark
  BY <1>1, <1>3, <1>6, <1>7
<1> QED BY <1>8 DEF saved

-----------------------------------------------------------------------------
(* The calls, as a queue: what leaves it keeps the order of the others, and  *)
(* what is issued goes to its end.                                           *)

Kinds == {"start", "end", "pause", "resume", "checkpoint", "save", "rotate", "wake"}

\* What a call of a kind may have yet to do.
SaveShapes == {<<"primary">>, <<"backup">>}
StartShapes == {<<"read", "clear", "primary">>, <<"clear", "primary">>} \union SaveShapes
EndShapes == {<<"settle", "flush">>, <<"flush">>, <<"primary", "truncate">>,
              <<"backup", "truncate">>, <<"truncate">>}
PauseShapes == {<<"truncate">>} \union SaveShapes
Shapes == StartShapes \union EndShapes

CallRecords ==
  {c \in [kind : Kinds, todo : Shapes, data : Data, force : BOOLEAN] :
     /\ c.force = (c.kind \in {"start", "end"})
     /\ c.kind = "start" => c.todo \in StartShapes
     /\ c.kind = "end" => c.todo \in EndShapes
     /\ c.kind = "pause" => c.todo \in PauseShapes
     /\ c.kind \notin {"start", "end", "pause"} => c.todo \in SaveShapes}

\* The first of the operations and the others.
LEMMA ShapesAre ==
  /\ Head(<<"read", "clear", "primary">>) = "read"
  /\ Tail(<<"read", "clear", "primary">>) = <<"clear", "primary">>
  /\ Head(<<"clear", "primary">>) = "clear" /\ Tail(<<"clear", "primary">>) = <<"primary">>
  /\ Head(<<"primary">>) = "primary" /\ Tail(<<"primary">>) = <<>>
  /\ Head(<<"backup">>) = "backup" /\ Tail(<<"backup">>) = <<>>
  /\ Head(<<"settle", "flush">>) = "settle" /\ Tail(<<"settle", "flush">>) = <<"flush">>
  /\ Head(<<"flush">>) = "flush"
  /\ Head(<<"primary", "truncate">>) = "primary" /\ Tail(<<"primary", "truncate">>) = <<"truncate">>
  /\ Head(<<"backup", "truncate">>) = "backup" /\ Tail(<<"backup", "truncate">>) = <<"truncate">>
  /\ Head(<<"truncate">>) = "truncate"
  /\ <<"backup">> \o <<>> = <<"backup">>
  /\ <<"backup">> \o <<"truncate">> = <<"backup", "truncate">>
  /\ <<"backup">> # <<>> /\ <<"truncate">> # <<>> /\ <<"primary">> # <<>> /\ <<"flush">> # <<>>
  /\ <<"clear", "primary">> # <<>> /\ <<"backup", "truncate">> # <<>>
<1>1. /\ Head(<<"read", "clear", "primary">>) = "read"
      /\ Tail(<<"read", "clear", "primary">>) = <<"clear", "primary">>
      /\ Head(<<"clear", "primary">>) = "clear" /\ Tail(<<"clear", "primary">>) = <<"primary">>
      /\ Head(<<"primary">>) = "primary" /\ Tail(<<"primary">>) = <<>>
      /\ Head(<<"backup">>) = "backup" /\ Tail(<<"backup">>) = <<>>
  OBVIOUS
<1>2. /\ Head(<<"settle", "flush">>) = "settle" /\ Tail(<<"settle", "flush">>) = <<"flush">>
      /\ Head(<<"flush">>) = "flush"
      /\ Head(<<"primary", "truncate">>) = "primary" /\ Tail(<<"primary", "truncate">>) = <<"truncate">>
      /\ Head(<<"backup", "truncate">>) = "backup" /\ Tail(<<"backup", "truncate">>) = <<"truncate">>
      /\ Head(<<"truncate">>) = "truncate"
  OBVIOUS
<1>3. <<"backup">> \o <<>> = <<"backup">>
  OBVIOUS
<1>4. <<"backup">> \o <<"truncate">> = <<"backup", "truncate">>
  <2> DEFINE p == <<"backup">>  q == <<"truncate">>  r == <<"backup", "truncate">>
  <2>1. /\ p \in Seq({"backup", "truncate"}) /\ q \in Seq({"backup", "truncate"})
        /\ r \in Seq({"backup", "truncate"}) /\ Len(p) = 1 /\ Len(q) = 1 /\ Len(r) = 2
        /\ p[1] = "backup" /\ q[1] = "truncate" /\ r[1] = "backup" /\ r[2] = "truncate"
    OBVIOUS
  <2> HIDE DEF p, q, r
  <2>2. /\ p \o q \in Seq({"backup", "truncate"}) /\ Len(p \o q) = 2
        /\ (p \o q)[1] = r[1] /\ (p \o q)[2] = r[2]
    <3>1. /\ p \o q \in Seq({"backup", "truncate"}) /\ Len(p \o q) = Len(p) + Len(q)
          /\ \A i \in 1 .. Len(p) + Len(q) :
               (p \o q)[i] = IF i <= Len(p) THEN p[i] ELSE q[i - Len(p)]
      BY <2>1, ConcatProperties, Zenon
    <3>2. \A i \in 1 .. 2 : (p \o q)[i] = IF i <= 1 THEN p[i] ELSE q[i - 1]
      BY <2>1, <3>1
    <3> QED BY <2>1, <3>1, <3>2
  <2>3. \A k \in 1 .. 2 : (p \o q)[k] = r[k]
    <3>1. \A k \in 1 .. 2 : k = 1 \/ k = 2
      OBVIOUS
    <3> QED BY <2>2, <3>1
  <2>4. p \o q = r
    BY <2>1, <2>2, <2>3, SeqEqual
  <2> QED BY <2>4 DEF p, q, r
<1>5. /\ <<"backup">> # <<>> /\ <<"truncate">> # <<>> /\ <<"primary">> # <<>> /\ <<"flush">> # <<>>
      /\ <<"clear", "primary">> # <<>> /\ <<"backup", "truncate">> # <<>>
  OBVIOUS
<1> QED BY <1>1, <1>2, <1>3, <1>4, <1>5

\* What a call that is at an operation is, and what it has yet to do.
LEMMA Stage ==
  ASSUME NEW c \in CallRecords
  PROVE  /\ c.kind \in Kinds /\ c.data \in Data /\ c.todo # <<>>
         /\ c.force = (c.kind \in {"start", "end"})
         /\ Head(c.todo) = "read" => c.kind = "start" /\ Tail(c.todo) = <<"clear", "primary">>
         /\ Head(c.todo) = "clear" => c.kind = "start" /\ Tail(c.todo) = <<"primary">>
         /\ Head(c.todo) \in {"primary", "backup"} =>
              \/ c.kind # "end" /\ Tail(c.todo) = <<>>
              \/ c.kind = "end" /\ Tail(c.todo) = <<"truncate">>
         /\ Head(c.todo) = "truncate" => c.kind \in {"end", "pause"}
         /\ Head(c.todo) \in {"settle", "flush"} => c.kind = "end"
         /\ Head(c.todo) = "settle" => Tail(c.todo) = <<"flush">>
         /\ Head(c.todo) \in {"read", "clear", "primary", "backup", "truncate", "settle", "flush"}
<1>1. /\ c.kind \in Kinds /\ c.data \in Data /\ c.todo \in Shapes
      /\ c.force = (c.kind \in {"start", "end"})
      /\ c.kind = "start" => c.todo \in StartShapes
      /\ c.kind = "end" => c.todo \in EndShapes
      /\ c.kind = "pause" => c.todo \in PauseShapes
      /\ c.kind \notin {"start", "end", "pause"} => c.todo \in SaveShapes
  BY DEF CallRecords
<1> DEFINE op == Head(c.todo)
           rest == Tail(c.todo)
<1>2. c.todo \in StartShapes =>
        /\ c.todo # <<>> /\ op \in {"read", "clear", "primary", "backup"}
        /\ op = "read" => rest = <<"clear", "primary">>
        /\ op = "clear" => rest = <<"primary">>
        /\ op \in {"primary", "backup"} => rest = <<>>
  <2>1. c.todo = <<"read", "clear", "primary">> =>
          c.todo # <<>> /\ op = "read" /\ rest = <<"clear", "primary">>
    BY ShapesAre
  <2>2. c.todo = <<"clear", "primary">> => c.todo # <<>> /\ op = "clear" /\ rest = <<"primary">>
    BY ShapesAre
  <2>3. c.todo = <<"primary">> => c.todo # <<>> /\ op = "primary" /\ rest = <<>>
    BY ShapesAre
  <2>4. c.todo = <<"backup">> => c.todo # <<>> /\ op = "backup" /\ rest = <<>>
    BY ShapesAre
  <2> HIDE DEF op, rest
  <2> QED BY <2>1, <2>2, <2>3, <2>4 DEF StartShapes, SaveShapes
<1>3. c.todo \in EndShapes =>
        /\ c.todo # <<>> /\ op \in {"settle", "flush", "primary", "backup", "truncate"}
        /\ op = "settle" => rest = <<"flush">>
        /\ op \in {"primary", "backup"} => rest = <<"truncate">>
  <2>1. c.todo = <<"settle", "flush">> => c.todo # <<>> /\ op = "settle" /\ rest = <<"flush">>
    BY ShapesAre
  <2>2. c.todo = <<"flush">> => c.todo # <<>> /\ op = "flush"
    BY ShapesAre
  <2>3. c.todo = <<"primary", "truncate">> => c.todo # <<>> /\ op = "primary" /\ rest = <<"truncate">>
    BY ShapesAre
  <2>4. c.todo = <<"backup", "truncate">> => c.todo # <<>> /\ op = "backup" /\ rest = <<"truncate">>
    BY ShapesAre
  <2>5. c.todo = <<"truncate">> => c.todo # <<>> /\ op = "truncate"
    BY ShapesAre
  <2> HIDE DEF op, rest
  <2> QED BY <2>1, <2>2, <2>3, <2>4, <2>5 DEF EndShapes
<1>4. c.todo \in SaveShapes => c.todo # <<>> /\ op \in {"primary", "backup"} /\ rest = <<>>
  BY ShapesAre, Zenon DEF SaveShapes
<1>5. c.todo \in PauseShapes =>
        /\ c.todo # <<>> /\ op \in {"truncate", "primary", "backup"}
        /\ op \in {"primary", "backup"} => rest = <<>>
  BY <1>4, ShapesAre, Zenon DEF PauseShapes
<1> HIDE DEF op, rest
<1>6. CASE c.kind = "start"
  BY <1>1, <1>2, <1>6 DEF op, rest
<1>7. CASE c.kind = "end"
  BY <1>1, <1>3, <1>7 DEF op, rest
<1>8. CASE c.kind = "pause"
  BY <1>1, <1>5, <1>8 DEF op, rest
<1>9. CASE c.kind \notin {"start", "end", "pause"}
  BY <1>1, <1>4, <1>9 DEF op, rest
<1> QED BY <1>6, <1>7, <1>8, <1>9

Members(q) == {q[i] : i \in DOMAIN q}

\* Where what is k-th after the i-th has left was before.
Place(i, k) == IF k < i THEN k ELSE k + 1

LEMMA RemovedIs ==
  ASSUME NEW S, NEW q \in Seq(S), NEW i \in DOMAIN q
  PROVE  /\ RemoveAt(q, i) \in Seq(S) /\ Len(RemoveAt(q, i)) = Len(q) - 1
         /\ \A k \in DOMAIN RemoveAt(q, i) :
              /\ Place(i, k) \in DOMAIN q \ {i} /\ RemoveAt(q, i)[k] = q[Place(i, k)]
         /\ \A j \in DOMAIN q \ {i} :
              \E k \in DOMAIN RemoveAt(q, i) : Place(i, k) = j
<1>1. DOMAIN q = 1 .. Len(q) /\ Len(q) \in Nat /\ i \in 1 .. Len(q)
  OBVIOUS
<1> DEFINE r == RemoveAt(q, i)
<1>2. /\ r \in Seq(S) /\ Len(r) = Len(q) - 1
      /\ \A k \in 1 .. Len(q) - 1 : r[k] = q[Place(i, k)]
  <2> DEFINE a == SubSeq(q, 1, i - 1)
             z == SubSeq(q, i + 1, Len(q))
  <2>1. a \in Seq(S) /\ Len(a) = i - 1 /\ \A k \in 1 .. i - 1 : a[k] = q[k]
    <3>1. a \in Seq(S)
      BY <1>1
    <3>2. Len(a) = i - 1
      BY <1>1
    <3>3. \A k \in 1 .. i - 1 : a[k] = q[k]
      BY <1>1
    <3> QED BY <3>1, <3>2, <3>3
  <2>2. z \in Seq(S) /\ Len(z) = Len(q) - i /\ \A k \in 1 .. Len(q) - i : z[k] = q[i + k]
    <3>1. z \in Seq(S)
      BY <1>1
    <3>2. Len(z) = Len(q) - i
      BY <1>1
    <3>3. \A k \in 1 .. Len(q) - i : z[k] = q[i + k]
      BY <1>1
    <3> QED BY <3>1, <3>2, <3>3
  <2>3. r = a \o z
    BY DEF RemoveAt
  <2> HIDE DEF a, z, r
  <2>4. /\ r \in Seq(S) /\ Len(r) = Len(a) + Len(z)
        /\ \A k \in 1 .. Len(a) : r[k] = a[k]
        /\ \A k \in 1 .. Len(z) : r[Len(a) + k] = z[k]
    <3>1. /\ r \in Seq(S) /\ Len(r) = Len(a) + Len(z)
          /\ \A k \in 1 .. Len(a) + Len(z) : r[k] = IF k <= Len(a) THEN a[k] ELSE z[k - Len(a)]
      BY <2>1, <2>2, <2>3, ConcatProperties, Zenon
    <3>2. Len(a) \in Nat /\ Len(z) \in Nat
      BY <2>1, <2>2
    <3>3. \A k \in 1 .. Len(a) : r[k] = a[k]
      BY <3>1, <3>2
    <3>4. ASSUME NEW k \in 1 .. Len(z)  PROVE r[Len(a) + k] = z[k]
      <4>1. /\ Len(a) + k \in 1 .. Len(a) + Len(z) /\ ~(Len(a) + k <= Len(a))
            /\ (Len(a) + k) - Len(a) = k
        BY <3>2
      <4> QED BY <3>1, <4>1
    <3> QED BY <3>1, <3>3, <3>4
  <2>5. ASSUME NEW k \in 1 .. Len(q) - 1  PROVE r[k] = q[Place(i, k)]
    <3>1. CASE k < i
      <4>1. k \in 1 .. i - 1 /\ Place(i, k) = k
        BY <1>1, <3>1 DEF Place
      <4> QED BY <2>1, <2>4, <4>1
    <3>2. CASE ~(k < i)
      <4> DEFINE n == k - (i - 1)
      <4>1. n \in 1 .. Len(q) - i /\ k = (i - 1) + n /\ i + n = k + 1 /\ Place(i, k) = k + 1
        BY <1>1, <3>2 DEF Place
      <4> HIDE DEF n
      <4> QED BY <2>1, <2>2, <2>4, <4>1
    <3> QED BY <3>1, <3>2
  <2>6. Len(r) = Len(q) - 1
    BY <1>1, <2>1, <2>2, <2>4
  <2> QED BY <2>4, <2>5, <2>6
<1>3. DOMAIN r = 1 .. Len(q) - 1
  BY <1>2
<1>4. \A k \in 1 .. Len(q) - 1 : Place(i, k) \in 1 .. Len(q) /\ Place(i, k) # i
  BY <1>1 DEF Place
<1>5. \A j \in 1 .. Len(q) : j # i => \E k \in 1 .. Len(q) - 1 : Place(i, k) = j
  <2> TAKE j \in 1 .. Len(q)
  <2> HAVE j # i
  <2>1. CASE j < i
    <3>1. j \in 1 .. Len(q) - 1 /\ Place(i, j) = j
      BY <1>1, <2>1 DEF Place
    <3> QED BY <3>1
  <2>2. CASE ~(j < i)
    <3>1. j - 1 \in 1 .. Len(q) - 1 /\ Place(i, j - 1) = j
      BY <1>1, <2>2 DEF Place
    <3> QED BY <3>1
  <2> QED BY <2>1, <2>2
<1> HIDE DEF r
<1>6. /\ \A k \in DOMAIN r : Place(i, k) \in DOMAIN q \ {i} /\ r[k] = q[Place(i, k)]
      /\ \A j \in DOMAIN q \ {i} : \E k \in DOMAIN r : Place(i, k) = j
  BY <1>1, <1>2, <1>3, <1>4, <1>5
<1> QED BY <1>2, <1>6 DEF r

LEMMA IssuedIs ==
  ASSUME NEW S, NEW q \in Seq(S), NEW c \in S
  PROVE  /\ Append(q, c) \in Seq(S) /\ Len(Append(q, c)) = Len(q) + 1
         /\ \A k \in DOMAIN q : k \in DOMAIN Append(q, c) /\ Append(q, c)[k] = q[k]
         /\ Append(q, c)[Len(q) + 1] = c
         /\ DOMAIN Append(q, c) = DOMAIN q \union {Len(q) + 1}
         /\ \A k \in DOMAIN q : k \in Nat /\ k < Len(q) + 1
  OBVIOUS

LEMMA MembersOfRest ==
  ASSUME NEW S, NEW q \in Seq(S), NEW i \in DOMAIN q
  PROVE  Members(RemoveAt(q, i)) \subseteq Members(q) /\ Members(q) \subseteq S
<1>1. \A k \in DOMAIN RemoveAt(q, i) : RemoveAt(q, i)[k] \in Members(q)
  BY RemovedIs DEF Members
<1>2. \A k \in DOMAIN q : q[k] \in S
  OBVIOUS
<1> QED BY <1>1, <1>2 DEF Members

LEMMA MembersWith ==
  ASSUME NEW S, NEW q \in Seq(S), NEW c \in S
  PROVE  Members(Append(q, c)) = Members(q) \union {c}
<1> DEFINE r == Append(q, c)
<1>1. /\ \A k \in DOMAIN q : k \in DOMAIN r /\ r[k] = q[k]
      /\ r[Len(q) + 1] = c /\ DOMAIN r = DOMAIN q \union {Len(q) + 1}
  BY IssuedIs
<1> HIDE DEF r
<1>2. {r[k] : k \in DOMAIN r} = {q[k] : k \in DOMAIN q} \union {c}
  BY <1>1
<1> QED BY <1>2 DEF Members, r

\* At most one call of a kind is in flight.
Single(q, kind) == \A i, j \in DOMAIN q : q[i].kind = kind /\ q[j].kind = kind => i = j

LEMMA SingleRest ==
  ASSUME NEW S, NEW q \in Seq(S), NEW i \in DOMAIN q, NEW kind, Single(q, kind)
  PROVE  /\ Single(RemoveAt(q, i), kind)
         /\ q[i].kind = kind => \A c \in Members(RemoveAt(q, i)) : c.kind # kind
<1> DEFINE r == RemoveAt(q, i)
<1>1. \A k \in DOMAIN r : Place(i, k) \in DOMAIN q \ {i} /\ r[k] = q[Place(i, k)]
  BY RemovedIs
<1>2. \A k, l \in DOMAIN r : Place(i, k) = Place(i, l) => k = l
  <2>1. r \in Seq(S) /\ i \in Nat
    BY RemovedIs
  <2>2. \A k \in DOMAIN r : k \in Nat
    BY <2>1
  <2> HIDE DEF r
  <2>3. \A k, l \in Nat : Place(i, k) = Place(i, l) => k = l
    BY <2>1 DEF Place
  <2> QED BY <2>2, <2>3
<1> HIDE DEF r
<1>3. Single(r, kind)
  BY <1>1, <1>2 DEF Single
<1>4. q[i].kind = kind => \A k \in DOMAIN r : r[k].kind # kind
  BY <1>1 DEF Single
<1>5. Members(r) = {r[k] : k \in DOMAIN r}
  BY DEF Members
<1> QED BY <1>3, <1>4, <1>5 DEF r

LEMMA SingleWith ==
  ASSUME NEW S, NEW q \in Seq(S), NEW c \in S, NEW kind, Single(q, kind),
         c.kind = kind => \A e \in Members(q) : e.kind # kind
  PROVE  Single(Append(q, c), kind)
<1> DEFINE r == Append(q, c)
           n == Len(q) + 1
<1>1. /\ \A k \in DOMAIN q : r[k] = q[k]
      /\ r[n] = c /\ DOMAIN r = DOMAIN q \union {n}
  BY IssuedIs
<1>2. \A k \in DOMAIN q : c.kind = kind => q[k].kind # kind
  BY DEF Members
<1> HIDE DEF r, n
<1>3. Single(r, kind)
  BY <1>1, <1>2 DEF Single
<1> QED BY <1>3 DEF r

-----------------------------------------------------------------------------
(* The types.                                                              *)

\* The journal: what its file returns, and how it changes.
Filed == Ticks(Lines)
Journaled ==
  /\ buffer \in SUBSET (1 .. now) /\ rewritten \in SUBSET (1 .. now)
  /\ uncovered \in SUBSET (1 .. MaxTime)
  /\ file \in Totals /\ Ticks(file) \in SUBSET (1 .. now) /\ openLine \in SUBSET (0 .. now)

Mems == [data : Data, running : BOOLEAN, paused : BOOLEAN, active : BOOLEAN]

Typed ==
  /\ now \in 1 .. MaxTime /\ lastTick \in 1 .. now /\ lastSave \in 1 .. now
  /\ state \in {"down", "stopped", "running", "paused_idle"}
  /\ beatDue \in BOOLEAN /\ ticking \in BOOLEAN /\ mem \in Mems
  /\ Journaled
  /\ disk \in [primary : Data, backup : Data] /\ backupCount \in 0 .. 2
  /\ calls \in Seq(CallRecords)

\* The fields of timing data.
LEMMA FieldsAre ==
  ASSUME NEW d \in Data
  PROVE  d.total \in Totals /\ d.start \in 0 .. MaxTime /\ d.saved \in -1 .. MaxTime /\ d.watermark \in 0 .. MaxTime
  BY DataIs

LEMMA StampedIs ==
  ASSUME NEW d \in Data, now \in 1 .. MaxTime
  PROVE  /\ Stamped(d) \in Data
         /\ Stamped(d).total = d.total /\ Stamped(d).start = d.start /\ Stamped(d).saved = now
         /\ Stamped(d).watermark = d.watermark
<1>1. now \in -1 .. MaxTime
  BY Constants
<1> QED BY <1>1, DataIs DEF Stamped

LEMMA JournalIs ==
  ASSUME Journaled, now \in 1 .. MaxTime
  PROVE  /\ Lines \in Totals
         /\ \A t \in 1 .. MaxTime : Lines[t] = IF t \in openLine THEN file[t] + 1 ELSE file[t]
         /\ Filed = Ticks(file) \union (openLine \intersect 1 .. MaxTime)
         /\ Filed \subseteq 1 .. now /\ Slices = buffer \union Filed /\ Slices \subseteq 1 .. now
<1>1. /\ Lines \in Totals
      /\ \A t \in 1 .. MaxTime : Lines[t] = IF t \in openLine THEN file[t] + 1 ELSE file[t]
      /\ Filed = Ticks(file) \union (openLine \intersect 1 .. MaxTime)
  BY AddIs DEF Journaled, Lines, Filed
<1>2. openLine \intersect 1 .. MaxTime \subseteq 1 .. now
  BY Constants DEF Journaled
<1>3. Filed \subseteq 1 .. now
  BY <1>1, <1>2 DEF Journaled
<1>4. Slices = buffer \union Filed /\ Slices \subseteq 1 .. now
  BY <1>3 DEF Slices, Filed, Journaled
<1> QED BY <1>1, <1>3, <1>4

Replay(d) == {t \in Filed : t > d.watermark}

\* What a replay makes of the total: it adds every line.
Played(d, total) ==
  /\ total \in Totals /\ Ticks(total) = Ticks(d.total) \union Replay(d)
  /\ \A t \in 1 .. MaxTime : total[t] = d.total[t] + (IF t \in Replay(d) THEN Lines[t] ELSE 0)

LEMMA PlayedIs ==
  ASSUME NEW d \in Data, now \in 1 .. MaxTime, Journaled
  PROVE  /\ Played(d, Plus(d.total, Since(Lines, d.watermark)))
         /\ Ticks(Since(Lines, d.watermark)) = Replay(d)
<1> DEFINE lines == Since(Lines, d.watermark)
           total == Plus(d.total, lines)
<1>1. /\ Lines \in Totals /\ d.total \in Totals
      /\ Filed = {t \in 1 .. MaxTime : Lines[t] > 0}
      /\ \A t \in 1 .. MaxTime : Lines[t] \in Nat /\ d.total[t] \in Nat
  <2>1. Lines \in Totals /\ d.total \in Totals
    BY JournalIs, FieldsAre
  <2> QED BY <2>1, TicksAre DEF Filed, Totals
<1>2. /\ lines \in Totals /\ Ticks(lines) = Replay(d)
      /\ \A t \in 1 .. MaxTime : lines[t] = IF t > d.watermark THEN Lines[t] ELSE 0
  BY <1>1, SinceIs DEF Replay, Filed
<1> HIDE DEF lines
<1>3. /\ total \in Totals /\ Ticks(total) = Ticks(d.total) \union Replay(d)
      /\ \A t \in 1 .. MaxTime : total[t] = d.total[t] + lines[t]
  BY <1>1, <1>2, PlusIs
<1>4. \A t \in 1 .. MaxTime : lines[t] = IF t \in Replay(d) THEN Lines[t] ELSE 0
  <2> TAKE t \in 1 .. MaxTime
  <2>1. t \in Replay(d) <=> Lines[t] > 0 /\ t > d.watermark
    BY <1>1 DEF Replay
  <2>2. Lines[t] \in Nat /\ lines[t] = IF t > d.watermark THEN Lines[t] ELSE 0
    BY <1>1, <1>2
  <2>3. CASE Lines[t] > 0
    BY <2>1, <2>2, <2>3
  <2>4. CASE Lines[t] = 0
    BY <2>1, <2>2, <2>4
  <2> QED BY <2>2, <2>3, <2>4
<1> HIDE DEF total
<1>5. Played(d, total)
  BY <1>3, <1>4 DEF Played
<1> QED BY <1>2, <1>5 DEF total, lines

LEMMA ReplayedIs ==
  ASSUME NEW d \in Data, now \in 1 .. MaxTime, Journaled
  PROVE  /\ Replayed(d) \in Data
         /\ Replayed(d).start = d.start /\ Replayed(d).saved = d.saved
         /\ Replay(d) = {} => Replayed(d) = d
         /\ Replay(d) # {} =>
              /\ Played(d, Replayed(d).total)
              /\ Replayed(d).watermark \in Replay(d)
              /\ \A t \in Replay(d) : t <= Replayed(d).watermark
              /\ Replayed(d) # d
<1> DEFINE total == Plus(d.total, Since(Lines, d.watermark))
<1>0. Played(d, total) /\ Ticks(Since(Lines, d.watermark)) = Replay(d)
  BY PlayedIs
<1>1. CASE Replay(d) = {}
  BY <1>0, <1>1 DEF Replayed
<1>2. CASE Replay(d) # {}
  <2> DEFINE r == Replay(d)
  <2>1. Replayed(d) = [d EXCEPT !.total = total, !.watermark = Max(r)]
    BY <1>0, <1>2 DEF Replayed
  <2>2. r \in SUBSET (0 .. MaxTime) /\ MaxTime \in Nat /\ \A t \in r : t \in Nat /\ t > d.watermark
    <3>1. MaxTime \in Nat /\ now \in Nat /\ now <= MaxTime /\ \A t \in Filed : t \in 1 .. now
      BY Constants, JournalIs
    <3>2. \A t \in r : t \in 1 .. now /\ t > d.watermark
      BY <3>1 DEF Replay
    <3> HIDE DEF r
    <3>3. \A t \in r : t \in 0 .. MaxTime /\ t \in Nat
      BY <3>1, <3>2
    <3> QED BY <3>1, <3>2, <3>3
  <2> HIDE DEF r, total
  <2>3. Max(r) \in r /\ \A t \in r : Max(r) >= t
    BY <1>2, <2>2, MaxIs DEF r
  <2>4. total \in Totals
    BY <1>0 DEF Played
  <2>5. Max(r) \in 0 .. MaxTime
    BY <2>2, <2>3
  <2>6. /\ Replayed(d) \in Data
        /\ Replayed(d).total = total /\ Replayed(d).start = d.start
        /\ Replayed(d).saved = d.saved /\ Replayed(d).watermark = Max(r)
    BY <2>1, <2>4, <2>5, DataIs
  <2>7. d.watermark \in Nat /\ Max(r) > d.watermark
    <3>1. d.watermark \in 0 .. MaxTime
      BY FieldsAre
    <3>2. d.watermark \in Nat
      BY <3>1, Constants
    <3> QED BY <2>2, <2>3, <3>2
  <2>8. \A t \in r : t <= Max(r)
    BY <2>2, <2>3
  <2>9. Replayed(d) # d
    BY <2>6, <2>7, Constants
  <2> QED BY <1>0, <1>2, <2>3, <2>6, <2>8, <2>9 DEF r
<1> QED BY <1>1, <1>2

\* How far the compensation of an unfinished session goes.
Compensation(d) == Min({now, Max({d.saved, d.start}) + CompLimit})

LEMMA CompensationIs ==
  ASSUME NEW d \in Data, now \in 1 .. MaxTime
  PROVE  /\ Compensation(d) \in Int /\ Compensation(d) <= now
         /\ Compensation(d) = now \/ Compensation(d) > d.saved
<1>1. d.saved \in Int /\ d.start \in Int /\ CompLimit \in Int /\ CompLimit > 0 /\ now \in Int
  BY FieldsAre, Constants
<1>2. PICK m : m = Max({d.saved, d.start})
  OBVIOUS
<1>3. m = IF d.saved >= d.start THEN d.saved ELSE d.start
  BY <1>1, <1>2, MaxOfTwo
<1>4. m \in Int /\ m >= d.saved
  BY <1>1, <1>3
<1>5. Compensation(d) = IF now <= m + CompLimit THEN now ELSE m + CompLimit
  <2>1. m + CompLimit \in Int
    BY <1>1, <1>4
  <2>2. Compensation(d) = Min({now, m + CompLimit})
    BY <1>2 DEF Compensation
  <2> QED BY <1>1, <2>1, <2>2, MaxOfTwo
<1> QED BY <1>1, <1>4, <1>5

\* What recovery makes of what it has loaded.
LEMMA RecoveredIs ==
  ASSUME NEW d \in Data, now \in 1 .. MaxTime, Journaled
  PROVE  /\ Recovered(d) \in Data
         /\ Recovered(d).start = 0 /\ Recovered(d).saved = d.saved
         /\ Replay(d) # {} =>
              /\ Played(d, Recovered(d).total)
              /\ Recovered(d).watermark \in Replay(d)
              /\ \A t \in Replay(d) : t <= Recovered(d).watermark
         /\ Replay(d) = {} =>
              /\ Recovered(d).watermark = d.watermark
              /\ Recovered(d).total = IF d.start > 0 THEN Add(d.total, Span(d.start, Compensation(d))) ELSE d.total
<1> DEFINE rep == Replayed(d)
<1>1. /\ rep \in Data /\ rep.start = d.start /\ rep.saved = d.saved
      /\ Replay(d) = {} => rep = d
      /\ Replay(d) # {} =>
           /\ Played(d, rep.total) /\ rep.watermark \in Replay(d)
           /\ \A t \in Replay(d) : t <= rep.watermark
           /\ rep # d
  BY ReplayedIs
<1>2. Recovered(d) = [(IF rep = d THEN Compensated(d) ELSE rep) EXCEPT !.start = 0]
  BY DEF Recovered
<1> HIDE DEF rep
<1>3. 0 \in 0 .. MaxTime
  BY Constants
<1>4. CASE Replay(d) # {}
  <2>1. Recovered(d) = [rep EXCEPT !.start = 0]
    BY <1>1, <1>2, <1>4
  <2>2. /\ Recovered(d) \in Data /\ Recovered(d).start = 0 /\ Recovered(d).saved = rep.saved
        /\ Recovered(d).total = rep.total /\ Recovered(d).watermark = rep.watermark
    BY <1>1, <1>3, <2>1, DataIs
  <2> QED BY <1>1, <1>4, <2>2
<1>5. CASE Replay(d) = {}
  <2> DEFINE total == IF d.start > 0 THEN Add(d.total, Span(d.start, Compensation(d))) ELSE d.total
  <2>1. total \in Totals
    BY FieldsAre, AddIs
  <2>2. /\ Compensated(d) \in Data /\ Compensated(d).total = total
        /\ Compensated(d).saved = d.saved /\ Compensated(d).watermark = d.watermark
    <3>1. CASE d.start > 0
      <4>1. Compensated(d) = [d EXCEPT !.total = total]
        BY <3>1 DEF Compensated, Compensation
      <4> HIDE DEF total
      <4> QED BY <2>1, <4>1, DataIs
    <3>2. CASE ~(d.start > 0)
      BY <3>2 DEF Compensated
    <3> QED BY <3>1, <3>2
  <2> HIDE DEF total
  <2>3. Recovered(d) = [Compensated(d) EXCEPT !.start = 0]
    BY <1>1, <1>2, <1>5
  <2>4. /\ Recovered(d) \in Data /\ Recovered(d).start = 0 /\ Recovered(d).saved = d.saved
        /\ Recovered(d).total = total /\ Recovered(d).watermark = d.watermark
    BY <1>3, <2>2, <2>3, DataIs
  <2> QED BY <1>5, <2>4 DEF total
<1> QED BY <1>4, <1>5

LEMMA DiskIs ==
  ASSUME disk \in [primary : Data, backup : Data]
  PROVE  /\ disk.primary \in Data /\ disk.backup \in Data /\ Loaded \in Data
         /\ \A d \in Data : /\ [disk EXCEPT !.primary = d] \in [primary : Data, backup : Data]
                            /\ [disk EXCEPT !.primary = d].primary = d
                            /\ [disk EXCEPT !.primary = d].backup = disk.backup
                            /\ [disk EXCEPT !.backup = d] \in [primary : Data, backup : Data]
                            /\ [disk EXCEPT !.backup = d].primary = disk.primary
                            /\ [disk EXCEPT !.backup = d].backup = d
<1>1. disk.primary \in Data /\ disk.backup \in Data /\ EmptyData \in Data
  BY DataIs
<1>2. Loaded \in Data
  BY <1>1 DEF Loaded
<1> HIDE DEF Data
<1> QED BY <1>1, <1>2

LEMMA MemIs ==
  ASSUME mem \in Mems
  PROVE  /\ mem.data \in Data /\ mem.running \in BOOLEAN /\ mem.paused \in BOOLEAN /\ mem.active \in BOOLEAN
         /\ NewMem \in Mems /\ NewMem.data = EmptyData
         /\ NewMem.running = FALSE /\ NewMem.paused = FALSE /\ NewMem.active = FALSE
  BY DataIs DEF Mems, NewMem

\* The timer has stopped.
LEMMA HaltedIs ==
  ASSUME NEW d \in Data, mem \in Mems, now \in 1 .. MaxTime
  PROVE  /\ Halted(d) \in Data /\ Halted(d).watermark = d.watermark
         /\ mem.running => /\ Halted(d).total = Add(d.total, Span(d.start, now))
                           /\ Halted(d).start = 0 /\ Halted(d).saved = now
         /\ ~mem.running => Halted(d) = d
<1>1. CASE mem.running
  <2>1. now \in 0 .. MaxTime /\ 0 \in 0 .. MaxTime /\ now \in -1 .. MaxTime
    BY Constants
  <2> DEFINE s == Sealed(d, now, 0)
  <2>2. s \in Data /\ s.total = Add(d.total, Span(d.start, now)) /\ s.start = 0 /\ s.watermark = d.watermark
    BY <2>1, SealedIs
  <2>3. Halted(d) = [s EXCEPT !.saved = now]
    BY <1>1 DEF Halted
  <2> HIDE DEF s
  <2>4. /\ Halted(d) \in Data /\ Halted(d).total = s.total /\ Halted(d).start = s.start
        /\ Halted(d).saved = now /\ Halted(d).watermark = s.watermark
    BY <2>1, <2>2, <2>3, DataIs
  <2> QED BY <1>1, <2>2, <2>4
<1>2. CASE ~mem.running
  BY <1>2 DEF Halted
<1> QED BY <1>1, <1>2

\* What is saved at the end.
LEMMA EndDataIs ==
  ASSUME mem \in Mems, now \in 1 .. MaxTime
  PROVE  /\ EndData \in Data
         /\ EndData.total = Halted(mem.data).total /\ EndData.start = Halted(mem.data).start
         /\ EndData.saved = Halted(mem.data).saved
         /\ EndData.watermark = IF EndData.saved > 0 THEN EndData.saved ELSE now
<1> DEFINE h == Halted(mem.data)
           w == IF h.saved > 0 THEN h.saved ELSE now
<1>1. h \in Data
  BY MemIs, HaltedIs
<1>2. EndData = [h EXCEPT !.watermark = w]
  BY DEF EndData
<1>3. w \in 0 .. MaxTime
  <2> HIDE DEF h
  <2>1. h.saved \in -1 .. MaxTime
    BY <1>1, FieldsAre
  <2> QED BY <2>1, Constants
<1> HIDE DEF h, w
<1>4. /\ EndData \in Data /\ EndData.total = h.total /\ EndData.start = h.start /\ EndData.saved = h.saved
      /\ EndData.watermark = w
  BY <1>1, <1>2, <1>3, DataIs
<1> QED BY <1>4 DEF h, w

-----------------------------------------------------------------------------
(* What happens to the journal.                                            *)

\* What loses its slice is uncovered.
NoneLost == Slices \subseteq Slices' \union uncovered' /\ uncovered \subseteq uncovered'

\* An append, also one that fails: it writes a line at most for each slice in memory.
Appends ==
  /\ Journaled' /\ Slices' \subseteq Slices /\ NoneLost
  /\ \A t \in 1 .. MaxTime : Lines'[t] <= IF t \in buffer THEN Lines[t] + 1 ELSE Lines[t]
  /\ \/ buffer' = {} /\ rewritten' = rewritten
     \/ buffer' = buffer /\ rewritten' = rewritten \union (buffer \intersect Filed')

LEMMA AppendedIs ==
  ASSUME Journaled, NEW S \in SUBSET buffer
  PROVE  /\ Appended(S) \in Totals
         /\ \A t \in 1 .. MaxTime : Appended(S)[t] <= IF t \in S THEN file[t] + 1 ELSE file[t]
<1> DEFINE T == {t \in S : openLine = {} \/ \E u \in S : u < t}
<1>1. Appended(S) = Add(file, T)
  BY DEF Appended
<1>2. T \subseteq S
  OBVIOUS
<1> HIDE DEF T
<1>3. /\ Add(file, T) \in Totals
      /\ \A t \in 1 .. MaxTime : Add(file, T)[t] = IF t \in T THEN file[t] + 1 ELSE file[t]
  BY AddIs DEF Journaled
<1>4. \A t \in 1 .. MaxTime : file[t] \in Nat
  BY DEF Journaled, Totals
<1> QED BY <1>1, <1>2, <1>3, <1>4

\* It is one as long as the lines are within that bound.
LEMMA AppendsWithin ==
  ASSUME Journaled, now \in 1 .. MaxTime, now' = now, Loses,
         file' \in Totals, openLine' \in SUBSET (0 .. now),
         \A t \in 1 .. MaxTime : Lines'[t] <= IF t \in buffer THEN Lines[t] + 1 ELSE Lines[t],
         \/ buffer' = {} /\ rewritten' = rewritten
         \/ buffer' = buffer /\ rewritten' = rewritten \union (buffer \intersect Filed')
  PROVE  Appends
<1>1. PICK f, o, l : f = file' /\ o = openLine' /\ l = Add(f, o)
  OBVIOUS
<1>2. Lines' = l /\ Filed' = Ticks(l) /\ Slices' = buffer' \union Ticks(l)
  BY <1>1 DEF Lines, Filed, Slices
<1>3. l \in Totals /\ Ticks(l) = Ticks(f) \union (o \intersect 1 .. MaxTime) /\ f \in Totals
  BY <1>1, AddIs
<1>4. /\ Lines \in Totals /\ Slices = buffer \union Filed /\ Slices \subseteq 1 .. now
      /\ Filed = {t \in 1 .. MaxTime : Lines[t] > 0}
  BY JournalIs, TicksAre DEF Filed
<1>5. Ticks(l) \subseteq Slices
  <2>1. Ticks(l) = {t \in 1 .. MaxTime : l[t] > 0}
    BY <1>3, TicksAre
  <2>2. \A t \in 1 .. MaxTime : l[t] <= (IF t \in buffer THEN Lines[t] + 1 ELSE Lines[t]) /\ l[t] \in Nat /\ Lines[t] \in Nat
    BY <1>2, <1>3, <1>4 DEF Totals
  <2>3. \A t \in 1 .. MaxTime : l[t] > 0 => t \in buffer \/ Lines[t] > 0
    BY <2>2
  <2> QED BY <1>4, <2>1, <2>3
<1>6. Slices' \subseteq Slices
  BY <1>2, <1>4, <1>5
<1>7. NoneLost /\ uncovered' \in SUBSET (1 .. MaxTime)
  <2>1. uncovered' = uncovered \union (Slices \ Slices')
    BY DEF Loses
  <2>2. 1 .. now \subseteq 1 .. MaxTime
    BY Constants
  <2> QED BY <1>4, <2>1, <2>2 DEF NoneLost, Journaled
<1>8. Journaled'
  <2>1. Ticks(f) \subseteq 1 .. now /\ Ticks(l) \subseteq 1 .. now
    BY <1>3, <1>4, <1>5
  <2>2. buffer' \in SUBSET (1 .. now) /\ rewritten' \in SUBSET (1 .. now)
    BY <1>2, <2>1 DEF Journaled
  <2> QED BY <1>1, <1>7, <2>1, <2>2 DEF Journaled
<1> QED BY <1>6, <1>7, <1>8 DEF Appends

LEMMA AppendsIs ==
  ASSUME Journaled, now \in 1 .. MaxTime, now' = now, AppendWorks \/ AppendFails
  PROVE  Appends
<1>1. PICK f, o : f = file' /\ o = openLine'
  OBVIOUS
<1>2. Lines' = Add(f, o)
  BY <1>1 DEF Lines
<1>3. /\ \A t \in 1 .. MaxTime : file[t] \in Nat
      /\ \A t \in 1 .. MaxTime : Lines[t] = IF t \in openLine THEN file[t] + 1 ELSE file[t]
      /\ buffer \subseteq 1 .. now /\ openLine \subseteq 0 .. now
  BY JournalIs DEF Journaled, Totals
<1>4. CASE AppendWorks
  <2>1. f = Appended(buffer) /\ o = IF buffer = {} THEN openLine ELSE {}
    BY <1>1, <1>4 DEF AppendWorks
  <2>2. /\ f \in Totals
        /\ \A t \in 1 .. MaxTime : f[t] <= (IF t \in buffer THEN file[t] + 1 ELSE file[t]) /\ f[t] \in Nat
    BY <2>1, AppendedIs DEF Totals
  <2>3. \A t \in 1 .. MaxTime : Add(f, o)[t] = IF t \in o THEN f[t] + 1 ELSE f[t]
    BY <2>2, AddIs
  <2>4. \A t \in 1 .. MaxTime : Add(f, o)[t] <= IF t \in buffer THEN Lines[t] + 1 ELSE Lines[t]
    <3>1. CASE buffer = {}
      BY <1>3, <2>1, <2>2, <2>3, <3>1
    <3>2. CASE buffer # {}
      BY <1>3, <2>1, <2>2, <2>3, <3>2
    <3> QED BY <3>1, <3>2
  <2>5. o \in SUBSET (0 .. now)
    BY <1>3, <2>1
  <2>6. Loses /\ buffer' = {} /\ rewritten' = rewritten
    BY <1>4 DEF AppendWorks
  <2>7. /\ file' \in Totals /\ openLine' \in SUBSET (0 .. now)
        /\ \A t \in 1 .. MaxTime : Lines'[t] <= IF t \in buffer THEN Lines[t] + 1 ELSE Lines[t]
    BY <1>1, <1>2, <2>2, <2>4, <2>5
  <2> QED BY <2>6, <2>7, AppendsWithin
<1>5. CASE AppendFails
  <2>1. PICK n \in {0} \union buffer :
         LET whole == {t \in buffer : t <= n}
             next  == {t \in buffer \ whole : \A u \in buffer \ whole : t <= u}
             then  == IF next = {} THEN {{}} ELSE {{}, {0}, next}
         IN  \E part \in then :
               /\ file' = Appended(whole)
               /\ openLine' = IF openLine = {} \/ whole # {} THEN part
                              ELSE IF part = {} THEN openLine ELSE {0}
    BY <1>5 DEF AppendFails
  <2> DEFINE whole == {t \in buffer : t <= n}
             next  == {t \in buffer \ whole : \A u \in buffer \ whole : t <= u}
  <2>2. PICK part \in {{}, {0}, next} :
          /\ f = Appended(whole)
          /\ o = IF openLine = {} \/ whole # {} THEN part ELSE IF part = {} THEN openLine ELSE {0}
    BY <1>1, <2>1
  <2>3. whole \subseteq buffer /\ next \subseteq buffer \ whole
    OBVIOUS
  <2> HIDE DEF whole, next
  <2>4. /\ f \in Totals
        /\ \A t \in 1 .. MaxTime : f[t] <= (IF t \in whole THEN file[t] + 1 ELSE file[t]) /\ f[t] \in Nat
    BY <2>2, <2>3, AppendedIs DEF Totals
  <2>5. \A t \in 1 .. MaxTime : Add(f, o)[t] = IF t \in o THEN f[t] + 1 ELSE f[t]
    BY <2>4, AddIs
  <2>6. o = {} \/ o = {0} \/ o = next \/ (o = openLine /\ whole = {})
    BY <2>2
  <2>7. \A t \in 1 .. MaxTime : Add(f, o)[t] <= IF t \in buffer THEN Lines[t] + 1 ELSE Lines[t]
    <3> TAKE t \in 1 .. MaxTime
    <3>1. /\ f[t] <= (IF t \in whole THEN file[t] + 1 ELSE file[t]) /\ f[t] \in Nat /\ file[t] \in Nat
          /\ Add(f, o)[t] = (IF t \in o THEN f[t] + 1 ELSE f[t])
          /\ Lines[t] = (IF t \in openLine THEN file[t] + 1 ELSE file[t])
      BY <1>3, <2>4, <2>5
    <3>2. CASE t \notin o
      BY <2>3, <3>1, <3>2
    <3>3. CASE t \in o
      <4>1. t # 0
        OBVIOUS
      <4>2. CASE o = next
        <5>1. t \in buffer /\ t \notin whole
          BY <2>3, <3>3, <4>2
        <5> QED BY <3>1, <3>3, <5>1
      <4>3. CASE o = openLine /\ whole = {}
        BY <3>1, <3>3, <4>3
      <4> QED BY <2>6, <3>3, <4>1, <4>2, <4>3
    <3> QED BY <3>2, <3>3
  <2>8. o \in SUBSET (0 .. now)
    <3>1. 0 \in 0 .. now /\ buffer \subseteq 0 .. now
      BY <1>3
    <3> QED BY <1>3, <2>3, <2>6, <3>1
  <2>9. Loses /\ buffer' = buffer /\ rewritten' = rewritten \union (buffer \intersect Filed')
    BY <1>5 DEF AppendFails, Filed
  <2>10. /\ file' \in Totals /\ openLine' \in SUBSET (0 .. now)
         /\ \A t \in 1 .. MaxTime : Lines'[t] <= IF t \in buffer THEN Lines[t] + 1 ELSE Lines[t]
    BY <1>1, <1>2, <2>4, <2>7, <2>8
  <2> QED BY <2>9, <2>10, AppendsWithin
<1> QED BY <1>4, <1>5

\* The file is left alone.
LEMMA FileStays ==
  ASSUME UNCHANGED <<file, openLine>>
  PROVE  Lines' = Lines /\ Filed' = Filed /\ Slices' = buffer' \union Filed
<1>1. Lines' = Lines
  BY DEF Lines
<1> QED BY <1>1 DEF Filed, Slices

\* The file is emptied.
LEMMA EmptiedIs ==
  ASSUME Emptied
  PROVE  /\ file' \in Totals /\ Ticks(file') = {} /\ openLine' = {}
         /\ Filed' = {} /\ Slices' = buffer' /\ uncovered' = {}
         /\ \A t \in 1 .. MaxTime : Lines'[t] = 0
<1>1. PICK f, o : f = NoTime /\ o = {} /\ file' = f /\ openLine' = o
  BY DEF Emptied
<1>2. f \in Totals /\ Ticks(f) = {} /\ \A t \in 1 .. MaxTime : f[t] = 0
  BY <1>1, NoTimeIs
<1>3. Lines' = Add(f, o)
  BY <1>1 DEF Lines
<1>4. Ticks(Add(f, o)) = {} /\ \A t \in 1 .. MaxTime : Add(f, o)[t] = 0
  BY <1>1, <1>2, AddIs
<1>5. Filed' = {} /\ Slices' = buffer'
  BY <1>3, <1>4 DEF Filed, Slices
<1> QED BY <1>1, <1>2, <1>3, <1>4, <1>5 DEF Emptied

\* A step that appends nothing.
LEMMA JournalStays ==
  ASSUME Journaled, now \in 1 .. MaxTime, now' \in now .. MaxTime,
         buffer' \in SUBSET (1 .. now'), rewritten' = rewritten, uncovered' \in SUBSET (1 .. MaxTime),
         Emptied \/ UNCHANGED <<file, openLine>>
  PROVE  Journaled'
<1>1. 1 .. now \subseteq 1 .. now' /\ 0 .. now \subseteq 0 .. now'
  BY Constants
<1>2. file' \in Totals /\ Ticks(file') \in SUBSET (1 .. now') /\ openLine' \in SUBSET (0 .. now')
  <2>1. CASE Emptied
    BY <2>1, EmptiedIs
  <2>2. CASE UNCHANGED <<file, openLine>>
    <3>1. Ticks(file)' = Ticks(file')
      OBVIOUS
    <3> QED BY <1>1, <2>2 DEF Journaled
  <2> QED BY <2>1, <2>2
<1>3. rewritten' \in SUBSET (1 .. now')
  BY <1>1 DEF Journaled
<1> QED BY <1>2, <1>3 DEF Journaled

-----------------------------------------------------------------------------
(* What the steps do.                                                      *)

\* What a call of a kind may have to do.
MayDo(kind, todo) ==
  /\ todo \in Shapes
  /\ kind = "start" => todo \in StartShapes
  /\ kind = "end" => todo \in EndShapes
  /\ kind = "pause" => todo \in PauseShapes
  /\ kind \notin {"start", "end", "pause"} => todo \in SaveShapes

LEMMA MayDoIs ==
  /\ \A kind \in Kinds \ {"end"} : MayDo(kind, <<"primary">>) \/ kind = "end"
  /\ \A kind \in Kinds \ {"end"} : MayDo(kind, <<"backup">>)
  /\ MayDo("start", <<"read", "clear", "primary">>) /\ MayDo("start", <<"clear", "primary">>)
  /\ MayDo("end", <<"settle", "flush">>) /\ MayDo("end", <<"flush">>) /\ MayDo("end", <<"primary", "truncate">>)
  /\ MayDo("end", <<"backup", "truncate">>) /\ MayDo("end", <<"truncate">>)
  /\ MayDo("pause", <<"truncate">>)
<1>1. <<"primary">> \in SaveShapes /\ <<"backup">> \in SaveShapes
  BY DEF SaveShapes
<1>2. SaveShapes \subseteq StartShapes /\ SaveShapes \subseteq PauseShapes
  BY DEF StartShapes, PauseShapes
<1>3. StartShapes \subseteq Shapes /\ EndShapes \subseteq Shapes
  BY DEF Shapes
<1>4. <<"read", "clear", "primary">> \in StartShapes /\ <<"clear", "primary">> \in StartShapes
  BY DEF StartShapes
<1>5. /\ <<"settle", "flush">> \in EndShapes /\ <<"flush">> \in EndShapes /\ <<"primary", "truncate">> \in EndShapes
      /\ <<"backup", "truncate">> \in EndShapes /\ <<"truncate">> \in EndShapes
  BY DEF EndShapes
<1>6. <<"truncate">> \in PauseShapes
  BY DEF PauseShapes
<1>7. /\ "start" \notin {"end", "pause"} /\ "end" \notin {"start", "pause"} /\ "pause" \notin {"start", "end"}
  OBVIOUS
<1> HIDE DEF SaveShapes, StartShapes, PauseShapes, EndShapes, Shapes
<1> QED BY <1>1, <1>2, <1>3, <1>4, <1>5, <1>6, <1>7, Zenon DEF MayDo

LEMMA ToDoIs ==
  ASSUME NEW c \in CallRecords, NEW todo, MayDo(c.kind, todo)
  PROVE  /\ [c EXCEPT !.todo = todo] \in CallRecords
         /\ [c EXCEPT !.todo = todo].kind = c.kind /\ [c EXCEPT !.todo = todo].todo = todo
         /\ [c EXCEPT !.todo = todo].data = c.data
<1> DEFINE K == [kind : Kinds, todo : Shapes, data : Data, force : BOOLEAN]
           e == [c EXCEPT !.todo = todo]
<1>1. c \in K /\ c.force = (c.kind \in {"start", "end"}) /\ todo \in Shapes
  BY DEF CallRecords, MayDo
<1>2. e \in K /\ e.kind = c.kind /\ e.todo = todo /\ e.data = c.data /\ e.force = c.force
  <2> HIDE DEF Kinds, Shapes, Data
  <2> QED BY <1>1
<1> HIDE DEF e
<1>3. e \in CallRecords
  BY <1>1, <1>2, Zenon DEF CallRecords, MayDo
<1> QED BY <1>2, <1>3 DEF e

Edited(c, todo, d) == [c EXCEPT !.todo = todo, !.data = d]

LEMMA EditedIs ==
  ASSUME NEW c \in CallRecords, NEW todo, MayDo(c.kind, todo), NEW d \in Data
  PROVE  /\ Edited(c, todo, d) \in CallRecords
         /\ Edited(c, todo, d).kind = c.kind /\ Edited(c, todo, d).todo = todo
         /\ Edited(c, todo, d).data = d
<1> DEFINE K == [kind : Kinds, todo : Shapes, data : Data, force : BOOLEAN]
           f == Edited(c, todo, d)
<1>1. c \in K /\ c.force = (c.kind \in {"start", "end"}) /\ todo \in Shapes
  BY DEF CallRecords, MayDo
<1>2. f \in K /\ f.kind = c.kind /\ f.todo = todo /\ f.data = d /\ f.force = c.force
  <2> HIDE DEF Kinds, Shapes, Data
  <2> QED BY <1>1 DEF Edited
<1> HIDE DEF f
<1>3. f \in CallRecords
  BY <1>1, <1>2, Zenon DEF CallRecords, MayDo
<1> QED BY <1>2, <1>3 DEF f

LEMMA CallIs ==
  ASSUME NEW kind \in Kinds, NEW todo, MayDo(kind, todo), NEW d \in Data, NEW force,
         force = (kind \in {"start", "end"})
  PROVE  /\ Call(kind, todo, d, force) \in CallRecords
         /\ Call(kind, todo, d, force).kind = kind /\ Call(kind, todo, d, force).todo = todo
         /\ Call(kind, todo, d, force).data = d
<1> DEFINE K == [kind : Kinds, todo : Shapes, data : Data, force : BOOLEAN]
           e == Call(kind, todo, d, force)
<1>1. todo \in Shapes /\ force \in BOOLEAN
  BY DEF MayDo
<1>2. e \in K /\ e.kind = kind /\ e.todo = todo /\ e.data = d /\ e.force = force
  <2> HIDE DEF Kinds, Shapes, Data
  <2> QED BY <1>1 DEF Call
<1> HIDE DEF e
<1>3. e \in CallRecords
  BY <1>2, Zenon DEF CallRecords, MayDo
<1> QED BY <1>2, <1>3 DEF e

LEMMA SaveIs ==
  ASSUME NEW kind \in Kinds \ {"start", "end"}, NEW d \in Data, now \in 1 .. MaxTime
  PROVE  /\ Save(kind, d) \in CallRecords
         /\ Save(kind, d).kind = kind /\ Head(Save(kind, d).todo) = "primary"
         /\ Save(kind, d).data = Stamped(d)
<1>1. MayDo(kind, <<"primary">>)
  BY MayDoIs
<1>2. Stamped(d) \in Data /\ FALSE = (kind \in {"start", "end"})
  BY StampedIs
<1>3. Head(<<"primary">>) = "primary"
  BY ShapesAre
<1>0. PICK force, d2, todo : force = FALSE /\ d2 = Stamped(d) /\ todo = <<"primary">>
  OBVIOUS
<1> DEFINE c == Call(kind, todo, d2, force)
<1>4. c \in CallRecords /\ c.kind = kind /\ c.todo = todo /\ c.data = d2
  <2>1. kind \in Kinds /\ MayDo(kind, todo) /\ d2 \in Data /\ force = (kind \in {"start", "end"})
    BY <1>0, <1>1, <1>2
  <2> HIDE DEF Kinds, Data
  <2> QED BY <2>1, CallIs, SMT
<1>5. Save(kind, d) = c
  BY <1>0 DEF Save
<1> HIDE DEF c
<1> QED BY <1>0, <1>3, <1>4, <1>5

\* A call that is done, other than a start.
Returns(i) ==
  /\ calls' = RemoveAt(calls, i)
  /\ state' = IF calls[i].kind = "pause" THEN "paused_idle" ELSE IF calls[i].kind = "resume" THEN "running" ELSE state
  /\ UNCHANGED <<mem, ticking, lastTick, lastSave>>

\* The start that is done.
Starts(i) ==
  /\ calls' = RemoveAt(calls, i)
  /\ state' = "running" /\ ticking' = TRUE /\ lastTick' = now /\ lastSave' = now
  /\ mem' \in Mems
  /\ mem'.running = TRUE /\ mem'.paused = FALSE /\ mem'.active = TRUE
  /\ mem'.data.total = calls[i].data.total /\ mem'.data.start = now /\ mem'.data.saved = now
  /\ mem'.data.watermark = calls[i].data.watermark

LEMMA DoneIs ==
  ASSUME Typed, NEW i \in DOMAIN calls, Done(i)
  PROVE  IF calls[i].kind = "start" THEN Starts(i) ELSE Returns(i)
<1>1. CASE calls[i].kind = "start"
  <2>1. /\ calls' = RemoveAt(calls, i)
        /\ state' = "running" /\ ticking' = TRUE /\ lastTick' = now /\ lastSave' = now
        /\ mem' = [data |-> [calls[i].data EXCEPT !.start = now, !.saved = now],
                   running |-> TRUE, paused |-> FALSE, active |-> TRUE]
    BY <1>1 DEF Done, Ends
  <2> DEFINE d == [calls[i].data EXCEPT !.start = now, !.saved = now]
  <2>2. calls[i] \in CallRecords
    BY DEF Typed
  <2>3. calls[i].data \in Data /\ now \in 0 .. MaxTime /\ now \in -1 .. MaxTime
    BY <2>2, Stage, Constants DEF Typed
  <2>4. d \in Data /\ d.total = calls[i].data.total /\ d.start = now /\ d.saved = now /\ d.watermark = calls[i].data.watermark
    BY <2>3, DataIs
  <2> HIDE DEF d
  <2>5. mem' = [data |-> d, running |-> TRUE, paused |-> FALSE, active |-> TRUE]
    BY <2>1 DEF d
  <2>6. /\ mem' \in Mems /\ mem'.running = TRUE /\ mem'.paused = FALSE /\ mem'.active = TRUE /\ mem'.data = d
    <3> HIDE DEF Data
    <3> QED BY <2>4, <2>5 DEF Mems
  <2> QED BY <1>1, <2>1, <2>4, <2>6 DEF Starts
<1>2. CASE calls[i].kind = "pause"
  BY <1>2 DEF Done, Ends, Returns
<1>3. CASE calls[i].kind = "resume"
  BY <1>3 DEF Done, Ends, Returns
<1>4. CASE calls[i].kind \notin {"start", "pause", "resume"}
  BY <1>4 DEF Done, Ends, Returns
<1> QED BY <1>1, <1>2, <1>3, <1>4

\* A call is issued; a call goes on to another operation.
Issues(kind, op, d) ==
  \E c \in CallRecords : calls' = Append(calls, c) /\ c.kind = kind /\ Head(c.todo) = op /\ c.data = d
Goes(i, kind, op, d) ==
  \E c \in CallRecords :
    calls' = Append(RemoveAt(calls, i), c) /\ c.kind = kind /\ Head(c.todo) = op /\ c.data = d

InProcess == UNCHANGED <<mem, state, ticking, lastTick, lastSave>>

LEMMA ReadIs ==
  ASSUME Typed, NEW i \in DOMAIN calls, Read(i)
  PROVE  /\ calls[i].kind = "start" /\ Head(calls[i].todo) = "read"
         /\ InProcess /\ UNCHANGED <<buffer, file, openLine, rewritten, uncovered, disk, backupCount, crashes, incidents>>
         /\ Goes(i, "start", "clear", Stamped(Recovered(Loaded)))
<1> DEFINE d == Stamped(Recovered(Loaded))
           c == [calls[i] EXCEPT !.todo = After(i), !.data = d]
<1>1. calls[i] \in CallRecords /\ Head(calls[i].todo) = "read"
  BY DEF Typed, Read, Serves
<1>2. calls[i].kind = "start" /\ After(i) = <<"clear", "primary">>
  BY <1>1, Stage DEF After
<1>3. d \in Data
  BY DiskIs, RecoveredIs, StampedIs DEF Typed
<1>4. /\ UNCHANGED <<buffer, file, openLine, rewritten, uncovered, disk, backupCount, crashes, incidents>>
      /\ Proceeds(i, c)
  BY DEF Read, Works, counts, journal, storage
<1> HIDE DEF d
<1>5. /\ c \in CallRecords /\ c.kind = "start" /\ c.todo = <<"clear", "primary">> /\ c.data = d
  <2>1. MayDo(calls[i].kind, After(i))
    BY <1>2, MayDoIs
  <2>2. c \in CallRecords /\ c.kind = calls[i].kind /\ c.todo = After(i) /\ c.data = d
    <3>1. PICK todo, data : todo = After(i) /\ data = d
      OBVIOUS
    <3> DEFINE e == Edited(calls[i], todo, data)
    <3>2. MayDo(calls[i].kind, todo) /\ data \in Data
      BY <1>3, <2>1, <3>1
    <3>3. e \in CallRecords /\ e.kind = calls[i].kind /\ e.todo = todo /\ e.data = data
      BY <1>1, <3>2, EditedIs, SMT
    <3>4. c = e
      BY <3>1 DEF Edited
    <3> HIDE DEF c, e
    <3> QED BY <3>1, <3>3, <3>4
  <2> HIDE DEF c
  <2> QED BY <1>2, <2>2
<1> HIDE DEF c
<1>6. c.todo # <<>> /\ Head(c.todo) = "clear"
  BY <1>5, ShapesAre
<1>7. calls' = Append(RemoveAt(calls, i), c) /\ InProcess
  BY <1>4, <1>6 DEF Proceeds, Continues, InProcess
<1>8. Goes(i, "start", "clear", d)
  BY <1>5, <1>6, <1>7 DEF Goes
<1> QED BY <1>1, <1>2, <1>4, <1>7, <1>8 DEF d

LEMMA ClearIs ==
  ASSUME Typed, NEW i \in DOMAIN calls, Clear(i)
  PROVE  /\ calls[i].kind = "start" /\ Head(calls[i].todo) = "clear"
         /\ InProcess /\ UNCHANGED <<buffer, rewritten, disk, backupCount>>
         /\ \/ Emptied /\ incidents' = incidents
            \/ EmptiedOrNot /\ Happens("clear")
         /\ Goes(i, "start", "primary", calls[i].data)
<1> DEFINE c == [calls[i] EXCEPT !.todo = After(i)]
<1>1. calls[i] \in CallRecords /\ Head(calls[i].todo) = "clear"
  BY DEF Typed, Clear, Serves
<1>2. calls[i].kind = "start" /\ After(i) = <<"primary">> /\ calls[i].data \in Data
  BY <1>1, Stage DEF After
<1>3. /\ UNCHANGED <<buffer, rewritten, disk, backupCount>>
      /\ \/ Emptied /\ incidents' = incidents
         \/ EmptiedOrNot /\ Happens("clear")
      /\ Proceeds(i, c)
  BY DEF Clear, Works, Fails, counts, storage
<1>4. MayDo("start", <<"primary">>)
  BY MayDoIs DEF Kinds
<1>5. /\ c \in CallRecords /\ c.kind = "start" /\ c.todo = <<"primary">> /\ c.data = calls[i].data
  <2>1. MayDo(calls[i].kind, After(i))
    BY <1>2, <1>4
  <2>2. c \in CallRecords /\ c.kind = calls[i].kind /\ c.todo = After(i) /\ c.data = calls[i].data
    BY <1>1, <1>2, <2>1, ToDoIs, Zenon
  <2> HIDE DEF c
  <2> QED BY <1>2, <2>2
<1> HIDE DEF c
<1>6. c.todo # <<>> /\ Head(c.todo) = "primary"
  BY <1>5, ShapesAre
<1>7. calls' = Append(RemoveAt(calls, i), c) /\ InProcess
  BY <1>3, <1>6 DEF Proceeds, Continues, InProcess
<1>8. Goes(i, "start", "primary", calls[i].data)
  BY <1>5, <1>6, <1>7 DEF Goes
<1> QED BY <1>1, <1>2, <1>3, <1>7, <1>8

\* The primary is written, or not; the backup follows where it must.
LEMMA SavePrimaryIs ==
  ASSUME Typed, NEW i \in DOMAIN calls, SavePrimary(i)
  PROVE  /\ Head(calls[i].todo) = "primary" /\ UNCHANGED <<buffer, file, openLine, rewritten, uncovered>> /\ backupCount' \in 0 .. 2
         /\ \A j \in 1 .. i - 1 : Head(calls[j].todo) # "primary"
         /\ \/ /\ disk' = [disk EXCEPT !.primary = calls[i].data] /\ incidents' = incidents
            \/ disk' = disk /\ Happens("primary")
         /\ \/ InProcess /\ Goes(i, calls[i].kind, "backup", calls[i].data)
            \/ calls[i].kind \notin {"start", "end"} /\ Returns(i)
<1>1. calls[i] \in CallRecords /\ Head(calls[i].todo) = "primary" /\ backupCount \in 0 .. 2
  BY DEF Typed, SavePrimary, Serves
<1>2. /\ calls[i].kind \in Kinds /\ calls[i].data \in Data /\ calls[i].force = (calls[i].kind \in {"start", "end"})
      /\ \/ calls[i].kind # "end" /\ After(i) = <<>>
         \/ calls[i].kind = "end" /\ After(i) = <<"truncate">>
  BY <1>1, Stage DEF After
<1>3. CountAfter \in 0 .. 2
  BY <1>1 DEF CountAfter
<1>4. /\ UNCHANGED <<buffer, file, openLine, rewritten, uncovered>> /\ backupCount' = CountAfter
      /\ \A j \in 1 .. i - 1 : Head(calls[j].todo) # "primary"
  BY DEF SavePrimary, journal, Serves, Ordered, SameDevice
<1> DEFINE then(bad) == IF calls[i].force \/ bad \/ CountAfter = 0 THEN <<"backup">> \o After(i) ELSE After(i)
<1>5. \/ /\ disk' = [disk EXCEPT !.primary = calls[i].data] /\ incidents' = incidents
         /\ Proceeds(i, [calls[i] EXCEPT !.todo = then(FALSE)])
      \/ /\ disk' = disk /\ Happens("primary")
         /\ Proceeds(i, [calls[i] EXCEPT !.todo = then(TRUE)])
  BY Zenon DEF SavePrimary, Works, Fails, counts
<1>6. ASSUME NEW bad \in BOOLEAN, Proceeds(i, [calls[i] EXCEPT !.todo = then(bad)])
      PROVE  \/ InProcess /\ Goes(i, calls[i].kind, "backup", calls[i].data)
             \/ calls[i].kind \notin {"start", "end"} /\ Returns(i)
  <2> DEFINE c == [calls[i] EXCEPT !.todo = then(bad)]
  <2>1. CASE calls[i].force \/ bad \/ CountAfter = 0
    <3>1. then(bad) = <<"backup">> \o After(i)
      BY <2>1
    <3>2. PICK todo : todo = <<"backup">> \o After(i)
      OBVIOUS
    <3>3. MayDo(calls[i].kind, todo) /\ Head(todo) = "backup" /\ todo # <<>>
      <4>1. CASE calls[i].kind = "end"
        BY <1>2, <3>2, <4>1, ShapesAre, MayDoIs
      <4>2. CASE calls[i].kind # "end"
        <5>1. todo = <<"backup">>
          BY <1>2, <3>2, <4>2, ShapesAre
        <5> QED BY <1>2, <4>2, <5>1, ShapesAre, MayDoIs
      <4> QED BY <4>1, <4>2
    <3>4. c = [calls[i] EXCEPT !.todo = todo]
      BY <3>1, <3>2
    <3> HIDE DEF then
    <3>5. c \in CallRecords /\ c.kind = calls[i].kind /\ c.todo = todo /\ c.data = calls[i].data
      <4> DEFINE e == [calls[i] EXCEPT !.todo = todo]
      <4>1. MayDo(calls[i].kind, todo)
        BY <3>3
      <4>2. e \in CallRecords /\ e.kind = calls[i].kind /\ e.todo = todo /\ e.data = calls[i].data
        BY <1>1, <1>2, <4>1, ToDoIs, Zenon
      <4> HIDE DEF c
      <4>3. c = e
        BY <3>4
      <4> HIDE DEF e
      <4> QED BY <4>2, <4>3
    <3>6. Proceeds(i, c)
      BY <1>6
    <3> HIDE DEF c
    <3>7. calls' = Append(RemoveAt(calls, i), c) /\ InProcess
      BY <3>3, <3>5, <3>6 DEF Proceeds, Continues, InProcess
    <3> QED BY <3>3, <3>5, <3>7 DEF Goes
  <2>2. CASE ~(calls[i].force \/ bad \/ CountAfter = 0)
    <3>1. calls[i].kind \notin {"start", "end"} /\ After(i) = <<>>
      BY <1>2, <2>2
    <3>2. then(bad) = <<>>
      BY <2>2, <3>1
    <3>3. c.todo = <<>>
      <4>1. c = [calls[i] EXCEPT !.todo = <<>>]
        BY <3>2
      <4>2. calls[i] \in [kind : Kinds, todo : Shapes, data : Data, force : BOOLEAN]
        BY <1>1 DEF CallRecords
      <4> HIDE DEF c, then, Kinds, Shapes, Data
      <4> QED BY <4>1, <4>2
    <3>4. Done(i)
      BY <1>6, <3>3 DEF Proceeds
    <3> QED BY <3>1, <3>4, DoneIs
  <2> QED BY <2>1, <2>2
<1> HIDE DEF then
<1>7. \/ InProcess /\ Goes(i, calls[i].kind, "backup", calls[i].data)
      \/ calls[i].kind \notin {"start", "end"} /\ Returns(i)
  BY <1>5, <1>6
<1> QED BY <1>1, <1>3, <1>4, <1>5, <1>7

LEMMA SaveBackupIs ==
  ASSUME Typed, NEW i \in DOMAIN calls, SaveBackup(i)
  PROVE  /\ Head(calls[i].todo) = "backup" /\ UNCHANGED <<buffer, file, openLine, rewritten, uncovered, backupCount>>
         /\ \/ disk' = [disk EXCEPT !.backup = calls[i].data] /\ incidents' = incidents
            \/ disk' = disk /\ Happens("backup")
         /\ \/ calls[i].kind = "end" /\ InProcess /\ Goes(i, "end", "truncate", calls[i].data)
            \/ calls[i].kind = "start" /\ Starts(i)
            \/ calls[i].kind \notin {"start", "end"} /\ Returns(i)
<1>1. calls[i] \in CallRecords /\ Head(calls[i].todo) = "backup"
  BY DEF Typed, SaveBackup, Serves
<1>2. /\ calls[i].kind \in Kinds /\ calls[i].data \in Data
      /\ \/ calls[i].kind # "end" /\ After(i) = <<>>
         \/ calls[i].kind = "end" /\ After(i) = <<"truncate">>
  BY <1>1, Stage DEF After
<1> DEFINE c == [calls[i] EXCEPT !.todo = After(i)]
<1>3. /\ UNCHANGED <<buffer, file, openLine, rewritten, uncovered, backupCount>>
      /\ \/ disk' = [disk EXCEPT !.backup = calls[i].data] /\ incidents' = incidents
         \/ disk' = disk /\ Happens("backup")
      /\ Proceeds(i, c)
  BY DEF SaveBackup, journal, Works, Fails, counts
<1>4. CASE calls[i].kind = "end"
  <2>1. After(i) = <<"truncate">> /\ MayDo(calls[i].kind, <<"truncate">>)
    BY <1>2, <1>4, MayDoIs
  <2>2. c \in CallRecords /\ c.kind = "end" /\ c.todo = <<"truncate">> /\ c.data = calls[i].data
    <3>1. MayDo(calls[i].kind, After(i))
      BY <2>1
    <3>2. c \in CallRecords /\ c.kind = calls[i].kind /\ c.todo = After(i) /\ c.data = calls[i].data
      BY <1>1, <1>2, <3>1, ToDoIs, Zenon
    <3> HIDE DEF c
    <3> QED BY <1>4, <2>1, <3>2
  <2> HIDE DEF c
  <2>3. c.todo # <<>> /\ Head(c.todo) = "truncate"
    BY <2>2, ShapesAre
  <2>4. calls' = Append(RemoveAt(calls, i), c) /\ InProcess
    BY <1>3, <2>3 DEF Proceeds, Continues, InProcess
  <2>5. Goes(i, "end", "truncate", calls[i].data)
    BY <2>2, <2>3, <2>4 DEF Goes
  <2> QED BY <1>1, <1>3, <1>4, <2>4, <2>5
<1>5. CASE calls[i].kind # "end"
  <2>1. c = [calls[i] EXCEPT !.todo = <<>>]
    BY <1>2, <1>5
  <2>2. calls[i] \in [kind : Kinds, todo : Shapes, data : Data, force : BOOLEAN]
    BY <1>1 DEF CallRecords
  <2>3. c.todo = <<>>
    <3> HIDE DEF c, Kinds, Shapes, Data
    <3> QED BY <2>1, <2>2
  <2>4. Done(i)
    BY <1>3, <2>3 DEF Proceeds
  <2> QED BY <1>1, <1>3, <1>5, <2>4, DoneIs
<1> QED BY <1>4, <1>5

LEMMA PauseTruncatesIs ==
  ASSUME Typed, NEW i \in DOMAIN calls, PauseTruncates(i)
  PROVE  /\ calls[i].kind = "pause" /\ Head(calls[i].todo) = "truncate"
         /\ buffer' = {} /\ InProcess /\ UNCHANGED <<rewritten, disk, backupCount>>
         /\ \/ Emptied /\ incidents' = incidents /\ Goes(i, "pause", "primary", Stamped(mem.data))
            \/ EmptiedOrNot /\ Happens("truncate") /\ calls' = RemoveAt(calls, i)
<1> DEFINE c == Save("pause", mem.data)
<1>1. c \in CallRecords /\ c.kind = "pause" /\ Head(c.todo) = "primary" /\ c.data = Stamped(mem.data)
  <2>1. "pause" \in Kinds \ {"start", "end"} /\ mem.data \in Data /\ now \in 1 .. MaxTime
    BY MemIs, Constants DEF Kinds, Typed
  <2> QED BY <2>1, SaveIs
<1>2. /\ calls[i].kind = "pause" /\ Head(calls[i].todo) = "truncate"
      /\ buffer' = {} /\ InProcess /\ UNCHANGED <<rewritten, disk, backupCount>>
      /\ \/ Emptied /\ incidents' = incidents /\ calls' = Append(RemoveAt(calls, i), c)
         \/ EmptiedOrNot /\ Happens("truncate") /\ calls' = RemoveAt(calls, i)
  BY DEF PauseTruncates, Serves, InProcess, storage, Works, Fails, counts, Continues, Ends
<1> HIDE DEF c
<1> QED BY <1>1, <1>2 DEF Goes

LEMMA EndTruncatesIs ==
  ASSUME Typed, NEW i \in DOMAIN calls, EndTruncates(i)
  PROVE  /\ calls[i].kind = "end" /\ Head(calls[i].todo) = "truncate"
         /\ buffer' = {} /\ calls' = RemoveAt(calls, i)
         /\ UNCHANGED <<ticking, lastTick, lastSave, rewritten, disk, backupCount>>
         /\ \/ /\ Emptied /\ incidents' = incidents /\ state' = "stopped"
               /\ mem' \in Mems /\ mem'.data.watermark = 0
               /\ mem'.data.total = mem.data.total /\ mem'.data.start = mem.data.start
               /\ mem'.data.saved = mem.data.saved
               /\ mem'.running = mem.running /\ mem'.paused = mem.paused /\ mem'.active = mem.active
            \/ EmptiedOrNot /\ Happens("truncate") /\ UNCHANGED <<mem, state>>
<1>1. /\ calls[i].kind = "end" /\ Head(calls[i].todo) = "truncate"
      /\ buffer' = {} /\ calls' = RemoveAt(calls, i)
      /\ UNCHANGED <<ticking, lastTick, lastSave, rewritten, disk, backupCount>>
      /\ \/ /\ Emptied /\ incidents' = incidents /\ state' = "stopped"
            /\ mem' = [mem EXCEPT !.data.watermark = 0]
         \/ EmptiedOrNot /\ Happens("truncate") /\ UNCHANGED <<mem, state>>
  BY DEF EndTruncates, Serves, storage, Works, Fails, counts, Ends
<1>2. ASSUME mem' = [mem EXCEPT !.data.watermark = 0]
      PROVE  /\ mem' \in Mems /\ mem'.data.watermark = 0
             /\ mem'.data.total = mem.data.total /\ mem'.data.start = mem.data.start
             /\ mem'.data.saved = mem.data.saved
             /\ mem'.running = mem.running /\ mem'.paused = mem.paused /\ mem'.active = mem.active
  <2>1. mem \in Mems /\ mem.data \in Data /\ 0 \in 0 .. MaxTime
    BY MemIs, Constants DEF Typed
  <2> DEFINE d == [mem.data EXCEPT !.watermark = 0]
  <2>2. /\ d \in Data /\ d.watermark = 0 /\ d.total = mem.data.total /\ d.start = mem.data.start
        /\ d.saved = mem.data.saved
    BY <2>1, DataIs
  <2>3. mem' = [mem EXCEPT !.data = d]
    BY <1>2
  <2> HIDE DEF d
  <2>4. /\ mem' \in Mems /\ mem'.data = d /\ mem'.running = mem.running /\ mem'.paused = mem.paused
        /\ mem'.active = mem.active
    <3> HIDE DEF Data
    <3> QED BY <2>1, <2>2, <2>3 DEF Mems
  <2> QED BY <2>2, <2>4
<1> QED BY <1>1, <1>2

LEMMA SettleIs ==
  ASSUME Typed, NEW i \in DOMAIN calls, Settle(i)
  PROVE  /\ calls[i].kind = "end" /\ Head(calls[i].todo) = "settle"
         /\ UNCHANGED <<mem, ticking, lastTick, lastSave, buffer, file, openLine, rewritten, uncovered, disk, backupCount, incidents>>
         /\ \/ mem.active /\ state' = state /\ Goes(i, "end", "flush", calls[i].data)
            \/ ~mem.active /\ state' = "stopped" /\ calls' = RemoveAt(calls, i)
<1> DEFINE c == [calls[i] EXCEPT !.todo = After(i)]
<1>1. calls[i] \in CallRecords /\ Head(calls[i].todo) = "settle"
  BY DEF Typed, Settle, Serves
<1>2. calls[i].kind = "end" /\ After(i) = <<"flush">> /\ calls[i].data \in Data
  BY <1>1, Stage DEF After
<1>3. /\ UNCHANGED <<mem, ticking, lastTick, lastSave, buffer, file, openLine, rewritten, uncovered, disk, backupCount, incidents>>
      /\ \/ mem.active /\ state' = state /\ calls' = Append(RemoveAt(calls, i), c)
         \/ ~mem.active /\ state' = "stopped" /\ calls' = RemoveAt(calls, i)
  BY DEF Settle, Works, counts, Continues, Ends, journal, storage
<1>4. MayDo(calls[i].kind, After(i))
  BY <1>2, MayDoIs
<1>5. c \in CallRecords /\ c.kind = calls[i].kind /\ c.todo = After(i) /\ c.data = calls[i].data
  BY <1>1, <1>2, <1>4, ToDoIs, Zenon
<1> HIDE DEF c
<1>6. Head(c.todo) = "flush"
  BY <1>2, <1>5, ShapesAre
<1> QED BY <1>1, <1>2, <1>3, <1>5, <1>6 DEF Goes

LEMMA EndFlushesIs ==
  ASSUME Typed, NEW i \in DOMAIN calls, EndFlushes(i), now' = now
  PROVE  /\ calls[i].kind = "end" /\ Head(calls[i].todo) = "flush"
         /\ UNCHANGED <<state, ticking, lastTick, lastSave, disk, backupCount>> /\ Appends
         /\ \/ /\ buffer' = {} /\ incidents' = incidents
               /\ mem' \in Mems /\ mem'.data = Halted(mem.data)
               /\ mem'.running = FALSE /\ mem'.paused = FALSE /\ mem'.active = FALSE
               /\ Goes(i, "end", "primary", Stamped(EndData))
            \/ Happens("flush") /\ calls' = RemoveAt(calls, i) /\ UNCHANGED mem
<1>1. calls[i] \in CallRecords /\ Head(calls[i].todo) = "flush"
  BY DEF Typed, EndFlushes, Serves
<1>2. calls[i].kind = "end"
  BY <1>1, Stage
<1> DEFINE c == Call("end", <<"primary", "truncate">>, Stamped(EndData), TRUE)
           d == Halted(mem.data)
<1>3. /\ UNCHANGED <<state, ticking, lastTick, lastSave, disk, backupCount>>
      /\ \/ /\ AppendWorks /\ incidents' = incidents
            /\ mem' = [data |-> d, running |-> FALSE, paused |-> FALSE, active |-> FALSE]
            /\ calls' = Append(RemoveAt(calls, i), c)
         \/ AppendFails /\ Happens("flush") /\ calls' = RemoveAt(calls, i) /\ UNCHANGED mem
  BY DEF EndFlushes, Works, Fails, counts, Continues, Ends, storage
<1>0. Appends /\ (AppendWorks => buffer' = {})
  BY <1>3, AppendsIs DEF Typed, AppendWorks
<1>4. d \in Data
  BY MemIs, HaltedIs DEF Typed
<1>5. c \in CallRecords /\ c.kind = "end" /\ Head(c.todo) = "primary" /\ c.data = Stamped(EndData)
  <2>1. PICK force, data, todo : force = TRUE /\ data = Stamped(EndData) /\ todo = <<"primary", "truncate">>
    OBVIOUS
  <2>2. "end" \in Kinds /\ MayDo("end", todo) /\ data \in Data /\ force = ("end" \in {"start", "end"})
    BY <2>1, MayDoIs, EndDataIs, StampedIs DEF Typed, Kinds
  <2> DEFINE e == Call("end", todo, data, force)
  <2>3. e \in CallRecords /\ e.kind = "end" /\ e.todo = todo /\ e.data = data
    <3> HIDE DEF Kinds, Data
    <3> QED BY <2>2, CallIs, SMT
  <2> HIDE DEF c
  <2>4. c = e
    BY <2>1 DEF c
  <2>5. Head(todo) = "primary"
    BY <2>1, ShapesAre
  <2> HIDE DEF e
  <2> QED BY <2>1, <2>3, <2>4, <2>5
<1> HIDE DEF c, d
<1>6. ASSUME mem' = [data |-> d, running |-> FALSE, paused |-> FALSE, active |-> FALSE]
      PROVE  mem' \in Mems /\ mem'.data = d /\ mem'.running = FALSE /\ mem'.paused = FALSE /\ mem'.active = FALSE
  <2> HIDE DEF Data
  <2> QED BY <1>4, <1>6 DEF Mems
<1> QED BY <1>0, <1>1, <1>2, <1>3, <1>5, <1>6 DEF Goes, d

LEMMA StartIs ==
  ASSUME Typed, Start
  PROVE  /\ state \in {"down", "stopped"} /\ calls = <<>> /\ state' = "stopped"
         /\ Issues("start", "read", EmptyData)
         /\ UNCHANGED <<now, lastTick, beatDue, ticking, mem, buffer, file, openLine, rewritten, uncovered, disk, backupCount, lastSave, crashes, incidents>>
<1>1. PICK force, data, todo : force = TRUE /\ data = EmptyData /\ todo = <<"read", "clear", "primary">>
  OBVIOUS
<1>2. "start" \in Kinds /\ MayDo("start", todo) /\ data \in Data /\ force = ("start" \in {"start", "end"})
  BY <1>1, MayDoIs, DataIs DEF Kinds
<1> DEFINE e == Call("start", todo, data, force)
<1>3. e \in CallRecords /\ e.kind = "start" /\ e.todo = todo /\ e.data = data
  <2> HIDE DEF Kinds, Data
  <2> QED BY <1>2, CallIs, SMT
<1>4. Head(todo) = "read"
  BY <1>1, ShapesAre
<1>5. /\ state \in {"down", "stopped"} /\ calls = <<>> /\ state' = "stopped"
      /\ calls' = Append(calls, e)
      /\ UNCHANGED <<now, lastTick, beatDue, ticking, mem, buffer, file, openLine, rewritten, uncovered, disk, backupCount, lastSave, crashes, incidents>>
  BY <1>1 DEF Start, Issue, clock, journal, storage, counts
<1> HIDE DEF e
<1> QED BY <1>1, <1>3, <1>4, <1>5 DEF Issues

LEMMA StopIs ==
  ASSUME Typed, Stop
  PROVE  /\ state \in {"running", "paused_idle"} /\ ~InFlight("end")
         /\ ticking' = FALSE /\ beatDue' = FALSE
         /\ Issues("end", "settle", EmptyData)
         /\ UNCHANGED <<now, lastTick, state, mem, buffer, file, openLine, rewritten, uncovered, disk, backupCount, lastSave, crashes, incidents>>
<1>1. PICK force, data, todo : force = TRUE /\ data = EmptyData /\ todo = <<"settle", "flush">>
  OBVIOUS
<1>2. "end" \in Kinds /\ MayDo("end", todo) /\ data \in Data /\ force = ("end" \in {"start", "end"})
  BY <1>1, MayDoIs, DataIs DEF Kinds
<1> DEFINE e == Call("end", todo, data, force)
<1>3. e \in CallRecords /\ e.kind = "end" /\ e.todo = todo /\ e.data = data
  <2> HIDE DEF Kinds, Data
  <2> QED BY <1>2, CallIs, SMT
<1>4. Head(todo) = "settle"
  BY <1>1, ShapesAre
<1>5. /\ state \in {"running", "paused_idle"} /\ ~InFlight("end")
      /\ ticking' = FALSE /\ beatDue' = FALSE
      /\ calls' = Append(calls, e)
      /\ UNCHANGED <<now, lastTick, state, mem, buffer, file, openLine, rewritten, uncovered, disk, backupCount, lastSave, crashes, incidents>>
  BY <1>1 DEF Stop, Issue, journal, storage, counts
<1> HIDE DEF e
<1> QED BY <1>1, <1>3, <1>4, <1>5 DEF Issues

\* A save by the scheduler or by command.
LEMMA SaveIssued ==
  ASSUME Typed, NEW kind \in {"checkpoint", "save"}, Issue(Save(kind, mem.data))
  PROVE  Issues(kind, "primary", Stamped(mem.data))
<1> DEFINE c == Save(kind, mem.data)
<1>1. c \in CallRecords /\ c.kind = kind /\ Head(c.todo) = "primary" /\ c.data = Stamped(mem.data)
  <2>1. kind \in Kinds \ {"start", "end"} /\ mem.data \in Data /\ now \in 1 .. MaxTime
    BY MemIs, Constants DEF Kinds, Typed
  <2> QED BY <2>1, SaveIs
<1>2. calls' = Append(calls, c)
  BY DEF Issue
<1> HIDE DEF c
<1> QED BY <1>1, <1>2 DEF Issues

\* A save of what is now in memory.
LEMMA NewSaveIssued ==
  ASSUME Typed, mem' \in Mems, NEW kind \in {"resume", "rotate", "wake"}, Issue(Save(kind, mem'.data))
  PROVE  Issues(kind, "primary", Stamped(mem'.data))
<1>1. PICK d : d = mem'.data
  OBVIOUS
<1> DEFINE c == Save(kind, d)
<1>2. c \in CallRecords /\ c.kind = kind /\ Head(c.todo) = "primary" /\ c.data = Stamped(d)
  <2>1. mem'.data \in Data
    <3> HIDE DEF Data
    <3> QED BY DEF Mems
  <2>2. kind \in Kinds \ {"start", "end"} /\ d \in Data /\ now \in 1 .. MaxTime
    BY <1>1, <2>1 DEF Kinds, Typed
  <2> QED BY <2>2, SaveIs
<1>3. calls' = Append(calls, c)
  BY <1>1 DEF Issue
<1> HIDE DEF c
<1> QED BY <1>1, <1>2, <1>3 DEF Issues

\* Where the pause cuts the session.
CutAt(idleStart) == IF mem.data.start >= idleStart THEN mem.data.start ELSE idleStart

LEMMA IdlePauseIs ==
  ASSUME Typed, IdlePause
  PROVE  /\ state = "running" /\ ~InFlight("pause")
         /\ UNCHANGED <<now, lastTick, beatDue, ticking, buffer, file, openLine, rewritten, uncovered, disk, backupCount, lastSave>>
         /\ \E idleStart \in 1 .. lastTick :
              /\ \/ mem.data.start <= idleStart /\ mem.data.watermark <= idleStart /\ incidents' = incidents
                 \/ Happens("earlyPause")
              /\ \/ /\ mem.active /\ state' = state /\ Issues("pause", "truncate", EmptyData)
                    /\ mem' \in Mems /\ mem'.active = mem.active /\ mem'.running = FALSE
                    /\ mem'.data.watermark = idleStart
                    /\ mem.running =>
                         /\ mem'.data.total = Add(mem.data.total, Span(mem.data.start, CutAt(idleStart)))
                         /\ mem'.data.start = 0 /\ mem'.data.saved = CutAt(idleStart)
                    /\ ~mem.running =>
                         /\ mem'.data.total = mem.data.total /\ mem'.data.start = mem.data.start
                         /\ mem'.data.saved = mem.data.saved
                 \/ ~mem.active /\ state' = "paused_idle" /\ UNCHANGED <<mem, calls>>
<1>1. PICK idleStart \in 1 .. lastTick :
       LET end == Max({mem.data.start, idleStart})
           cut == [Sealed(mem.data, end, 0) EXCEPT !.saved = end]
           d   == IF mem.running THEN cut ELSE mem.data
       IN  /\ IF idleStart >= Max({mem.data.start, mem.data.watermark})
              THEN UNCHANGED counts ELSE Happens("earlyPause")
           /\ \/ /\ mem.active
                 /\ mem' = [mem EXCEPT !.data = [d EXCEPT !.watermark = idleStart],
                                       !.paused = @ \/ mem.running, !.running = FALSE]
                 /\ Issue(Call("pause", <<"truncate">>, EmptyData, FALSE))
                 /\ UNCHANGED state
              \/ ~mem.active /\ state' = "paused_idle" /\ UNCHANGED <<mem, calls>>
  BY DEF IdlePause
<1>2. /\ state = "running" /\ ~InFlight("pause")
      /\ UNCHANGED <<now, lastTick, beatDue, ticking, buffer, file, openLine, rewritten, uncovered, disk, backupCount, lastSave>>
  BY DEF IdlePause, clock, journal, storage
<1>3. /\ mem.data \in Data /\ mem.data.start \in 0 .. MaxTime /\ mem.data.watermark \in 0 .. MaxTime
      /\ mem \in Mems /\ mem.running \in BOOLEAN /\ mem.paused \in BOOLEAN /\ mem.active \in BOOLEAN
  BY MemIs, FieldsAre DEF Typed
<1>4. MaxTime \in Nat /\ now \in 1 .. MaxTime /\ lastTick \in 1 .. now
  BY Constants DEF Typed
<1>5. mem.data.start \in Int /\ mem.data.watermark \in Int /\ idleStart \in Int /\ idleStart \in 0 .. MaxTime
  BY <1>3, <1>4
<1>6. Max({mem.data.start, idleStart}) = CutAt(idleStart)
  <2>1. PICK a, b : a = mem.data.start /\ b = idleStart
    OBVIOUS
  <2>2. a \in Int /\ b \in Int
    BY <1>5, <2>1
  <2>3. Max({a, b}) = IF a >= b THEN a ELSE b
    BY <2>2, MaxOfTwo
  <2> QED BY <2>1, <2>3 DEF CutAt
<1>7. CutAt(idleStart) \in 0 .. MaxTime /\ CutAt(idleStart) \in -1 .. MaxTime
  BY <1>3, <1>4, <1>5 DEF CutAt
<1>8. \/ mem.data.start <= idleStart /\ mem.data.watermark <= idleStart /\ incidents' = incidents
      \/ Happens("earlyPause")
  <2>1. PICK a, b : a = mem.data.start /\ b = mem.data.watermark
    OBVIOUS
  <2>2. a \in Int /\ b \in Int
    BY <1>5, <2>1
  <2>3. Max({a, b}) = IF a >= b THEN a ELSE b
    BY <2>2, MaxOfTwo
  <2>4. CASE idleStart >= Max({a, b})
    <3>1. incidents' = incidents
      BY <1>1, <2>1, <2>4 DEF counts
    <3> QED BY <1>5, <2>1, <2>2, <2>3, <2>4, <3>1
  <2>5. CASE ~(idleStart >= Max({a, b}))
    BY <1>1, <2>1, <2>5
  <2> QED BY <2>4, <2>5
<1>9. CASE mem.active
  <2> DEFINE end == CutAt(idleStart)
             seal == Sealed(mem.data, end, 0)
             cut == [seal EXCEPT !.saved = end]
             d == IF mem.running THEN cut ELSE mem.data
             e == [d EXCEPT !.watermark = idleStart]
             paused == mem.paused \/ mem.running
  <2>1. /\ mem' = [mem EXCEPT !.data = e, !.paused = paused, !.running = FALSE]
        /\ Issue(Call("pause", <<"truncate">>, EmptyData, FALSE)) /\ state' = state
    BY <1>1, <1>6, <1>9
  <2> HIDE DEF end
  <2>2. end \in 0 .. MaxTime /\ end \in -1 .. MaxTime
    BY <1>7 DEF end
  <2>3. /\ seal \in Data /\ seal.total = Add(mem.data.total, Span(mem.data.start, end)) /\ seal.start = 0
    <3>1. 0 \in 0 .. MaxTime
      BY <1>4
    <3> QED BY <1>3, <2>2, <3>1, SealedIs
  <2> HIDE DEF seal
  <2>4. cut \in Data /\ cut.total = seal.total /\ cut.start = seal.start /\ cut.saved = end
    BY <2>2, <2>3, DataIs
  <2> HIDE DEF cut
  <2>5. d \in Data
    BY <1>3, <2>4
  <2>6. /\ mem.running => d.total = cut.total /\ d.start = cut.start /\ d.saved = cut.saved
        /\ ~mem.running => d = mem.data
    OBVIOUS
  <2> HIDE DEF d
  <2>7. /\ e \in Data /\ e.watermark = idleStart
        /\ e.total = d.total /\ e.start = d.start /\ e.saved = d.saved
    BY <1>5, <2>5, DataIs
  <2> HIDE DEF e
  <2>8. paused \in BOOLEAN
    BY <1>3
  <2> HIDE DEF paused
  <2>9. mem' \in Mems /\ mem'.data = e /\ mem'.active = mem.active /\ mem'.running = FALSE
    <3> HIDE DEF Data
    <3> QED BY <1>3, <2>1, <2>7, <2>8 DEF Mems
  <2>10. Issues("pause", "truncate", EmptyData)
    <3>1. PICK force, data, todo : force = FALSE /\ data = EmptyData /\ todo = <<"truncate">>
      OBVIOUS
    <3>2. "pause" \in Kinds /\ MayDo("pause", todo) /\ data \in Data /\ force = ("pause" \in {"start", "end"})
      <4>1. "pause" \in Kinds /\ data \in Data
        BY <3>1, DataIs DEF Kinds
      <4>2. MayDo("pause", todo)
        BY <3>1, MayDoIs
      <4>3. ("pause" \in {"start", "end"}) = FALSE
        OBVIOUS
      <4> QED BY <3>1, <4>1, <4>2, <4>3, Zenon
    <3> DEFINE c == Call("pause", todo, data, force)
    <3>3. c \in CallRecords /\ c.kind = "pause" /\ c.todo = todo /\ c.data = data
      <4> HIDE DEF Kinds, Data
      <4> QED BY <3>2, CallIs, SMT
    <3>4. Head(todo) = "truncate"
      BY <3>1, ShapesAre
    <3>5. calls' = Append(calls, c)
      BY <2>1, <3>1 DEF Issue
    <3> HIDE DEF c
    <3> QED BY <3>1, <3>3, <3>4, <3>5 DEF Issues
  <2>11. mem.running => /\ mem'.data.total = Add(mem.data.total, Span(mem.data.start, end))
                        /\ mem'.data.start = 0 /\ mem'.data.saved = end
    BY <2>3, <2>4, <2>6, <2>7, <2>9
  <2>12. ~mem.running => /\ mem'.data.total = mem.data.total /\ mem'.data.start = mem.data.start
                         /\ mem'.data.saved = mem.data.saved
    BY <2>6, <2>7, <2>9
  <2>13. mem'.data.watermark = idleStart
    BY <2>7, <2>9
  <2> QED BY <1>2, <1>8, <1>9, <2>1, <2>9, <2>10, <2>11, <2>12, <2>13 DEF end
<1>10. CASE ~mem.active
  BY <1>1, <1>2, <1>8, <1>10
<1> QED BY <1>9, <1>10

LEMMA IdleResumeIs ==
  ASSUME Typed, IdleResume
  PROVE  /\ state = "paused_idle" /\ ~InFlight("resume")
         /\ UNCHANGED <<now, lastTick, beatDue, ticking, buffer, file, openLine, rewritten, uncovered, disk, backupCount, lastSave, crashes, incidents>>
         /\ \/ /\ mem.active /\ state' = state /\ Issues("resume", "primary", Stamped(mem'.data))
               /\ mem' \in Mems /\ mem'.active = mem.active /\ mem'.running = TRUE /\ mem'.paused = FALSE
               /\ mem'.data.total = mem.data.total /\ mem'.data.start = now /\ mem'.data.saved = now
               /\ mem'.data.watermark = now
            \/ ~mem.active /\ state' = "running" /\ UNCHANGED <<mem, calls>>
<1>1. /\ state = "paused_idle" /\ ~InFlight("resume")
      /\ UNCHANGED <<now, lastTick, beatDue, ticking, buffer, file, openLine, rewritten, uncovered, disk, backupCount, lastSave, crashes, incidents>>
      /\ \/ /\ mem.active
            /\ mem' = [mem EXCEPT !.data.start = now, !.data.saved = now, !.data.watermark = now,
                                  !.running = TRUE, !.paused = FALSE]
            /\ Issue(Save("resume", mem'.data)) /\ state' = state
         \/ ~mem.active /\ state' = "running" /\ UNCHANGED <<mem, calls>>
  BY DEF IdleResume, clock, journal, storage, counts
<1>2. ASSUME mem' = [mem EXCEPT !.data.start = now, !.data.saved = now, !.data.watermark = now,
                                !.running = TRUE, !.paused = FALSE]
      PROVE  /\ mem' \in Mems /\ mem'.active = mem.active /\ mem'.running = TRUE /\ mem'.paused = FALSE
             /\ mem'.data.total = mem.data.total /\ mem'.data.start = now /\ mem'.data.saved = now
             /\ mem'.data.watermark = now
  <2>1. /\ mem \in Mems /\ mem.data \in Data /\ now \in 0 .. MaxTime /\ now \in -1 .. MaxTime
    BY MemIs, Constants DEF Typed
  <2> DEFINE d == [mem.data EXCEPT !.start = now, !.saved = now, !.watermark = now]
  <2>2. /\ d \in Data /\ d.total = mem.data.total /\ d.start = now /\ d.saved = now /\ d.watermark = now
    BY <2>1, DataIs
  <2>3. mem' = [mem EXCEPT !.data = d, !.running = TRUE, !.paused = FALSE]
    <3> HIDE DEF Data
    <3> QED BY <1>2, <2>1 DEF Mems
  <2> HIDE DEF d
  <2>4. mem' \in Mems /\ mem'.data = d /\ mem'.active = mem.active /\ mem'.running = TRUE /\ mem'.paused = FALSE
    <3> HIDE DEF Data
    <3> QED BY <2>1, <2>2, <2>3 DEF Mems
  <2> QED BY <2>2, <2>4
<1>3. CASE mem.active
  <2>1. /\ mem' = [mem EXCEPT !.data.start = now, !.data.saved = now, !.data.watermark = now,
                              !.running = TRUE, !.paused = FALSE]
        /\ Issue(Save("resume", mem'.data)) /\ state' = state
    BY <1>1, <1>3
  <2>2. Issues("resume", "primary", Stamped(mem'.data))
    BY <1>2, <2>1, NewSaveIssued
  <2> QED BY <1>1, <1>2, <1>3, <2>1, <2>2
<1>4. CASE ~mem.active
  BY <1>1, <1>4
<1> QED BY <1>3, <1>4

\* A day that is another one than at the last heartbeat has begun after it.
LEMMA DayIs ==
  ASSUME NEW a \in Nat, NEW b \in Nat, a <= b, Day(a) # Day(b)
  PROVE  Day(b) \in Nat /\ a < Day(b) /\ Day(b) <= b
<1> DEFINE A == {0} \union {m \in Midnights : m <= a}
           B == {0} \union {m \in Midnights : m <= b}
<1>1. \A m \in Midnights : m \in Nat
  BY Constants
<1>2. A \in SUBSET (0 .. a) /\ A # {} /\ B \in SUBSET (0 .. b) /\ B # {}
  <2>1. 0 \in A /\ 0 \in B
    OBVIOUS
  <2>2. (\A m \in A : m \in 0 .. a) /\ (\A m \in B : m \in 0 .. b)
    BY <1>1
  <2> QED BY <2>1, <2>2
<1>3. \A m \in B : m <= a => m \in A
  BY <1>1
<1>4. A \subseteq B
  BY <1>1
<1>5. Day(a) = Max(A) /\ Day(b) = Max(B)
  BY DEF Day
<1> HIDE DEF A, B
<1>6. Max(A) \in A /\ \A y \in A : Max(A) >= y
  BY <1>2, MaxIs
<1>7. Max(B) \in B /\ \A y \in B : Max(B) >= y
  BY <1>2, MaxIs
<1>8. Max(B) \in Nat /\ Max(B) <= b /\ Max(A) \in Nat
  <2>1. Max(B) \in 0 .. b /\ Max(A) \in 0 .. a
    BY <1>2, <1>6, <1>7
  <2> HIDE DEF Max
  <2> QED BY <2>1
<1>9. a < Max(B)
  <2> SUFFICES ASSUME Max(B) <= a  PROVE FALSE
    BY <1>8
  <2>1. Max(B) \in A /\ Max(A) \in B
    BY <1>3, <1>4, <1>6, <1>7
  <2>2. Max(A) >= Max(B) /\ Max(B) >= Max(A)
    BY <1>6, <1>7, <2>1
  <2>3. Max(A) = Max(B)
    BY <1>8, <2>2
  <2> QED BY <1>5, <2>3
<1> QED BY <1>5, <1>8, <1>9

\* A running session is cut where the last part of it has ended, and goes on from
\* another time.
LEMMA CutIs ==
  ASSUME Typed, NEW end \in 0 .. MaxTime, NEW at \in 1 .. MaxTime, mem' = WithWatermark(Cut(end, at), at)
  PROVE  /\ mem' \in Mems /\ mem'.running = mem.running /\ mem'.paused = mem.paused /\ mem'.active = mem.active
         /\ mem'.data.watermark = at
         /\ mem.running => /\ mem'.data.total = Add(mem.data.total, Span(mem.data.start, end))
                           /\ mem'.data.start = at /\ mem'.data.saved = at
         /\ ~mem.running => /\ mem'.data.total = mem.data.total /\ mem'.data.start = mem.data.start
                            /\ mem'.data.saved = mem.data.saved
<1>1. mem \in Mems /\ mem.data \in Data /\ at \in 0 .. MaxTime /\ at > 0
  BY MemIs, Constants DEF Typed
<1> DEFINE d == Cut(end, at)
           e == [d EXCEPT !.watermark = at]
<1>2. /\ d \in Data
      /\ mem.running => /\ d.total = Add(mem.data.total, Span(mem.data.start, end))
                        /\ d.start = at /\ d.saved = at
      /\ ~mem.running => d = mem.data
  BY <1>1, SealedIs DEF Cut
<1> HIDE DEF d
<1>3. e \in Data /\ e.total = d.total /\ e.start = d.start /\ e.saved = d.saved /\ e.watermark = at
  BY <1>1, <1>2, DataIs
<1>4. mem' = [mem EXCEPT !.data = e]
  BY DEF WithWatermark, d
<1> HIDE DEF e
<1>5. /\ mem' \in Mems /\ mem'.data = e /\ mem'.running = mem.running /\ mem'.paused = mem.paused
      /\ mem'.active = mem.active
  <2> HIDE DEF Data
  <2> QED BY <1>1, <1>3, <1>4 DEF Mems
<1> QED BY <1>2, <1>3, <1>5

\* The running session is cut at a wake-up, by the last heartbeat, and at midnight.
Moves(end, at) ==
  /\ mem.active
  /\ mem' \in Mems /\ mem'.running = mem.running /\ mem'.paused = mem.paused /\ mem'.active = mem.active
  /\ mem'.data.watermark = at
  /\ mem.running => /\ mem'.data.total = Add(mem.data.total, Span(mem.data.start, end))
                    /\ mem'.data.start = at /\ mem'.data.saved = at
  /\ ~mem.running => /\ mem'.data.total = mem.data.total /\ mem'.data.start = mem.data.start
                     /\ mem'.data.saved = mem.data.saved

\* What a heartbeat that is not late for a sleep leaves in the journal.
Pushed(without) ==
  IF mem.paused THEN UNCHANGED <<buffer, uncovered>>
  ELSE buffer' = buffer \union {now} /\ uncovered' = uncovered \union Span(lastTick, now - 1) \union without

LEMMA HeartbeatIs ==
  ASSUME Typed, Heartbeat
  PROVE  /\ ticking = TRUE /\ beatDue = TRUE /\ beatDue' = FALSE /\ lastTick' = now
         /\ UNCHANGED <<now, file, openLine, rewritten, state, ticking, disk, backupCount, lastSave, crashes, incidents>>
         /\ \/ /\ Moves(lastTick, now) /\ Issues("wake", "primary", Stamped(mem'.data))
               /\ UNCHANGED <<buffer, uncovered>>
            \/ \E at \in 1 .. now :
                 /\ lastTick < at /\ Moves(at, at) /\ Issues("rotate", "primary", Stamped(mem'.data))
                 /\ Pushed(Span(at, mem.data.start))
            \/ UNCHANGED <<mem, calls>> /\ Pushed({})
<1>1. /\ ticking = TRUE /\ beatDue = TRUE /\ beatDue' = FALSE /\ lastTick' = now
      /\ UNCHANGED <<now, file, openLine, rewritten, state, ticking, disk, backupCount, lastSave, crashes, incidents>>
  BY DEF Heartbeat, Typed, storage, counts
<1>2. MaxTime \in Nat /\ now \in 1 .. MaxTime /\ lastTick \in 1 .. now /\ lastTick \in 0 .. MaxTime /\ now \in 0 .. MaxTime
  BY Constants DEF Typed
<1>3. CASE WakesUp
  <2>1. /\ mem.active /\ mem' = WithWatermark(Cut(lastTick, now), now) /\ Issue(Save("wake", mem'.data))
        /\ UNCHANGED <<buffer, uncovered>>
    BY <1>3 DEF WakesUp
  <2>2. Moves(lastTick, now) /\ mem' \in Mems
    BY <1>2, <2>1, CutIs DEF Moves
  <2>3. Issues("wake", "primary", Stamped(mem'.data))
    BY <2>1, <2>2, NewSaveIssued
  <2> QED BY <1>1, <2>1, <2>2, <2>3
<1>4. CASE Rotates
  <2>0. PICK at : at = Day(now)
    OBVIOUS
  <2>1. /\ mem.active /\ mem' = WithWatermark(Cut(at, at), at) /\ Issue(Save("rotate", mem'.data))
        /\ SlicePushed(Span(at, mem.data.start)) /\ Day(now) # Day(lastTick)
    BY <1>4, <2>0 DEF Rotates
  <2>2. at \in 1 .. now /\ lastTick < at /\ at \in 1 .. MaxTime /\ at \in 0 .. MaxTime
    <3>1. lastTick \in Nat /\ now \in Nat /\ lastTick <= now /\ 1 <= lastTick /\ now <= MaxTime
      BY <1>2
    <3>2. at \in Nat /\ lastTick < at /\ at <= now
      BY <2>0, <2>1, <3>1, DayIs
    <3> QED BY <1>2, <3>1, <3>2
  <2>3. Moves(at, at) /\ mem' \in Mems /\ mem'.paused = mem.paused
    BY <2>1, <2>2, CutIs DEF Moves
  <2>4. Issues("rotate", "primary", Stamped(mem'.data))
    BY <2>1, <2>3, NewSaveIssued
  <2>5. Pushed(Span(at, mem.data.start))
    BY <2>1, <2>3 DEF SlicePushed, Pushed
  <2> QED BY <1>1, <2>2, <2>3, <2>4, <2>5
<1>5. CASE BeatsOn
  <2>1. UNCHANGED <<mem, calls>> /\ Pushed({})
    BY <1>5 DEF BeatsOn, SlicePushed, Pushed
  <2> QED BY <1>1, <2>1
<1> QED BY <1>3, <1>4, <1>5 DEF Heartbeat

LEMMA HeartbeatPushes ==
  ASSUME Typed, Heartbeat
  PROVE  /\ buffer' \subseteq buffer \union {now} /\ buffer \subseteq buffer'
         /\ \E T \in SUBSET (1 .. MaxTime) : uncovered' = uncovered \union T
<1>1. /\ mem.data.start \in 0 .. MaxTime /\ MaxTime \in Nat /\ now \in 1 .. MaxTime /\ lastTick \in 1 .. now
  BY MemIs, FieldsAre, Constants DEF Typed
<1>2. ASSUME NEW w \in SUBSET (1 .. MaxTime), Pushed(w)
      PROVE  /\ buffer' \subseteq buffer \union {now} /\ buffer \subseteq buffer'
             /\ \E T \in SUBSET (1 .. MaxTime) : uncovered' = uncovered \union T
  <2>1. Span(lastTick, now - 1) \subseteq 1 .. MaxTime
    BY <1>1 DEF Span
  <2>2. CASE mem.paused
    <3>1. uncovered' = uncovered \union {} /\ {} \in SUBSET (1 .. MaxTime) /\ buffer' = buffer
      BY <1>2, <2>2 DEF Pushed
    <3> QED BY <3>1
  <2>3. CASE ~mem.paused
    <3> DEFINE T == Span(lastTick, now - 1) \union w
    <3>1. uncovered' = uncovered \union T /\ buffer' = buffer \union {now} /\ T \in SUBSET (1 .. MaxTime)
      BY <1>2, <2>1, <2>3 DEF Pushed
    <3> HIDE DEF T
    <3> QED BY <3>1
  <2> QED BY <2>2, <2>3
<1>3. UNCHANGED <<buffer, uncovered>> \/ \E w \in SUBSET (1 .. MaxTime) : Pushed(w)
  <2>1. \A at \in 1 .. now : Span(at, mem.data.start) \in SUBSET (1 .. MaxTime)
    BY <1>1 DEF Span
  <2>2. {} \in SUBSET (1 .. MaxTime)
    OBVIOUS
  <2> QED BY <2>1, <2>2, HeartbeatIs
<1>4. CASE UNCHANGED <<buffer, uncovered>>
  <2>1. uncovered' = uncovered \union {} /\ {} \in SUBSET (1 .. MaxTime) /\ buffer' = buffer
    BY <1>4
  <2> QED BY <2>1
<1> QED BY <1>2, <1>3, <1>4

LEMMA GoesIs ==
  ASSUME Typed, NEW i \in DOMAIN calls, NEW kind, NEW op, NEW d, Goes(i, kind, op, d)
  PROVE  calls' \in Seq(CallRecords)
<1>1. RemoveAt(calls, i) \in Seq(CallRecords)
  BY RemovedIs DEF Typed
<1>2. PICK c \in CallRecords : calls' = Append(RemoveAt(calls, i), c)
  BY DEF Goes
<1> QED BY <1>1, <1>2, IssuedIs

LEMMA IssuesIs ==
  ASSUME Typed, NEW kind, NEW op, NEW d, Issues(kind, op, d)
  PROVE  calls' \in Seq(CallRecords)
<1>1. PICK c \in CallRecords : calls' = Append(calls, c)
  BY DEF Issues
<1> QED BY <1>1, IssuedIs DEF Typed

LEMMA RestIs ==
  ASSUME Typed, NEW i \in DOMAIN calls, calls' = RemoveAt(calls, i)
  PROVE  calls' \in Seq(CallRecords)
  BY RemovedIs DEF Typed

\* A call that is done leaves the types.
LEMMA TypedDone ==
  ASSUME Typed, NEW i \in DOMAIN calls, Starts(i) \/ Returns(i), now' = now, beatDue' = beatDue
  PROVE  /\ mem' \in Mems /\ calls' \in Seq(CallRecords) /\ ticking' \in BOOLEAN
         /\ lastTick' \in 1 .. now /\ lastSave' \in 1 .. now
         /\ state' \in {"down", "stopped", "running", "paused_idle"}
<1>0. now \in 1 .. now
  BY Constants DEF Typed
<1>1. CASE Starts(i)
  BY <1>0, <1>1, RestIs DEF Starts, Typed
<1>2. CASE Returns(i)
  BY <1>2, RestIs DEF Returns, Typed
<1> QED BY <1>1, <1>2

LEMMA JournalEmptied ==
  ASSUME Journaled, now \in 1 .. MaxTime, now' = now, buffer' \in SUBSET buffer, rewritten' = rewritten, EmptiedOrNot
  PROVE  Journaled'
<1>1. buffer' \in SUBSET (1 .. now') /\ now' \in now .. MaxTime
  BY Constants DEF Journaled
<1>2. Emptied \/ UNCHANGED <<file, openLine>>
  BY DEF EmptiedOrNot
<1>3. uncovered' \in SUBSET (1 .. MaxTime)
  BY DEF EmptiedOrNot, Emptied, Journaled
<1> QED BY <1>1, <1>2, <1>3, JournalStays

LEMMA JournalSame ==
  ASSUME Journaled, now' = now, UNCHANGED <<buffer, file, openLine, rewritten, uncovered>>
  PROVE  Journaled'
  BY DEF Journaled

LEMMA TypedIO ==
  ASSUME Typed, IO
  PROVE  Typed'
<1>1. now' = now /\ beatDue' = beatDue /\ now \in 1 .. MaxTime /\ now' \in 1 .. MaxTime
  BY DEF IO, Typed
<1>0. Journaled /\ now \in 1 .. MaxTime /\ now' = now
  BY <1>1 DEF Typed
<1>2. PICK i \in DOMAIN calls :
         \/ Read(i) \/ Clear(i) \/ SavePrimary(i) \/ SaveBackup(i) \/ PauseTruncates(i)
         \/ EndTruncates(i) \/ Settle(i) \/ EndFlushes(i)
  BY DEF IO
<1>3. calls[i] \in CallRecords
  BY DEF Typed
<1>4. calls[i].data \in Data
  BY <1>3, Stage
<1>5. CASE Read(i)
  <2>1. calls' \in Seq(CallRecords)
    BY <1>5, ReadIs, GoesIs
  <2>2. InProcess /\ UNCHANGED <<buffer, file, openLine, rewritten, uncovered, disk, backupCount>>
    BY <1>5, ReadIs
  <2> QED BY <1>1, <2>1, <2>2 DEF Typed, Journaled, InProcess
<1>6. CASE Clear(i)
  <2>1. calls' \in Seq(CallRecords)
    BY <1>6, ClearIs, GoesIs
  <2>2. InProcess /\ UNCHANGED <<buffer, disk, backupCount>>
    BY <1>6, ClearIs
  <2>3. Journaled'
    <3>1. UNCHANGED <<buffer, rewritten>> /\ EmptiedOrNot
      BY <1>6, ClearIs DEF EmptiedOrNot
    <3> QED BY <1>0, <3>1, JournalEmptied DEF Journaled
  <2> QED BY <1>1, <2>1, <2>2, <2>3 DEF Typed, InProcess
<1>7. CASE SavePrimary(i)
  <2>1. UNCHANGED <<buffer, file, openLine, rewritten, uncovered>> /\ backupCount' \in 0 .. 2
    BY <1>7, SavePrimaryIs
  <2>2. disk' \in [primary : Data, backup : Data]
    <3>1. disk' = [disk EXCEPT !.primary = calls[i].data] \/ disk' = disk
      BY <1>7, SavePrimaryIs
    <3>2. [disk EXCEPT !.primary = calls[i].data] \in [primary : Data, backup : Data]
      BY <1>4, DiskIs DEF Typed
    <3> QED BY <3>1, <3>2 DEF Typed
  <2>3. \/ InProcess /\ Goes(i, calls[i].kind, "backup", calls[i].data)
        \/ Returns(i)
    BY <1>7, SavePrimaryIs
  <2>4. CASE InProcess /\ Goes(i, calls[i].kind, "backup", calls[i].data)
    <3>1. calls' \in Seq(CallRecords)
      BY <2>4, GoesIs
    <3> QED BY <1>1, <2>1, <2>2, <2>4, <3>1 DEF Typed, Journaled, InProcess
  <2>5. CASE Returns(i)
    BY <1>1, <2>1, <2>2, <2>5, TypedDone DEF Typed, Journaled
  <2> QED BY <2>3, <2>4, <2>5
<1>8. CASE SaveBackup(i)
  <2>1. UNCHANGED <<buffer, file, openLine, rewritten, uncovered, backupCount>>
    BY <1>8, SaveBackupIs
  <2>2. disk' \in [primary : Data, backup : Data]
    <3>1. disk' = [disk EXCEPT !.backup = calls[i].data] \/ disk' = disk
      BY <1>8, SaveBackupIs
    <3>2. [disk EXCEPT !.backup = calls[i].data] \in [primary : Data, backup : Data]
      BY <1>4, DiskIs DEF Typed
    <3> QED BY <3>1, <3>2 DEF Typed
  <2>3. \/ InProcess /\ Goes(i, "end", "truncate", calls[i].data)
        \/ Starts(i) \/ Returns(i)
    BY <1>8, SaveBackupIs
  <2>4. CASE InProcess /\ Goes(i, "end", "truncate", calls[i].data)
    <3>1. calls' \in Seq(CallRecords)
      BY <2>4, GoesIs
    <3> QED BY <1>1, <2>1, <2>2, <2>4, <3>1 DEF Typed, Journaled, InProcess
  <2>5. CASE Starts(i) \/ Returns(i)
    BY <1>1, <2>1, <2>2, <2>5, TypedDone DEF Typed, Journaled
  <2> QED BY <2>3, <2>4, <2>5
<1>9. CASE PauseTruncates(i)
  <2>1. InProcess /\ UNCHANGED <<disk, backupCount>>
    BY <1>9, PauseTruncatesIs
  <2>3. Journaled'
    <3>1. buffer' = {} /\ rewritten' = rewritten /\ EmptiedOrNot
      BY <1>9, PauseTruncatesIs DEF EmptiedOrNot
    <3> QED BY <1>0, <3>1, JournalEmptied
  <2>2. calls' \in Seq(CallRecords)
    BY <1>9, PauseTruncatesIs, GoesIs, RestIs
  <2> QED BY <1>1, <2>1, <2>2, <2>3 DEF Typed, InProcess
<1>10. CASE EndTruncates(i)
  <2>1. /\ UNCHANGED <<ticking, lastTick, lastSave, disk, backupCount>>
        /\ mem' \in Mems /\ state' \in {"down", "stopped", "running", "paused_idle"}
    BY <1>10, EndTruncatesIs DEF Typed
  <2>3. Journaled'
    <3>1. buffer' = {} /\ rewritten' = rewritten /\ EmptiedOrNot
      BY <1>10, EndTruncatesIs DEF EmptiedOrNot
    <3> QED BY <1>0, <3>1, JournalEmptied
  <2>2. calls' \in Seq(CallRecords)
    BY <1>10, EndTruncatesIs, RestIs
  <2> QED BY <1>1, <2>1, <2>2, <2>3 DEF Typed
<1>11. CASE Settle(i)
  <2>1. /\ UNCHANGED <<mem, ticking, lastTick, lastSave, buffer, file, openLine, rewritten, uncovered, disk, backupCount>>
        /\ state' \in {"down", "stopped", "running", "paused_idle"}
    BY <1>11, SettleIs DEF Typed
  <2>2. calls' \in Seq(CallRecords)
    BY <1>11, SettleIs, GoesIs, RestIs
  <2> QED BY <1>1, <2>1, <2>2 DEF Typed, Journaled
<1>12. CASE EndFlushes(i)
  <2>1. /\ UNCHANGED <<state, ticking, lastTick, lastSave, disk, backupCount>>
        /\ mem' \in Mems /\ Journaled'
    BY <1>1, <1>12, EndFlushesIs DEF Typed, Appends
  <2>2. calls' \in Seq(CallRecords)
    BY <1>1, <1>12, EndFlushesIs, GoesIs, RestIs
  <2> QED BY <1>1, <2>1, <2>2 DEF Typed, Journaled
<1> QED BY <1>2, <1>5, <1>6, <1>7, <1>8, <1>9, <1>10, <1>11, <1>12

LEMMA FlushIs ==
  ASSUME Typed, Flush
  PROVE  /\ Appends /\ (incidents' = incidents \/ Happens("flush"))
         /\ UNCHANGED <<now, lastTick, beatDue, state, ticking, mem, disk, backupCount, lastSave, calls>>
<1>1. /\ (AppendWorks /\ incidents' = incidents) \/ (AppendFails /\ Happens("flush"))
      /\ UNCHANGED <<now, lastTick, beatDue, state, ticking, mem, disk, backupCount, lastSave, calls>>
  BY DEF Flush, Works, Fails, counts, clock, storage
<1>2. Appends
  BY <1>1, AppendsIs DEF Typed
<1> QED BY <1>1, <1>2

LEMMA TypedNext ==
  ASSUME Typed, [Next]_vars
  PROVE  Typed'
<1>1. now \in 1 .. MaxTime /\ now \in 1 .. now
  BY Constants DEF Typed
<1>2. CASE Start
  BY <1>2, StartIs, IssuesIs DEF Typed, Journaled
<1>3. CASE Stop
  BY <1>3, StopIs, IssuesIs DEF Typed, Journaled
<1>4. CASE Checkpoint
  <2>1. calls' \in Seq(CallRecords)
    BY <1>4, SaveIssued, IssuesIs DEF Checkpoint
  <2>2. lastSave' = now /\ UNCHANGED <<now, lastTick, beatDue, state, ticking, mem, buffer, file, openLine, rewritten, uncovered, disk, backupCount>>
    BY <1>4 DEF Checkpoint, clock, journal, storage
  <2> QED BY <1>1, <2>1, <2>2 DEF Typed, Journaled
<1>5. CASE SaveNow
  <2>1. calls' \in Seq(CallRecords)
    BY <1>5, SaveIssued, IssuesIs DEF SaveNow
  <2>2. UNCHANGED <<now, lastTick, beatDue, state, ticking, mem, buffer, file, openLine, rewritten, uncovered, disk, backupCount, lastSave>>
    BY <1>5 DEF SaveNow, clock, journal, storage
  <2> QED BY <1>1, <2>1, <2>2 DEF Typed, Journaled
<1>6. CASE Flush
  <2>1. Journaled'
    BY <1>6, FlushIs DEF Appends
  <2>2. UNCHANGED <<now, lastTick, beatDue, state, ticking, mem, disk, backupCount, lastSave, calls>>
    BY <1>6 DEF Flush, clock, storage
  <2> QED BY <1>1, <2>1, <2>2 DEF Typed, Journaled
<1>7. CASE IdlePause
  <2>1. mem' \in Mems /\ state' \in {"down", "stopped", "running", "paused_idle"} /\ calls' \in Seq(CallRecords)
    BY <1>7, IdlePauseIs, IssuesIs DEF Typed
  <2>2. UNCHANGED <<now, lastTick, beatDue, ticking, buffer, file, openLine, rewritten, uncovered, disk, backupCount, lastSave>>
    BY <1>7, IdlePauseIs
  <2> QED BY <1>1, <2>1, <2>2 DEF Typed, Journaled
<1>8. CASE IdleResume
  <2>1. mem' \in Mems /\ state' \in {"down", "stopped", "running", "paused_idle"} /\ calls' \in Seq(CallRecords)
    BY <1>8, IdleResumeIs, IssuesIs DEF Typed
  <2>2. UNCHANGED <<now, lastTick, beatDue, ticking, buffer, file, openLine, rewritten, uncovered, disk, backupCount, lastSave>>
    BY <1>8, IdleResumeIs
  <2> QED BY <1>1, <2>1, <2>2 DEF Typed, Journaled
<1>9. CASE Heartbeat
  <2>1. mem' \in Mems
    BY <1>9, HeartbeatIs DEF Moves, Typed
  <2>2. calls' \in Seq(CallRecords)
    BY <1>9, HeartbeatIs, IssuesIs DEF Typed
  <2>3. Journaled'
    <3>1. buffer' \subseteq buffer \union {now} /\ \E T \in SUBSET (1 .. MaxTime) : uncovered' = uncovered \union T
      BY <1>9, HeartbeatPushes
    <3>2. /\ now' = now /\ now' \in now .. MaxTime /\ 1 .. now \subseteq 1 .. MaxTime
          /\ UNCHANGED <<file, openLine, rewritten>>
      BY <1>1, <1>9, HeartbeatIs, Constants
    <3>3. buffer' \in SUBSET (1 .. now') /\ uncovered' \in SUBSET (1 .. MaxTime)
      BY <1>1, <3>1, <3>2 DEF Typed, Journaled
    <3> QED BY <3>2, <3>3, JournalStays DEF Typed
  <2>4. beatDue' = FALSE /\ lastTick' = now /\ UNCHANGED <<now, state, ticking, disk, backupCount, lastSave>>
    BY <1>9, HeartbeatIs
  <2> QED BY <1>1, <2>1, <2>2, <2>3, <2>4 DEF Typed
<1>10. CASE AdvanceClock
  <2>1. PICK step \in 1 .. SleepTicks : now + step <= MaxTime /\ now' = now + step
    BY <1>10 DEF AdvanceClock
  <2>2. step \in Nat /\ MaxTime \in Nat
    BY Constants
  <2>3. now' \in 1 .. MaxTime /\ now <= now' /\ now' \in Nat
    BY <1>1, <2>1, <2>2
  <2>4. 1 .. now \subseteq 1 .. now'
    BY <1>1, <2>3
  <2>5. beatDue' = ticking /\ UNCHANGED <<lastTick, state, ticking, mem, buffer, file, openLine, rewritten, uncovered, disk, backupCount, lastSave, calls>>
    BY <1>10 DEF AdvanceClock, journal, storage
  <2>6. lastTick' \in 1 .. now' /\ lastSave' \in 1 .. now'
    BY <2>4, <2>5 DEF Typed
  <2>7. Journaled'
    <3>1. now' \in now .. MaxTime /\ buffer' \in SUBSET (1 .. now') /\ uncovered' \in SUBSET (1 .. MaxTime)
      BY <1>1, <2>3, <2>4, <2>5 DEF Typed, Journaled
    <3> QED BY <1>1, <2>5, <3>1, JournalStays DEF Typed
  <2> QED BY <1>1, <2>3, <2>5, <2>6, <2>7 DEF Typed
<1>11. CASE Crash
  <2>1. /\ state' = "down" /\ ticking' = FALSE /\ beatDue' = FALSE /\ mem' = NewMem /\ buffer' = {} /\ calls' = <<>>
        /\ backupCount' = 0 /\ UNCHANGED <<now, lastTick, file, openLine, rewritten, disk, lastSave>> /\ uncovered' = {}
    BY <1>11 DEF Crash
  <2>2. mem' \in Mems /\ calls' \in Seq(CallRecords)
    BY <2>1, MemIs DEF Typed
  <2>3. backupCount' \in 0 .. 2 /\ ticking' \in BOOLEAN /\ beatDue' \in BOOLEAN
    <3>1. 0 \in 0 .. 2
      OBVIOUS
    <3>2. ticking' \in BOOLEAN /\ beatDue' \in BOOLEAN
      BY <2>1, Zenon
    <3> QED BY <2>1, <3>1, <3>2, Zenon
  <2>4. Journaled' /\ now' \in 1 .. MaxTime
    BY <1>1, <2>1 DEF Typed, Journaled
  <2>5. lastTick' \in 1 .. now' /\ lastSave' \in 1 .. now' /\ state' \in {"down", "stopped", "running", "paused_idle"}
    BY <2>1 DEF Typed
  <2>6. disk' \in [primary : Data, backup : Data]
    BY <2>1 DEF Typed
  <2> QED BY <2>2, <2>3, <2>4, <2>5, <2>6 DEF Typed
<1>12. CASE UNCHANGED vars
  BY <1>12 DEF Typed, Journaled, vars, clock, journal, storage, counts
<1> QED BY <1>2, <1>3, <1>4, <1>5, <1>6, <1>7, <1>8, <1>9, <1>10, <1>11, <1>12, TypedIO DEF Next

LEMMA TypedInit ==
  ASSUME Init
  PROVE  Typed
<1>1. MaxTime \in Nat \ {0}
  BY Constants
<1>2. 1 \in 1 .. MaxTime /\ 1 \in 1 .. now
  BY <1>1 DEF Init
<1>3. mem \in Mems
  <2>1. EmptyData \in Data
    BY DataIs
  <2> HIDE DEF Data
  <2> QED BY <2>1 DEF Init, Mems, NewMem
<1>4. disk \in [primary : Data, backup : Data]
  <2>1. Missing \in Data
    BY DataIs
  <2> HIDE DEF Data
  <2> QED BY <2>1 DEF Init
<1>5. /\ now \in 1 .. MaxTime /\ lastTick \in 1 .. now /\ lastSave \in 1 .. now
      /\ state \in {"down", "stopped", "running", "paused_idle"}
      /\ beatDue \in BOOLEAN /\ ticking \in BOOLEAN
  BY <1>2 DEF Init
<1>6. Journaled /\ backupCount \in 0 .. 2
  BY NoTimeIs DEF Init, Journaled
<1>7. calls \in Seq(CallRecords)
  <2>1. calls = <<>>
    BY DEF Init
  <2> QED BY <2>1
<1> QED BY <1>3, <1>4, <1>5, <1>6, <1>7 DEF Typed

LEMMA TypedIsTypeOK == Typed => TypeOK
<1> SUFFICES ASSUME Typed  PROVE TypeOK
  OBVIOUS
<1>1. \A i \in DOMAIN calls : calls[i].data \in Data /\ calls[i].todo # <<>>
  <2>1. \A i \in DOMAIN calls : calls[i] \in CallRecords
    BY DEF Typed
  <2> QED BY <2>1, Stage
<1>2. mem \in [data : Data, running : BOOLEAN, paused : BOOLEAN, active : BOOLEAN]
  BY DEF Typed, Mems
<1>3. /\ {buffer, rewritten} \subseteq SUBSET (1 .. now) /\ uncovered \subseteq 1 .. MaxTime
      /\ file \in [1 .. MaxTime -> Nat] /\ openLine \subseteq 0 .. now
  BY DEF Typed, Journaled, Totals
<1> QED BY <1>1, <1>2, <1>3 DEF Typed, TypeOK

-----------------------------------------------------------------------------
(* The control: which calls are in flight when, and what the session is then. *)


-----------------------------------------------------------------------------
(* The control: which calls are in flight when, and what the session is then. *)

\* The ticks that a slice stands for, and those that are known to have none.
Listed == Slices \union uncovered

LEMMA SlicesStay ==
  ASSUME UNCHANGED <<buffer, file, openLine, uncovered>>
  PROVE  Slices' = Slices /\ Listed' = Listed /\ NoneLost
<1>1. Slices' = Slices
  BY DEF Slices, Lines
<1> QED BY <1>1 DEF Listed, NoneLost

LEMMA ListedStays ==
  ASSUME NoneLost
  PROVE  Listed \subseteq Listed'
  BY DEF Listed, NoneLost

Session ==
  /\ ticking => mem.active
  /\ beatDue => ticking /\ lastTick < now
  /\ ticking /\ ~beatDue => lastTick = now
  /\ mem.running => /\ mem.active /\ ~mem.paused /\ 1 <= mem.data.start /\ mem.data.start <= now
                    /\ \A t \in 1 .. now : mem.data.start < t /\ t <= lastTick => t \in Listed
  /\ ~mem.running => mem.data.start = 0
  /\ ~mem.active => buffer = {}
  /\ state \in {"stopped", "down"} => ~mem.active

\* When a call may be where it is.
InPlace(c) ==
  /\ c.kind = "start" => state = "stopped"
  /\ c.kind = "end" => ~ticking
  /\ c.kind = "end" /\ Head(c.todo) \in {"primary", "backup", "truncate"} => ~mem.active
  /\ c.kind = "pause" /\ Head(c.todo) = "truncate" => ~mem.running /\ (mem.active => state = "running")

Solo == {"start", "end", "pause"}

InOrder ==
  /\ \A kind \in Solo : Single(calls, kind)
  /\ \A c, e \in Members(calls) : c.kind = "start" => e.kind \in {"start", "save"}
  /\ \A c \in Members(calls) : InPlace(c)

Control == Session /\ InOrder

LEMMA CallsAre ==
  ASSUME Typed
  PROVE  /\ \A c \in Members(calls) : c \in CallRecords
         /\ \A i \in DOMAIN calls : calls[i] \in Members(calls) /\ calls[i] \in CallRecords
  BY DEF Typed, Members

\* A call that goes on is the only one that has changed.
LEMMA GoesKeeps ==
  ASSUME Typed, NEW i \in DOMAIN calls, NEW kind, kind = calls[i].kind, NEW op, NEW d, Goes(i, kind, op, d)
  PROVE  /\ \A c \in Members(calls') :
              c \in Members(calls) \/ (c.kind = kind /\ Head(c.todo) = op /\ c.data = d)
         /\ \A k : Single(calls, k) => Single(calls', k)
         /\ Single(calls, kind) => \A c \in Members(calls') : c.kind = kind => Head(c.todo) = op /\ c.data = d
<1> DEFINE rest == RemoveAt(calls, i)
<1>1. PICK c \in CallRecords : calls' = Append(rest, c) /\ c.kind = kind /\ Head(c.todo) = op /\ c.data = d
  BY DEF Goes
<1>2. rest \in Seq(CallRecords) /\ Members(rest) \subseteq Members(calls)
  BY RemovedIs, MembersOfRest DEF Typed
<1>3. \A k : Single(calls, k) => /\ Single(rest, k)
                                 /\ kind = k => \A e \in Members(rest) : e.kind # k
  BY SingleRest DEF Typed
<1> HIDE DEF rest
<1>4. Members(calls') = Members(rest) \union {c}
  BY <1>1, <1>2, MembersWith
<1>5. ASSUME NEW k, Single(calls, k)  PROVE Single(calls', k)
  <2>1. Single(rest, k) /\ (c.kind = k => \A e \in Members(rest) : e.kind # k)
    BY <1>1, <1>3, <1>5
  <2>2. Single(Append(rest, c), k)
    BY <1>2, <2>1, SingleWith
  <2> QED BY <1>1, <2>2
<1> QED BY <1>1, <1>2, <1>3, <1>4, <1>5

LEMMA LeavesKeeps ==
  ASSUME Typed, NEW i \in DOMAIN calls, calls' = RemoveAt(calls, i)
  PROVE  /\ Members(calls') \subseteq Members(calls)
         /\ \A k : Single(calls, k) => Single(calls', k)
         /\ \A k : Single(calls, k) /\ calls[i].kind = k => \A c \in Members(calls') : c.kind # k
  BY MembersOfRest, SingleRest DEF Typed

LEMMA IssuesKeeps ==
  ASSUME Typed, NEW kind, NEW op, NEW d, Issues(kind, op, d)
  PROVE  /\ \A c \in Members(calls') :
              c \in Members(calls) \/ (c.kind = kind /\ Head(c.todo) = op /\ c.data = d)
         /\ \A k : Single(calls, k) /\ (kind = k => ~InFlight(k)) => Single(calls', k)
<1>1. PICK c \in CallRecords : calls' = Append(calls, c) /\ c.kind = kind /\ Head(c.todo) = op /\ c.data = d
  BY DEF Issues
<1>2. calls \in Seq(CallRecords)
  BY DEF Typed
<1>3. Members(calls') = Members(calls) \union {c}
  BY <1>1, <1>2, MembersWith
<1>4. ASSUME NEW k, Single(calls, k), kind = k => ~InFlight(k)  PROVE Single(calls', k)
  <2>1. c.kind = k => \A e \in Members(calls) : e.kind # k
    BY <1>1, <1>4 DEF InFlight, Members
  <2>2. Single(Append(calls, c), k)
    BY <1>2, <1>4, <2>1, SingleWith
  <2> QED BY <1>1, <2>2
<1> QED BY <1>1, <1>3, <1>4

LEMMA NoCalls ==
  ASSUME NEW q, q = <<>>
  PROVE  Members(q) = {} /\ \A k : Single(q, k)
<1>1. DOMAIN q = {}
  OBVIOUS
<1> QED BY <1>1 DEF Members, Single

-----------------------------------------------------------------------------

\* What is in flight stays in order when it stays where it is, or goes on.
LEMMA OrderKept ==
  ASSUME Typed, InOrder, NEW kind, NEW op, NEW d,
         \A c \in Members(calls') : c \in Members(calls) \/ (c.kind = kind /\ Head(c.todo) = op /\ c.data = d),
         \A k : Single(calls, k) /\ k \in Solo => Single(calls', k),
         \/ \E e \in Members(calls) : e.kind = kind
         \/ kind \notin {"start", "save"} /\ \A e \in Members(calls) : e.kind # "start"
         \/ kind = "save"
         \/ calls = <<>>,
         \A c \in Members(calls') : InPlace(c)'
  PROVE  InOrder'
<1>1. \A k \in Solo : Single(calls', k)
  BY DEF InOrder
<1>2. ASSUME NEW c \in Members(calls'), NEW e \in Members(calls'), c.kind = "start"
      PROVE  e.kind \in {"start", "save"}
  <2>1. calls = <<>> => Members(calls) = {}
    BY NoCalls
  <2>2. \A b, f \in Members(calls) : b.kind = "start" => f.kind \in {"start", "save"}
    BY DEF InOrder
  <2> QED BY <1>2, <2>1, <2>2
<1> QED BY <1>1, <1>2 DEF InOrder

\* A call in place stays there while the state, the ticking and the session are the same.
LEMMA PlaceKept ==
  ASSUME NEW c, InPlace(c), state' = state, ticking' = ticking, mem'.active = mem.active, mem'.running = mem.running
  PROVE  InPlace(c)'
  BY DEF InPlace

\* A start in flight means that no session is active, an end that nothing ticks.
LEMMA InFlightMeans ==
  ASSUME Typed, Control, NEW i \in DOMAIN calls
  PROVE  /\ InPlace(calls[i])
         /\ calls[i].kind = "start" =>
              /\ state = "stopped" /\ ~mem.active /\ ~mem.running /\ ~ticking /\ ~beatDue
              /\ \A e \in Members(calls) : e.kind \in {"start", "save"}
         /\ calls[i].kind = "end" => ~ticking /\ ~beatDue /\ \A e \in Members(calls) : e.kind # "start"
         /\ calls[i].kind \notin {"start", "save"} => \A e \in Members(calls) : e.kind # "start"
<1>1. calls[i] \in Members(calls)
  BY CallsAre
<1>2. /\ InPlace(calls[i])
      /\ calls[i].kind = "start" => \A e \in Members(calls) : e.kind \in {"start", "save"}
      /\ \A e \in Members(calls) : e.kind = "start" => calls[i].kind \in {"start", "save"}
  BY <1>1 DEF Control, InOrder
<1>3. calls[i].kind = "start" => /\ state = "stopped" /\ ~mem.active /\ ~mem.running /\ ~ticking /\ ~beatDue
  BY <1>2 DEF Control, Session, InPlace
<1>4. calls[i].kind = "end" => ~ticking /\ ~beatDue
  BY <1>2 DEF Control, Session, InPlace
<1> QED BY <1>2, <1>3, <1>4

\* The session goes on as it is.
LEMMA SessionKept ==
  ASSUME Typed, Session, UNCHANGED <<now, lastTick, beatDue, mem, ticking>>,
         buffer' \subseteq buffer, NoneLost \/ ~mem.running,
         state' \in {"stopped", "down"} => ~mem.active
  PROVE  Session'
<1>1. now' = now /\ lastTick' = lastTick /\ beatDue' = beatDue /\ mem' = mem /\ ticking' = ticking
  OBVIOUS
<1>2. \A t : mem.running /\ t \in Listed => t \in Listed'
  BY ListedStays
<1>3. ~mem.active => buffer' = {}
  BY DEF Session
<1> QED BY <1>1, <1>2, <1>3 DEF Session

\* A call that is done and has not started anything.
LEMMA ControlReturns ==
  ASSUME Typed, Control, NEW i \in DOMAIN calls, Returns(i), calls[i].kind \notin {"start", "end"},
         UNCHANGED <<now, beatDue, buffer, file, openLine, rewritten, uncovered>>
  PROVE  Control'
<1>1. /\ calls' = RemoveAt(calls, i) /\ UNCHANGED <<mem, ticking, lastTick>>
      /\ state' = IF calls[i].kind = "pause" THEN "paused_idle" ELSE IF calls[i].kind = "resume" THEN "running" ELSE state
  BY DEF Returns
<1>2. Session'
  <2>1. state' \in {"stopped", "down"} => ~mem.active
    BY <1>1 DEF Control, Session
  <2>2. NoneLost
    BY SlicesStay
  <2> QED BY <1>1, <2>1, <2>2, SessionKept DEF Control
<1>3. Members(calls') \subseteq Members(calls) /\ \A k : Single(calls, k) => Single(calls', k)
  BY <1>1, LeavesKeeps
<1>4. \A c \in Members(calls') : InPlace(c)'
  <2> TAKE c \in Members(calls')
  <2>1. c \in Members(calls) /\ InPlace(c)
    BY <1>3 DEF Control, InOrder
  <2>2. CASE state' = state
    BY <1>1, <2>1, <2>2, PlaceKept
  <2>3. CASE state' # state
    <3>1. calls[i].kind \in {"pause", "resume"}
      BY <1>1, <2>3
    <3>2. c.kind # "start"
      BY <2>1, <3>1, InFlightMeans
    <3>3. calls[i].kind = "pause" => c.kind # "pause"
      <4>1. Single(calls, "pause")
        BY DEF Control, InOrder, Solo
      <4> QED BY <1>1, <4>1, LeavesKeeps
    <3> QED BY <1>1, <2>1, <3>1, <3>2, <3>3 DEF InPlace
  <2> QED BY <2>2, <2>3
<1>5. InOrder'
  <2>1. \A c, e \in Members(calls') : c.kind = "start" => e.kind \in {"start", "save"}
    BY <1>3 DEF Control, InOrder
  <2>2. \A kind \in Solo : Single(calls', kind)
    BY <1>3 DEF Control, InOrder
  <2> QED BY <1>4, <2>1, <2>2 DEF InOrder
<1> QED BY <1>2, <1>5 DEF Control

LEMMA ControlStarts ==
  ASSUME Typed, Control, NEW i \in DOMAIN calls, Starts(i), calls[i].kind = "start",
         UNCHANGED <<now, beatDue, buffer, file, openLine, rewritten, uncovered>>
  PROVE  Control'
<1>1. /\ calls' = RemoveAt(calls, i) /\ state' = "running" /\ ticking' = TRUE /\ lastTick' = now
      /\ mem'.running = TRUE /\ mem'.paused = FALSE /\ mem'.active = TRUE /\ mem'.data.start = now
  BY DEF Starts
<1>2. ~beatDue /\ \A e \in Members(calls) : e.kind \in {"start", "save"}
  BY InFlightMeans
<1>3. Session'
  <2>1. now \in Nat /\ now' = now /\ 1 <= now /\ \A t \in 1 .. now : ~(now < t /\ t <= now)
    BY Constants DEF Typed
  <2> QED BY <1>1, <1>2, <2>1 DEF Session
<1>4. /\ Members(calls') \subseteq Members(calls) /\ \A k : Single(calls, k) => Single(calls', k)
      /\ \A c \in Members(calls') : c.kind # "start"
  <2>1. Single(calls, "start")
    BY DEF Control, InOrder, Solo
  <2> QED BY <1>1, <2>1, LeavesKeeps
<1>5. \A c \in Members(calls') : c.kind = "save"
  BY <1>2, <1>4
<1>6. InOrder'
  <2>1. \A c \in Members(calls') : InPlace(c)'
    BY <1>5 DEF InPlace
  <2>2. \A kind \in Solo : Single(calls', kind)
    BY <1>4 DEF Control, InOrder
  <2> QED BY <1>5, <2>1, <2>2 DEF InOrder
<1> QED BY <1>3, <1>6 DEF Control

\* A call that goes on to another operation, in a session that goes on as it is.
LEMMA ControlGoes ==
  ASSUME Typed, Control, NEW i \in DOMAIN calls, NEW kind, kind = calls[i].kind, NEW op, NEW d,
         Goes(i, kind, op, d), InProcess, UNCHANGED <<now, beatDue>>,
         buffer' \subseteq buffer, NoneLost \/ ~mem.running,
         kind = "end" => op = "flush" \/ ~mem.active, kind = "pause" => op # "truncate"
  PROVE  Control'
<1>1. UNCHANGED <<mem, state, ticking, lastTick>>
  BY DEF InProcess
<1>2. Session'
  <2>1. state' \in {"stopped", "down"} => ~mem.active
    BY <1>1 DEF Control, Session
  <2> QED BY <1>1, <2>1, SessionKept DEF Control
<1>3. /\ \A c \in Members(calls') : c \in Members(calls) \/ (c.kind = kind /\ Head(c.todo) = op /\ c.data = d)
      /\ \A k : Single(calls, k) => Single(calls', k)
  BY GoesKeeps
<1>4. calls[i] \in Members(calls) /\ InPlace(calls[i])
  BY CallsAre, InFlightMeans
<1>5. \A c \in Members(calls') : InPlace(c)'
  <2> TAKE c \in Members(calls')
  <2>1. CASE c \in Members(calls)
    BY <1>1, <2>1, PlaceKept DEF Control, InOrder
  <2>2. CASE c.kind = kind /\ Head(c.todo) = op
    BY <1>1, <1>4, <2>2 DEF InPlace
  <2> QED BY <1>3, <2>1, <2>2
<1>6. InOrder'
  BY <1>3, <1>4, <1>5, OrderKept DEF Control
<1> QED BY <1>2, <1>6 DEF Control

LEMMA ControlRead ==
  ASSUME Typed, Control, NEW i \in DOMAIN calls, Read(i) \/ Clear(i), UNCHANGED <<now, beatDue>>
  PROVE  Control'
<1>1. /\ calls[i].kind = "start" /\ InProcess /\ buffer' = buffer
      /\ \/ Goes(i, "start", "clear", Stamped(Recovered(Loaded)))
         \/ Goes(i, "start", "primary", calls[i].data)
  BY ReadIs, ClearIs
<1>2. ~mem.running
  BY <1>1, InFlightMeans
<1> QED BY <1>1, <1>2, ControlGoes

LEMMA ControlSaves ==
  ASSUME Typed, Control, NEW i \in DOMAIN calls, SavePrimary(i) \/ SaveBackup(i), UNCHANGED <<now, beatDue>>
  PROVE  Control'
<1>1. /\ UNCHANGED <<buffer, file, openLine, rewritten, uncovered>> /\ Head(calls[i].todo) \in {"primary", "backup"}
      /\ \/ InProcess /\ Goes(i, calls[i].kind, "backup", calls[i].data)
         \/ InProcess /\ calls[i].kind = "end" /\ Goes(i, "end", "truncate", calls[i].data)
         \/ calls[i].kind = "start" /\ Starts(i)
         \/ calls[i].kind \notin {"start", "end"} /\ Returns(i)
  BY SavePrimaryIs, SaveBackupIs
<1>2. calls[i].kind = "end" => ~mem.active
  BY <1>1, InFlightMeans DEF InPlace
<1>3. NoneLost /\ buffer' = buffer
  BY <1>1, SlicesStay
<1>4. CASE InProcess /\ Goes(i, calls[i].kind, "backup", calls[i].data)
  BY <1>2, <1>3, <1>4, ControlGoes
<1>5. CASE InProcess /\ calls[i].kind = "end" /\ Goes(i, "end", "truncate", calls[i].data)
  BY <1>2, <1>3, <1>5, ControlGoes
<1>6. CASE calls[i].kind = "start" /\ Starts(i)
  BY <1>1, <1>6, ControlStarts
<1>7. CASE calls[i].kind \notin {"start", "end"} /\ Returns(i)
  BY <1>1, <1>7, ControlReturns
<1> QED BY <1>1, <1>4, <1>5, <1>6, <1>7

\* A call that leaves, while the session goes on as it is.
LEMMA ControlLeaves ==
  ASSUME Typed, Control, NEW i \in DOMAIN calls, calls' = RemoveAt(calls, i), UNCHANGED <<now, beatDue>>,
         UNCHANGED <<ticking, lastTick>>, Session',
         mem'.active = mem.active, mem'.running = mem.running,
         state' = state \/ (calls[i].kind = "end" /\ ~mem.active)
  PROVE  Control'
<1>1. Members(calls') \subseteq Members(calls) /\ \A k : Single(calls, k) => Single(calls', k)
  BY LeavesKeeps
<1>2. \A c \in Members(calls') : InPlace(c)'
  <2> TAKE c \in Members(calls')
  <2>1. c \in Members(calls) /\ InPlace(c)
    BY <1>1 DEF Control, InOrder
  <2>2. CASE state' = state
    BY <2>1, <2>2, PlaceKept
  <2>3. CASE calls[i].kind = "end" /\ ~mem.active
    <3>1. c.kind # "start" /\ ~mem.running
      BY <2>1, <2>3, InFlightMeans DEF Control, Session
    <3> QED BY <2>1, <2>3, <3>1 DEF InPlace
  <2> QED BY <2>2, <2>3
<1>3. \A c, e \in Members(calls') : c.kind = "start" => e.kind \in {"start", "save"}
  BY <1>1 DEF Control, InOrder
<1>4. \A kind \in Solo : Single(calls', kind)
  BY <1>1 DEF Control, InOrder
<1> QED BY <1>2, <1>3, <1>4 DEF Control, InOrder

LEMMA ControlPauseTruncates ==
  ASSUME Typed, Control, NEW i \in DOMAIN calls, PauseTruncates(i), UNCHANGED <<now, beatDue>>
  PROVE  Control'
<1>1. /\ calls[i].kind = "pause" /\ Head(calls[i].todo) = "truncate"
      /\ buffer' = {} /\ InProcess
      /\ \/ Goes(i, "pause", "primary", Stamped(mem.data))
         \/ calls' = RemoveAt(calls, i)
  BY PauseTruncatesIs
<1>2. ~mem.running
  BY <1>1, InFlightMeans DEF InPlace
<1>3. CASE Goes(i, "pause", "primary", Stamped(mem.data))
  BY <1>1, <1>2, <1>3, ControlGoes
<1>4. CASE calls' = RemoveAt(calls, i)
  <2>1. UNCHANGED <<mem, state, ticking, lastTick>>
    BY <1>1 DEF InProcess
  <2>2. state' \in {"stopped", "down"} => ~mem.active
    BY <2>1 DEF Control, Session
  <2>3. Session'
    BY <1>1, <1>2, <2>1, <2>2, SessionKept DEF Control
  <2> QED BY <1>4, <2>1, <2>3, ControlLeaves
<1> QED BY <1>1, <1>3, <1>4

LEMMA ControlEndTruncates ==
  ASSUME Typed, Control, NEW i \in DOMAIN calls, EndTruncates(i), UNCHANGED <<now, beatDue>>
  PROVE  Control'
<1>1. /\ calls[i].kind = "end" /\ Head(calls[i].todo) = "truncate"
      /\ buffer' = {} /\ calls' = RemoveAt(calls, i) /\ UNCHANGED <<ticking, lastTick>>
      /\ state' = "stopped" \/ state' = state
      /\ mem'.data.start = mem.data.start /\ mem'.running = mem.running /\ mem'.active = mem.active
  BY EndTruncatesIs
<1>2. ~mem.active /\ ~mem.running /\ ~ticking /\ ~beatDue
  BY <1>1, InFlightMeans DEF InPlace, Control, Session
<1>3. Session'
  BY <1>1, <1>2 DEF Control, Session
<1> QED BY <1>1, <1>2, <1>3, ControlLeaves

LEMMA ControlSettle ==
  ASSUME Typed, Control, NEW i \in DOMAIN calls, Settle(i), UNCHANGED <<now, beatDue>>
  PROVE  Control'
<1>1. /\ calls[i].kind = "end" /\ UNCHANGED <<mem, ticking, lastTick, lastSave, buffer, file, openLine, rewritten, uncovered>>
      /\ \/ state' = state /\ Goes(i, "end", "flush", calls[i].data)
         \/ ~mem.active /\ state' = "stopped" /\ calls' = RemoveAt(calls, i)
  BY SettleIs
<1>2. CASE state' = state /\ Goes(i, "end", "flush", calls[i].data)
  <2>1. InProcess /\ NoneLost
    BY <1>1, <1>2, SlicesStay DEF InProcess
  <2> QED BY <1>1, <1>2, <2>1, ControlGoes
<1>3. CASE ~mem.active /\ state' = "stopped" /\ calls' = RemoveAt(calls, i)
  <2>1. Session' /\ mem'.active = mem.active /\ mem'.running = mem.running
    BY <1>1, <1>3, SlicesStay DEF Control, Session
  <2> QED BY <1>1, <1>3, <2>1, ControlLeaves
<1> QED BY <1>1, <1>2, <1>3

LEMMA ControlEndFlushes ==
  ASSUME Typed, Control, NEW i \in DOMAIN calls, EndFlushes(i), UNCHANGED <<now, beatDue>>
  PROVE  Control'
<1>1. /\ calls[i].kind = "end" /\ UNCHANGED <<state, ticking, lastTick, lastSave>>
      /\ NoneLost /\ buffer' \subseteq buffer
      /\ \/ /\ buffer' = {} /\ mem'.data = Halted(mem.data)
            /\ mem'.running = FALSE /\ mem'.paused = FALSE /\ mem'.active = FALSE
            /\ Goes(i, "end", "primary", Stamped(EndData))
         \/ calls' = RemoveAt(calls, i) /\ UNCHANGED mem
  BY EndFlushesIs DEF Appends
<1>2. ~ticking /\ ~beatDue
  BY <1>1, InFlightMeans
<1>3. CASE /\ buffer' = {} /\ mem'.data = Halted(mem.data)
           /\ mem'.running = FALSE /\ mem'.paused = FALSE /\ mem'.active = FALSE
           /\ Goes(i, "end", "primary", Stamped(EndData))
  <2>1. Halted(mem.data).start = 0
    <3>1. CASE mem.running
      BY <3>1, HaltedIs, MemIs DEF Typed
    <3>2. CASE ~mem.running
      <4>1. mem.data.start = 0
        BY <3>2 DEF Control, Session
      <4> QED BY <3>2, <4>1, HaltedIs, MemIs DEF Typed
    <3> QED BY <3>1, <3>2
  <2>2. Session'
    BY <1>1, <1>2, <1>3, <2>1 DEF Session
  <2>3. /\ \A c \in Members(calls') :
              c \in Members(calls) \/ (c.kind = "end" /\ Head(c.todo) = "primary" /\ c.data = Stamped(EndData))
        /\ \A k : Single(calls, k) => Single(calls', k)
    BY <1>1, <1>3, GoesKeeps
  <2>4. \A c \in Members(calls') : InPlace(c)'
    <3> TAKE c \in Members(calls')
    <3>1. CASE c \in Members(calls)
      <4>1. InPlace(c)
        BY <3>1 DEF Control, InOrder
      <4> QED BY <1>1, <1>3, <4>1 DEF InPlace
    <3>2. CASE c.kind = "end"
      BY <1>1, <1>2, <1>3, <3>2 DEF InPlace
    <3> QED BY <2>3, <3>1, <3>2
  <2>5. \E e \in Members(calls) : e.kind = "end"
    BY <1>1, CallsAre
  <2>6. InOrder'
    BY <2>3, <2>4, <2>5, OrderKept DEF Control
  <2> QED BY <2>2, <2>6 DEF Control
<1>4. CASE calls' = RemoveAt(calls, i) /\ UNCHANGED mem
  <2>1. Session'
    <3>1. state' \in {"stopped", "down"} => ~mem.active
      BY <1>1 DEF Control, Session
    <3> QED BY <1>1, <1>4, <3>1, SessionKept DEF Control
  <2> QED BY <1>1, <1>4, <2>1, ControlLeaves
<1> QED BY <1>1, <1>3, <1>4

LEMMA ControlIO ==
  ASSUME Typed, Control, IO
  PROVE  Control'
<1>1. UNCHANGED <<now, beatDue>>
  BY DEF IO
<1>2. PICK i \in DOMAIN calls :
         \/ Read(i) \/ Clear(i) \/ SavePrimary(i) \/ SaveBackup(i) \/ PauseTruncates(i)
         \/ EndTruncates(i) \/ Settle(i) \/ EndFlushes(i)
  BY DEF IO
<1> QED BY <1>1, <1>2, ControlRead, ControlSaves, ControlPauseTruncates, ControlEndTruncates, ControlSettle,
           ControlEndFlushes

\* What is issued while the session goes on.
LEMMA OrderIssued ==
  ASSUME Typed, Control, NEW kind, NEW op, NEW d, Issues(kind, op, d),
         kind \in Solo => ~InFlight(kind),
         kind = "save" \/ (kind # "start" /\ state # "stopped") \/ calls = <<>>,
         \A c \in Members(calls) : InPlace(c)',
         \A c \in Members(calls') : c.kind = kind /\ Head(c.todo) = op => InPlace(c)'
  PROVE  InOrder'
<1>1. /\ \A c \in Members(calls') : c \in Members(calls) \/ (c.kind = kind /\ Head(c.todo) = op /\ c.data = d)
      /\ \A k : Single(calls, k) /\ (kind = k => ~InFlight(k)) => Single(calls', k)
  BY IssuesKeeps
<1>2. state # "stopped" => \A e \in Members(calls) : e.kind # "start"
  BY DEF Control, InOrder, InPlace
<1>3. \A k : Single(calls, k) /\ k \in Solo => Single(calls', k)
  BY <1>1
<1>4. \A c \in Members(calls') : InPlace(c)'
  BY <1>1
<1> QED BY <1>1, <1>2, <1>3, <1>4, OrderKept DEF Control

LEMMA ControlStart ==
  ASSUME Typed, Control, Start
  PROVE  Control'
<1>1. /\ state \in {"down", "stopped"} /\ calls = <<>> /\ state' = "stopped"
      /\ Issues("start", "read", EmptyData)
      /\ UNCHANGED <<now, lastTick, beatDue, ticking, mem, buffer, file, openLine, rewritten, uncovered>>
  BY StartIs
<1>2. Session'
  BY <1>1, SlicesStay DEF Control, Session
<1>3. Members(calls) = {} /\ ~InFlight("start")
  <2>1. Members(calls) = {}
    BY <1>1, NoCalls
  <2> QED BY <2>1, CallsAre DEF InFlight
<1>4. \A c : c.kind = "start" => InPlace(c)'
  BY <1>1 DEF InPlace
<1> QED BY <1>1, <1>2, <1>3, <1>4, OrderIssued DEF Control

LEMMA ControlStop ==
  ASSUME Typed, Control, Stop
  PROVE  Control'
<1>1. /\ state \in {"running", "paused_idle"} /\ ~InFlight("end")
      /\ ticking' = FALSE /\ beatDue' = FALSE /\ Issues("end", "settle", EmptyData)
      /\ UNCHANGED <<now, lastTick, state, mem, buffer, file, openLine, rewritten, uncovered>>
  BY StopIs
<1>2. Session'
  BY <1>1, SlicesStay DEF Control, Session
<1>3. \A c \in Members(calls) : InPlace(c)'
  BY <1>1 DEF Control, InOrder, InPlace
<1>4. \A c : c.kind = "end" /\ Head(c.todo) = "settle" => InPlace(c)'
  BY <1>1 DEF InPlace
<1> QED BY <1>1, <1>2, <1>3, <1>4, OrderIssued DEF Control

\* A save is issued, and the session goes on as it is.
LEMMA ControlSaveIssued ==
  ASSUME Typed, Control, NEW kind \in {"checkpoint", "save"}, Issues(kind, "primary", Stamped(mem.data)),
         kind = "save" \/ ticking, UNCHANGED <<clock, state, ticking, mem, journal>>
  PROVE  Control'
<1>1. UNCHANGED <<now, lastTick, beatDue, state, ticking, mem, buffer, file, openLine, rewritten, uncovered>>
  BY DEF clock, journal
<1>2. Session'
  BY <1>1, SlicesStay DEF Control, Session
<1>3. kind = "save" \/ (kind # "start" /\ state # "stopped")
  BY DEF Control, Session
<1>4. \A c \in Members(calls) : InPlace(c)'
  BY <1>1, PlaceKept DEF Control, InOrder
<1>5. \A c : c.kind = kind => InPlace(c)'
  BY DEF InPlace
<1>6. kind \notin Solo
  BY DEF Solo
<1> QED BY <1>2, <1>3, <1>4, <1>5, <1>6, OrderIssued DEF Control

LEMMA ControlUnissued ==
  ASSUME Typed, Control, calls' = calls, Session', UNCHANGED <<mem, ticking>>,
         state' = state \/ (~InFlight("start") /\ ~mem.active /\ ~mem.running)
  PROVE  Control'
<1>1. \A c \in Members(calls) : InPlace(c)'
  <2> TAKE c \in Members(calls)
  <2>1. InPlace(c)
    BY DEF Control, InOrder
  <2>2. ~InFlight("start") => c.kind # "start"
    BY DEF InFlight, Members
  <2> QED BY <2>1, <2>2 DEF InPlace
<1> QED BY <1>1 DEF Control, InOrder

LEMMA ControlIdlePause ==
  ASSUME Typed, Control, IdlePause
  PROVE  Control'
<1>1. /\ state = "running" /\ ~InFlight("pause")
      /\ UNCHANGED <<now, lastTick, beatDue, ticking, buffer, file, openLine, rewritten, uncovered>>
      /\ \/ /\ mem.active /\ state' = state /\ Issues("pause", "truncate", EmptyData)
            /\ mem'.active = mem.active /\ mem'.running = FALSE
            /\ mem.running => mem'.data.start = 0
            /\ ~mem.running => mem'.data.start = mem.data.start
         \/ ~mem.active /\ state' = "paused_idle" /\ UNCHANGED <<mem, calls>>
  BY IdlePauseIs
<1>2. CASE mem.active /\ state' = state /\ Issues("pause", "truncate", EmptyData)
  <2>1. /\ mem'.active = mem.active /\ mem'.running = FALSE
        /\ mem.running => mem'.data.start = 0
        /\ ~mem.running => mem'.data.start = mem.data.start
    BY <1>1, <1>2
  <2>2. Session'
    BY <1>1, <1>2, <2>1 DEF Control, Session
  <2>3. \A c \in Members(calls) : InPlace(c)'
    BY <1>1, <1>2, <2>1 DEF Control, InOrder, InPlace
  <2>4. \A c : c.kind = "pause" => InPlace(c)'
    BY <1>1, <1>2, <2>1 DEF InPlace
  <2> QED BY <1>1, <1>2, <2>2, <2>3, <2>4, OrderIssued DEF Control
<1>3. CASE ~mem.active /\ state' = "paused_idle" /\ UNCHANGED <<mem, calls>>
  <2>1. Session' /\ ~mem.running
    BY <1>1, <1>3, SlicesStay DEF Control, Session
  <2>2. ~InFlight("start")
    <3>1. \A c \in Members(calls) : c.kind # "start"
      BY <1>1 DEF Control, InOrder, InPlace
    <3> QED BY <3>1, CallsAre DEF InFlight
  <2> QED BY <1>1, <1>3, <2>1, <2>2, ControlUnissued
<1> QED BY <1>1, <1>2, <1>3

LEMMA ControlIdleResume ==
  ASSUME Typed, Control, IdleResume
  PROVE  Control'
<1>1. /\ state = "paused_idle"
      /\ UNCHANGED <<now, lastTick, beatDue, ticking, buffer, file, openLine, rewritten, uncovered>>
      /\ \/ /\ mem.active /\ state' = state /\ Issues("resume", "primary", Stamped(mem'.data))
            /\ mem'.active = mem.active /\ mem'.running = TRUE /\ mem'.paused = FALSE /\ mem'.data.start = now
         \/ ~mem.active /\ state' = "running" /\ UNCHANGED <<mem, calls>>
  BY IdleResumeIs
<1>2. CASE mem.active /\ state' = state /\ Issues("resume", "primary", Stamped(mem'.data))
  <2>1. mem'.active = mem.active /\ mem'.running = TRUE /\ mem'.paused = FALSE /\ mem'.data.start = now
    BY <1>1, <1>2
  <2>2. Session'
    <3>1. now \in Nat /\ 1 <= now /\ lastTick \in 1 .. now /\ \A t \in 1 .. now : ~(now < t /\ t <= lastTick)
      BY Constants DEF Typed
    <3> QED BY <1>1, <1>2, <2>1, <3>1 DEF Control, Session
  <2>3. \A c \in Members(calls) : InPlace(c)'
    BY <1>1, <1>2, <2>1 DEF Control, InOrder, InPlace
  <2>4. \A c : c.kind = "resume" => InPlace(c)'
    BY DEF InPlace
  <2>5. "resume" \notin Solo
    BY DEF Solo
  <2> QED BY <1>1, <1>2, <2>2, <2>3, <2>4, <2>5, OrderIssued DEF Control
<1>3. CASE ~mem.active /\ state' = "running" /\ UNCHANGED <<mem, calls>>
  <2>1. Session' /\ ~mem.running
    BY <1>1, <1>3, SlicesStay DEF Control, Session
  <2>2. ~InFlight("start")
    <3>1. \A c \in Members(calls) : c.kind # "start"
      BY <1>1 DEF Control, InOrder, InPlace
    <3> QED BY <3>1, CallsAre DEF InFlight
  <2> QED BY <1>1, <1>3, <2>1, <2>2, ControlUnissued
<1> QED BY <1>1, <1>2, <1>3

\* A heartbeat leaves no tick of the session without a trace.
LEMMA ListedBeat ==
  ASSUME Typed, ~mem.paused, NEW w, Pushed(w), UNCHANGED <<now, file, openLine>>
  PROVE  /\ Listed \subseteq Listed' /\ Slices' = Slices \union {now} /\ NoneLost
         /\ \A t \in 1 .. now : lastTick < t => t \in Listed'
<1>1. buffer' = buffer \union {now} /\ uncovered' = uncovered \union Span(lastTick, now - 1) \union w
  BY DEF Pushed
<1>2. Slices' = Slices \union {now}
  BY <1>1, FileStays DEF Slices, Filed
<1>3. Listed \subseteq Listed' /\ NoneLost
  BY <1>1, <1>2 DEF Listed, NoneLost
<1>4. \A t \in 1 .. now : lastTick < t => t \in Span(lastTick, now - 1) \/ t = now
  <2>1. now \in Nat /\ lastTick \in Nat
    BY Constants DEF Typed
  <2> QED BY <2>1 DEF Span
<1> QED BY <1>1, <1>2, <1>3, <1>4 DEF Listed

LEMMA NoneLostBeat ==
  ASSUME Typed, Heartbeat
  PROVE  NoneLost
<1>1. /\ UNCHANGED <<now, file, openLine>>
      /\ UNCHANGED <<buffer, uncovered>> \/ \E w : Pushed(w)
  BY HeartbeatIs
<1>2. CASE UNCHANGED <<buffer, uncovered>>
  BY <1>1, <1>2, SlicesStay
<1>3. CASE ~mem.paused /\ \E w : Pushed(w)
  BY <1>1, <1>3, ListedBeat
<1> QED BY <1>1, <1>2, <1>3 DEF Pushed

LEMMA ControlHeartbeat ==
  ASSUME Typed, Control, Heartbeat
  PROVE  Control'
<1>1. /\ ticking = TRUE /\ beatDue = TRUE /\ beatDue' = FALSE /\ lastTick' = now
      /\ UNCHANGED <<now, file, openLine, state, ticking>>
      /\ \/ Moves(lastTick, now) /\ Issues("wake", "primary", Stamped(mem'.data))
         \/ \E at \in 1 .. now :
              /\ lastTick < at /\ Moves(at, at) /\ Issues("rotate", "primary", Stamped(mem'.data))
              /\ Pushed(Span(at, mem.data.start))
         \/ UNCHANGED <<mem, calls>> /\ Pushed({})
  BY HeartbeatIs
<1>2. mem.active /\ state \notin {"stopped", "down"} /\ (mem.running => ~mem.paused)
  BY <1>1 DEF Control, Session
<1>3. now \in Nat /\ 1 <= now /\ lastTick \in Nat /\ now' = now
  <2>1. now \in 1 .. MaxTime /\ MaxTime \in Nat /\ lastTick \in 1 .. now
    BY Constants DEF Typed
  <2> QED BY <1>1, <2>1
<1>4. ASSUME NEW end, NEW at \in 1 .. now, Moves(end, at),
             NEW kind \in {"wake", "rotate"}, Issues(kind, "primary", Stamped(mem'.data)),
             mem.running => \A t \in 1 .. now : at < t => t \in Listed'
      PROVE  Control'
  <2>1. /\ mem'.running = mem.running /\ mem'.paused = mem.paused /\ mem'.active = mem.active
        /\ mem.running => mem'.data.start = at
        /\ ~mem.running => mem'.data.start = mem.data.start
    BY <1>4 DEF Moves
  <2>2. Session'
    <3>1. at \in Nat /\ 1 <= at /\ at <= now
      BY <1>3, <1>4
    <3> QED BY <1>1, <1>2, <1>3, <1>4, <2>1, <3>1 DEF Control, Session
  <2>3. \A c \in Members(calls) : InPlace(c)'
    BY <1>1, <2>1, PlaceKept DEF Control, InOrder
  <2>4. \A c : c.kind = kind => InPlace(c)'
    BY DEF InPlace
  <2>5. kind \notin Solo /\ kind # "start"
    BY DEF Solo
  <2> QED BY <1>2, <1>4, <2>2, <2>3, <2>4, <2>5, OrderIssued DEF Control
<1>5. CASE Moves(lastTick, now) /\ Issues("wake", "primary", Stamped(mem'.data))
  <2>1. now \in 1 .. now /\ \A t \in 1 .. now : ~(now < t)
    BY <1>3
  <2> QED BY <1>4, <1>5, <2>1
<1>6. CASE \E at \in 1 .. now :
              /\ lastTick < at /\ Moves(at, at) /\ Issues("rotate", "primary", Stamped(mem'.data))
              /\ Pushed(Span(at, mem.data.start))
  <2>1. PICK at \in 1 .. now :
              /\ lastTick < at /\ Moves(at, at) /\ Issues("rotate", "primary", Stamped(mem'.data))
              /\ Pushed(Span(at, mem.data.start))
    BY <1>6
  <2>2. \A t \in 1 .. now : at < t => lastTick < t
    BY <1>3, <2>1
  <2>3. mem.running => \A t \in 1 .. now : at < t => t \in Listed'
    BY <1>1, <1>2, <2>1, <2>2, ListedBeat
  <2> QED BY <1>4, <2>1, <2>3
<1>7. CASE UNCHANGED <<mem, calls>> /\ Pushed({})
  <2>1. Session'
    <3>1. \A t \in 1 .. now : t <= now => t <= lastTick \/ lastTick < t
      BY <1>3
    <3>2. mem.running => Listed \subseteq Listed' /\ \A t \in 1 .. now : lastTick < t => t \in Listed'
      BY <1>1, <1>2, <1>7, ListedBeat
    <3>3. mem.running => \A t \in 1 .. now : mem.data.start < t /\ t <= now => t \in Listed'
      BY <3>1, <3>2 DEF Control, Session
    <3> QED BY <1>1, <1>2, <1>3, <1>7, <3>3 DEF Control, Session
  <2> QED BY <1>1, <1>7, <2>1, ControlUnissued
<1> QED BY <1>1, <1>5, <1>6, <1>7

LEMMA ControlNext ==
  ASSUME Typed, Control, [Next]_vars
  PROVE  Control'
<1>1. CASE Checkpoint
  <2>1. Issues("checkpoint", "primary", Stamped(mem.data))
    BY <1>1, SaveIssued DEF Checkpoint
  <2>2. UNCHANGED <<clock, state, ticking, mem, journal>> /\ ticking
    BY <1>1 DEF Checkpoint
  <2> QED BY <2>1, <2>2, ControlSaveIssued
<1>2. CASE SaveNow
  <2>1. Issues("save", "primary", Stamped(mem.data))
    BY <1>2, SaveIssued DEF SaveNow
  <2>2. UNCHANGED <<clock, state, ticking, mem, journal>>
    BY <1>2 DEF SaveNow
  <2> QED BY <2>1, <2>2, ControlSaveIssued
<1>3. CASE Flush
  <2>1. UNCHANGED <<now, lastTick, beatDue, state, ticking, mem, calls>> /\ Appends
    BY <1>3, FlushIs
  <2>2. NoneLost /\ buffer' \subseteq buffer
    BY <2>1 DEF Appends
  <2>3. state' \in {"stopped", "down"} => ~mem.active
    BY <2>1 DEF Control, Session
  <2>4. Session'
    BY <2>1, <2>2, <2>3, SessionKept DEF Control
  <2> QED BY <2>1, <2>4, ControlUnissued
<1>4. CASE AdvanceClock
  <2>1. PICK step \in 1 .. SleepTicks : now' = now + step
    BY <1>4 DEF AdvanceClock
  <2>2. /\ calls = <<>> /\ (ticking => ~beatDue) /\ beatDue' = ticking
        /\ UNCHANGED <<lastTick, state, ticking, mem, buffer, file, openLine, rewritten, uncovered, calls>>
    BY <1>4 DEF AdvanceClock, journal
  <2>3. now \in Nat /\ lastTick \in Nat /\ lastTick <= now /\ step \in Nat /\ step > 0 /\ mem.data.start \in Int
    <3>1. now \in 1 .. MaxTime /\ lastTick \in 1 .. now /\ mem.data \in Data
      BY MemIs DEF Typed
    <3> QED BY <3>1, FieldsAre, Constants
  <2>4. now' \in Nat /\ now < now'
    BY <2>1, <2>3
  <2>5. Session'
    <3>1. \A t \in 1 .. now' : t <= lastTick => t \in 1 .. now
      BY <2>3, <2>4
    <3>2. Listed' = Listed
      BY <2>2, SlicesStay
    <3>3. mem.running => \A t \in 1 .. now' : mem.data.start < t /\ t <= lastTick => t \in Listed
      BY <3>1 DEF Control, Session
    <3>4. mem.data.start <= now => mem.data.start <= now'
      BY <2>3, <2>4
    <3>5. lastTick < now'
      BY <2>3, <2>4
    <3> QED BY <2>2, <3>2, <3>3, <3>4, <3>5 DEF Control, Session
  <2> QED BY <2>2, <2>5, ControlUnissued
<1>5. CASE Crash
  <2>1. /\ state' = "down" /\ ticking' = FALSE /\ beatDue' = FALSE /\ mem' = NewMem /\ buffer' = {} /\ calls' = <<>>
    BY <1>5 DEF Crash
  <2>2. mem'.running = FALSE /\ mem'.active = FALSE /\ mem'.data.start = 0
    BY <2>1, MemIs, DataIs DEF Typed
  <2>3. Session'
    BY <2>1, <2>2 DEF Session
  <2>4. InOrder'
    BY <2>1, NoCalls DEF InOrder
  <2> QED BY <2>3, <2>4 DEF Control
<1>6. CASE UNCHANGED vars
  <2>1. UNCHANGED <<now, lastTick, beatDue, state, ticking, mem, buffer, file, openLine, rewritten, uncovered, calls>>
    BY <1>6 DEF vars, clock, journal
  <2>2. Session'
    BY <2>1, SlicesStay DEF Control, Session
  <2> QED BY <2>1, <2>2, ControlUnissued
<1> QED BY <1>1, <1>2, <1>3, <1>4, <1>5, <1>6, ControlIO, ControlStart, ControlStop, ControlIdlePause,
           ControlIdleResume, ControlHeartbeat DEF Next

LEMMA ControlInit ==
  ASSUME Init
  PROVE  Control
<1>1. /\ state = "down" /\ ticking = FALSE /\ beatDue = FALSE /\ mem = NewMem /\ buffer = {} /\ calls = <<>>
  BY DEF Init
<1>2. mem.running = FALSE /\ mem.active = FALSE /\ mem.data.start = 0
  BY <1>1, DataIs DEF NewMem
<1>3. Session
  BY <1>1, <1>2 DEF Session
<1>4. InOrder
  BY <1>1, NoCalls DEF InOrder
<1> QED BY <1>3, <1>4 DEF Control

-----------------------------------------------------------------------------
(* Nothing that is kept is later than the clock.                           *)

\* Up to when a tick can have been counted.
Reach == IF beatDue THEN lastTick ELSE now

Past(d) == d.watermark <= now /\ d.saved <= now /\ \A t \in Ticks(d.total) : t <= Reach

AllPast ==
  /\ Past(mem.data) /\ Past(disk.primary) /\ Past(disk.backup)
  /\ \A c \in Members(calls) : Past(c.data)
  /\ mem.running => mem.data.watermark <= mem.data.start

LEMMA TimesAre ==
  ASSUME Typed
  PROVE  now \in Nat /\ 1 <= now /\ now <= MaxTime /\ MaxTime \in Nat /\ lastTick \in Nat /\ 1 <= lastTick
         /\ lastTick <= now /\ Reach \in Nat /\ lastTick <= Reach /\ Reach <= now
<1>1. now \in 1 .. MaxTime /\ MaxTime \in Nat /\ lastTick \in 1 .. now
  BY Constants DEF Typed
<1> QED BY <1>1 DEF Reach

LEMMA ClockIs ==
  ASSUME Typed, Control, [Next]_vars
  PROVE  \/ now' = now /\ lastTick' = lastTick /\ beatDue' = beatDue
         \/ now' = now /\ ~beatDue' /\ lastTick' \in {lastTick, now}
         \/ /\ now' \in Nat /\ now < now' /\ lastTick' = lastTick /\ beatDue' = ticking
            /\ ~beatDue /\ (ticking => lastTick = now)
<1>1. CASE IO
  <2>1. now' = now /\ beatDue' = beatDue
    BY <1>1 DEF IO
  <2>2. PICK i \in DOMAIN calls :
           \/ Read(i) \/ Clear(i) \/ SavePrimary(i) \/ SaveBackup(i) \/ PauseTruncates(i)
           \/ EndTruncates(i) \/ Settle(i) \/ EndFlushes(i)
    BY <1>1 DEF IO
  <2>3. lastTick' = lastTick \/ (calls[i].kind = "start" /\ lastTick' = now)
    BY <2>1, <2>2, ReadIs, ClearIs, SavePrimaryIs, SaveBackupIs, PauseTruncatesIs, EndTruncatesIs, SettleIs, EndFlushesIs
       DEF InProcess, Returns, Starts
  <2>4. calls[i].kind = "start" => ~beatDue
    BY InFlightMeans
  <2> QED BY <2>1, <2>3, <2>4
<1>2. CASE Start
  BY <1>2, StartIs
<1>3. CASE Stop
  BY <1>3, StopIs
<1>4. CASE Checkpoint \/ SaveNow \/ Flush \/ UNCHANGED vars
  BY <1>4 DEF Checkpoint, SaveNow, Flush, vars, clock
<1>5. CASE IdlePause \/ IdleResume
  BY <1>5, IdlePauseIs, IdleResumeIs
<1>6. CASE Heartbeat
  BY <1>6, HeartbeatIs
<1>7. CASE AdvanceClock
  <2>1. PICK step \in 1 .. SleepTicks : now' = now + step
    BY <1>7 DEF AdvanceClock
  <2>2. now' \in Nat /\ now < now'
    BY <2>1, TimesAre, Constants
  <2>3. (ticking => ~beatDue) /\ beatDue' = ticking /\ lastTick' = lastTick
    BY <1>7 DEF AdvanceClock
  <2> QED BY <2>2, <2>3 DEF Control, Session
<1>8. CASE Crash
  <2>1. now' = now /\ beatDue' = FALSE /\ lastTick' = lastTick
    BY <1>8 DEF Crash
  <2> QED BY <2>1
<1> QED BY <1>1, <1>2, <1>3, <1>4, <1>5, <1>6, <1>7, <1>8 DEF Next

LEMMA PastStays ==
  ASSUME Typed, Control, [Next]_vars
  PROVE  /\ now' \in Nat /\ now <= now' /\ Reach' \in Nat /\ Reach <= Reach'
         /\ \A d \in Data : Past(d) => Past(d)'
<1>1. now \in Nat /\ lastTick \in Nat /\ lastTick <= now /\ Reach \in Nat /\ Reach <= now
  BY TimesAre
<1>2. /\ now' \in Nat /\ now <= now' /\ Reach' \in Nat /\ Reach <= Reach'
  <2>1. \/ now' = now /\ lastTick' = lastTick /\ beatDue' = beatDue
        \/ now' = now /\ ~beatDue' /\ lastTick' \in {lastTick, now}
        \/ /\ now' \in Nat /\ now < now' /\ lastTick' = lastTick /\ beatDue' = ticking
           /\ ~beatDue /\ (ticking => lastTick = now)
    BY ClockIs
  <2> QED BY <1>1, <2>1 DEF Reach
<1>3. ASSUME NEW d \in Data, Past(d)  PROVE Past(d)'
  <2>1. d.watermark \in Int /\ d.saved \in Int
    BY FieldsAre, Constants
  <2>2. \A t \in Ticks(d.total) : t \in Int
    <3>1. d.total \in Totals
      BY FieldsAre
    <3> QED BY <3>1, TicksAre
  <2>3. d.watermark <= now /\ d.saved <= now /\ \A t \in Ticks(d.total) : t <= Reach
    BY <1>3 DEF Past
  <2>4. d.watermark <= now' /\ d.saved <= now'
    BY <1>1, <1>2, <2>1, <2>3
  <2>5. \A t \in Ticks(d.total) : t <= Reach'
    BY <1>1, <1>2, <2>2, <2>3
  <2> QED BY <2>4, <2>5 DEF Past
<1> QED BY <1>2, <1>3

LEMMA PastFrom ==
  ASSUME Typed, Control, AllPast, [Next]_vars,
         mem' = mem \/ (Past(mem.data)' /\ (mem'.running => mem'.data.watermark <= mem'.data.start)),
         disk'.primary = disk.primary \/ Past(disk.primary)',
         disk'.backup = disk.backup \/ Past(disk.backup)',
         \A c \in Members(calls') : c \in Members(calls) \/ Past(c.data)'
  PROVE  AllPast'
<1>1. \A d \in Data : Past(d) => Past(d)'
  BY PastStays
<1>2. mem.data \in Data /\ disk.primary \in Data /\ disk.backup \in Data /\ \A c \in Members(calls) : c.data \in Data
  <2>1. \A c \in Members(calls) : c.data \in Data
    BY CallsAre, Stage
  <2>2. mem.data \in Data
    BY MemIs DEF Typed
  <2>3. disk.primary \in Data /\ disk.backup \in Data
    BY DiskIs DEF Typed
  <2> QED BY <2>1, <2>2, <2>3
<1>3. \A d : Past(d)' <=> (d.watermark <= now' /\ d.saved <= now' /\ \A t \in Ticks(d.total) : t <= Reach')
  BY DEF Past
<1>4. Past(mem.data)' /\ (mem'.running => mem'.data.watermark <= mem'.data.start)
  <2>1. CASE mem' = mem
    <3>1. Past(mem.data) /\ (mem.running => mem.data.watermark <= mem.data.start)
      BY DEF AllPast
    <3>2. PICK d \in Data : d = mem.data
      BY <1>2
    <3>3. Past(d)'
      BY <1>1, <3>1, <3>2
    <3>4. mem'.data = d
      BY <2>1, <3>2
    <3> QED BY <2>1, <3>1, <3>3, <3>4 DEF Past
  <2> QED BY <2>1
<1>5. Past(disk.primary)'
  <2>1. CASE disk'.primary = disk.primary
    <3>1. PICK d \in Data : d = disk.primary
      BY <1>2
    <3>2. Past(d)' /\ disk'.primary = d
      BY <1>1, <2>1, <3>1 DEF AllPast
    <3> QED BY <3>2 DEF Past
  <2> QED BY <2>1
<1>6. Past(disk.backup)'
  <2>1. CASE disk'.backup = disk.backup
    <3>1. PICK d \in Data : d = disk.backup
      BY <1>2
    <3>2. Past(d)' /\ disk'.backup = d
      BY <1>1, <2>1, <3>1 DEF AllPast
    <3> QED BY <3>2 DEF Past
  <2> QED BY <2>1
<1>7. \A c \in Members(calls') : Past(c.data)'
  <2> TAKE c \in Members(calls')
  <2>1. CASE c \in Members(calls)
    BY <1>1, <1>2, <2>1 DEF AllPast
  <2> QED BY <2>1
<1> QED BY <1>4, <1>5, <1>6, <1>7 DEF AllPast

\* What a save writes is of now.
LEMMA PastStamped ==
  ASSUME Typed, NEW d \in Data, Past(d)
  PROVE  Past(Stamped(d))
<1>1. /\ Stamped(d).total = d.total /\ Stamped(d).saved = now /\ Stamped(d).watermark = d.watermark
  BY StampedIs DEF Typed
<1> QED BY <1>1, TimesAre DEF Past

\* What recovery makes, with no session and no heartbeat due.
LEMMA PastRecovered ==
  ASSUME Typed, ~beatDue, NEW d \in Data, Past(d)
  PROVE  Past(Recovered(d))
<1>0. now \in Nat /\ Reach = now /\ d.total \in Totals /\ d.start \in Int
  BY TimesAre, FieldsAre, Constants DEF Reach
<1>1. now \in 1 .. MaxTime /\ Journaled
  BY DEF Typed
<1>2. /\ Recovered(d).saved = d.saved
      /\ Replay(d) # {} =>
           /\ Ticks(Recovered(d).total) = Ticks(d.total) \union Replay(d)
           /\ Recovered(d).watermark \in Replay(d)
      /\ Replay(d) = {} =>
           /\ Recovered(d).watermark = d.watermark
           /\ Recovered(d).total = IF d.start > 0 THEN Add(d.total, Span(d.start, Compensation(d))) ELSE d.total
  BY <1>1, RecoveredIs DEF Played
<1>3. \A T : Ticks(Add(d.total, T)) = Ticks(d.total) \union (T \intersect 1 .. MaxTime)
  BY <1>0, AddIs
<1>4. d.watermark <= now /\ d.saved <= now /\ \A t \in Ticks(d.total) : t <= now
  BY <1>0 DEF Past
<1>5. CASE Replay(d) # {}
  <2>1. \A t \in Replay(d) : t <= now
    BY <1>1, JournalIs DEF Replay
  <2>2. Ticks(Recovered(d).total) \subseteq Ticks(d.total) \union Replay(d)
    BY <1>2, <1>5
  <2>3. \A t \in Ticks(Recovered(d).total) : t <= now
    BY <1>4, <2>1, <2>2
  <2> QED BY <1>0, <1>2, <1>4, <1>5, <2>1, <2>3 DEF Past
<1>6. CASE Replay(d) = {}
  <2>1. Compensation(d) \in Int /\ Compensation(d) <= now
    BY <1>1, CompensationIs
  <2>2. \A t \in Span(d.start, Compensation(d)) : t <= now
    BY <1>0, <2>1 DEF Span
  <2>3. Ticks(Recovered(d).total) \subseteq Ticks(d.total) \union Span(d.start, Compensation(d))
    BY <1>2, <1>3, <1>6
  <2>4. \A t \in Ticks(Recovered(d).total) : t <= now
    BY <1>4, <2>2, <2>3
  <2> QED BY <1>0, <1>2, <1>4, <1>6, <2>4 DEF Past
<1> QED BY <1>5, <1>6

\* A session ends no later than it can have been counted.
LEMMA PastAdded ==
  ASSUME Typed, NEW d \in Data, Past(d), NEW r \in Int, Reach <= r, NEW a \in Int, NEW b \in Int, b <= r \/ b <= a
  PROVE  \A t \in Ticks(Add(d.total, Span(a, b))) : t <= r
<1>1. Ticks(Add(d.total, Span(a, b))) = Ticks(d.total) \union (Span(a, b) \intersect 1 .. MaxTime)
  BY FieldsAre, AddIs
<1>2. \A t \in Ticks(d.total) : t \in Int
  BY FieldsAre, TicksAre
<1>3. \A t \in Ticks(d.total) : t <= r
  BY <1>2, TimesAre DEF Past
<1>4. \A t \in Span(a, b) : t <= r
  BY DEF Span
<1> QED BY <1>1, <1>3, <1>4

LEMMA PastLoaded ==
  ASSUME Typed, AllPast
  PROVE  Loaded \in Data /\ Past(Loaded)
<1>1. Loaded \in Data
  BY DiskIs DEF Typed
<1>2. Past(EmptyData)
  <2>1. Ticks(EmptyData.total) = {}
    BY DataIs, NoTimeIs
  <2> QED BY <2>1, DataIs, TimesAre DEF Past
<1> QED BY <1>1, <1>2 DEF Loaded, AllPast

LEMMA PastIO ==
  ASSUME Typed, Control, AllPast, IO
  PROVE  AllPast'
<1>1. now' = now /\ beatDue' = beatDue /\ [Next]_vars
  BY DEF IO, Next
<1>2. PICK i \in DOMAIN calls :
         \/ Read(i) \/ Clear(i) \/ SavePrimary(i) \/ SaveBackup(i) \/ PauseTruncates(i)
         \/ EndTruncates(i) \/ Settle(i) \/ EndFlushes(i)
  BY <1>1 DEF IO
<1>3. /\ calls[i] \in Members(calls) /\ calls[i].data \in Data /\ Past(calls[i].data)
  <2>1. calls[i] \in Members(calls) /\ calls[i] \in CallRecords
    BY CallsAre
  <2> QED BY <2>1, Stage DEF AllPast
<1>4. PICK w \in Data : w = calls[i].data /\ Past(w)'
  <2>1. PICK w \in Data : w = calls[i].data
    BY <1>3
  <2> QED BY <1>1, <1>3, <2>1, PastStays
<1>5. ASSUME NEW kind, kind = calls[i].kind, NEW op, NEW d \in Data, Past(d), Goes(i, kind, op, d)
      PROVE  \A c \in Members(calls') : c \in Members(calls) \/ Past(c.data)'
  <2>1. \A c \in Members(calls') : c \in Members(calls) \/ c.data = d
    BY <1>5, GoesKeeps
  <2>2. Past(d)'
    BY <1>1, <1>5, PastStays
  <2> QED BY <2>1, <2>2
<1>6. calls' = RemoveAt(calls, i) => Members(calls') \subseteq Members(calls)
  BY LeavesKeeps
<1>7. CASE Read(i)
  <2>1. /\ mem' = mem /\ disk' = disk /\ calls[i].kind = "start" /\ Goes(i, "start", "clear", Stamped(Recovered(Loaded)))
    BY <1>7, ReadIs DEF InProcess
  <2>2. PICK d : d = Stamped(Recovered(Loaded))
    OBVIOUS
  <2>3. ~beatDue /\ now \in 1 .. MaxTime /\ Journaled
    BY <2>1, InFlightMeans DEF Typed
  <2>4. Recovered(Loaded) \in Data /\ Past(Recovered(Loaded))
    BY <2>3, PastLoaded, RecoveredIs, PastRecovered
  <2>5. d \in Data /\ Past(d)
    BY <2>2, <2>3, <2>4, StampedIs, PastStamped
  <2>6. \A c \in Members(calls') : c \in Members(calls) \/ Past(c.data)'
    BY <1>5, <2>1, <2>2, <2>5
  <2> QED BY <1>1, <2>1, <2>6, PastFrom
<1>8. CASE Clear(i)
  <2>1. mem' = mem /\ disk' = disk /\ calls[i].kind = "start" /\ Goes(i, "start", "primary", calls[i].data)
    BY <1>8, ClearIs DEF InProcess
  <2>2. \A c \in Members(calls') : c \in Members(calls) \/ Past(c.data)'
    BY <1>3, <1>5, <2>1
  <2> QED BY <1>1, <2>1, <2>2, PastFrom
<1>9. CASE SavePrimary(i) \/ SaveBackup(i)
  <2>1. /\ disk'.primary = disk.primary \/ disk'.primary = calls[i].data
        /\ disk'.backup = disk.backup \/ disk'.backup = calls[i].data
    <3>1. \/ disk' = [disk EXCEPT !.primary = calls[i].data]
          \/ disk' = [disk EXCEPT !.backup = calls[i].data]
          \/ disk' = disk
      BY <1>9, SavePrimaryIs, SaveBackupIs
    <3>2. disk \in [primary : Data, backup : Data]
      BY DEF Typed
    <3> QED BY <1>3, <3>1, <3>2, DiskIs
  <2>2. disk'.primary = disk.primary \/ Past(disk.primary)'
    BY <1>4, <2>1 DEF Past
  <2>3. disk'.backup = disk.backup \/ Past(disk.backup)'
    BY <1>4, <2>1 DEF Past
  <2>4. \/ mem' = mem /\ Goes(i, calls[i].kind, "backup", calls[i].data)
        \/ mem' = mem /\ calls[i].kind = "end" /\ Goes(i, "end", "truncate", calls[i].data)
        \/ calls[i].kind = "start" /\ Starts(i)
        \/ mem' = mem /\ calls' = RemoveAt(calls, i)
    BY <1>9, SavePrimaryIs, SaveBackupIs DEF InProcess, Returns
  <2>5. CASE mem' = mem /\ Goes(i, calls[i].kind, "backup", calls[i].data)
    <3>1. \A c \in Members(calls') : c \in Members(calls) \/ Past(c.data)'
      BY <1>3, <1>5, <2>5
    <3> QED BY <1>1, <2>2, <2>3, <2>5, <3>1, PastFrom
  <2>6. CASE mem' = mem /\ calls[i].kind = "end" /\ Goes(i, "end", "truncate", calls[i].data)
    <3>1. \A c \in Members(calls') : c \in Members(calls) \/ Past(c.data)'
      BY <1>3, <1>5, <2>6
    <3> QED BY <1>1, <2>2, <2>3, <2>6, <3>1, PastFrom
  <2>7. CASE calls[i].kind = "start" /\ Starts(i)
    <3>1. /\ calls' = RemoveAt(calls, i)
          /\ mem'.data.total = calls[i].data.total /\ mem'.data.start = now /\ mem'.data.saved = now
          /\ mem'.data.watermark = calls[i].data.watermark
      BY <2>7 DEF Starts
    <3>2. now <= now
      BY TimesAre
    <3>3. Past(mem.data)'
      BY <1>1, <1>4, <3>1, <3>2 DEF Past
    <3>4. mem'.data.watermark <= mem'.data.start
      BY <1>3, <3>1 DEF Past
    <3> QED BY <1>1, <1>6, <2>2, <2>3, <3>1, <3>3, <3>4, PastFrom
  <2>8. CASE mem' = mem /\ calls' = RemoveAt(calls, i)
    BY <1>1, <1>6, <2>2, <2>3, <2>8, PastFrom
  <2> QED BY <2>4, <2>5, <2>6, <2>7, <2>8
<1>10. CASE PauseTruncates(i)
  <2>1. /\ mem' = mem /\ disk' = disk /\ calls[i].kind = "pause"
        /\ Goes(i, "pause", "primary", Stamped(mem.data)) \/ calls' = RemoveAt(calls, i)
    BY <1>10, PauseTruncatesIs DEF InProcess
  <2>2. PICK d : d = Stamped(mem.data)
    OBVIOUS
  <2>3. d \in Data /\ Past(d)
    <3>1. mem.data \in Data /\ Past(mem.data) /\ now \in 1 .. MaxTime
      BY MemIs DEF Typed, AllPast
    <3> QED BY <2>2, <3>1, StampedIs, PastStamped
  <2>4. \A c \in Members(calls') : c \in Members(calls) \/ Past(c.data)'
    BY <1>5, <1>6, <2>1, <2>2, <2>3
  <2> QED BY <1>1, <2>1, <2>4, PastFrom
<1>11. CASE EndTruncates(i)
  <2>1. /\ disk' = disk /\ calls' = RemoveAt(calls, i)
        /\ \/ mem' = mem
           \/ /\ mem'.data.watermark = 0 /\ mem'.data.total = mem.data.total /\ mem'.data.saved = mem.data.saved
              /\ mem'.running = mem.running
    BY <1>11, EndTruncatesIs
  <2>2. ~mem.running
    <3>1. calls[i].kind = "end" /\ Head(calls[i].todo) = "truncate"
      BY <1>11, EndTruncatesIs
    <3> QED BY <3>1, InFlightMeans DEF InPlace, Control, Session
  <2>3. Past(mem.data)'
    <3>1. mem.data \in Data /\ Past(mem.data)
      BY MemIs DEF Typed, AllPast
    <3>2. PICK d \in Data : d = mem.data
      BY <3>1
    <3>3. Past(d)' /\ 0 <= now'
      BY <1>1, <3>1, <3>2, PastStays
    <3> QED BY <2>1, <3>2, <3>3 DEF Past
  <2> QED BY <1>1, <1>6, <2>1, <2>2, <2>3, PastFrom
<1>12. CASE Settle(i)
  <2>1. /\ mem' = mem /\ disk' = disk /\ calls[i].kind = "end"
        /\ Goes(i, "end", "flush", calls[i].data) \/ calls' = RemoveAt(calls, i)
    BY <1>12, SettleIs
  <2>2. \A c \in Members(calls') : c \in Members(calls) \/ Past(c.data)'
    BY <1>3, <1>5, <1>6, <2>1
  <2> QED BY <1>1, <2>1, <2>2, PastFrom
<1>13. CASE EndFlushes(i)
  <2>1. /\ disk' = disk /\ calls[i].kind = "end" /\ lastTick' = lastTick
        /\ \/ /\ mem'.data = Halted(mem.data) /\ mem'.running = FALSE
              /\ Goes(i, "end", "primary", Stamped(EndData))
           \/ mem' = mem /\ calls' = RemoveAt(calls, i)
    BY <1>1, <1>13, EndFlushesIs
  <2>2. CASE mem' = mem /\ calls' = RemoveAt(calls, i)
    BY <1>1, <1>6, <2>1, <2>2, PastFrom
  <2>3. CASE /\ mem'.data = Halted(mem.data) /\ mem'.running = FALSE
             /\ Goes(i, "end", "primary", Stamped(EndData))
    <3>1. mem \in Mems /\ mem.data \in Data /\ now \in 1 .. MaxTime /\ Past(mem.data) /\ ~beatDue
      BY <2>1, MemIs, InFlightMeans DEF Typed, AllPast
    <3>2. Halted(mem.data) \in Data /\ Past(Halted(mem.data))
      <4>1. Reach = now /\ now \in Nat /\ mem.data.start \in Int
        BY <3>1, TimesAre, FieldsAre, Constants DEF Reach
      <4>2. CASE mem.running
        <5>1. /\ Halted(mem.data).watermark = mem.data.watermark
              /\ Halted(mem.data).total = Add(mem.data.total, Span(mem.data.start, now))
              /\ Halted(mem.data).saved = now /\ Halted(mem.data) \in Data
          BY <3>1, <4>2, HaltedIs
        <5>2. \A t \in Ticks(Add(mem.data.total, Span(mem.data.start, now))) : t <= now
          BY <3>1, <4>1, PastAdded
        <5> QED BY <3>1, <4>1, <5>1, <5>2 DEF Past
      <4>3. CASE ~mem.running
        BY <3>1, <4>3, HaltedIs
      <4> QED BY <4>2, <4>3
    <3>3. EndData \in Data /\ Past(EndData)
      <4>1. /\ EndData \in Data
            /\ EndData.total = Halted(mem.data).total
            /\ EndData.saved = Halted(mem.data).saved
            /\ EndData.watermark = IF EndData.saved > 0 THEN EndData.saved ELSE now
        BY <3>1, EndDataIs
      <4> QED BY <3>2, <4>1, TimesAre DEF Past
    <3>4. PICK d : d = Stamped(EndData)
      OBVIOUS
    <3>5. d \in Data /\ Past(d)
      BY <3>1, <3>3, <3>4, StampedIs, PastStamped
    <3>6. \A c \in Members(calls') : c \in Members(calls) \/ Past(c.data)'
      BY <1>5, <2>1, <2>3, <3>4, <3>5
    <3>7. Past(mem.data)'
      <4>1. PICK h \in Data : h = Halted(mem.data)
        BY <3>2
      <4>2. Past(h)'
        BY <1>1, <3>2, <4>1, PastStays
      <4>3. mem'.data = h
        BY <2>3, <4>1
      <4> QED BY <4>2, <4>3 DEF Past
    <3> QED BY <1>1, <2>1, <2>3, <3>6, <3>7, PastFrom
  <2> QED BY <2>1, <2>2, <2>3
<1> QED BY <1>2, <1>7, <1>8, <1>9, <1>10, <1>11, <1>12, <1>13

\* A save of what is in memory.
LEMMA PastSaveIssued ==
  ASSUME Typed, Control, AllPast, [Next]_vars, NEW kind, Issues(kind, "primary", Stamped(mem.data)),
         UNCHANGED <<mem, storage>>
  PROVE  AllPast'
<1>1. PICK d : d = Stamped(mem.data)
  OBVIOUS
<1>2. d \in Data /\ Past(d)
  <2>1. mem.data \in Data /\ Past(mem.data) /\ now \in 1 .. MaxTime
    BY MemIs DEF Typed, AllPast
  <2> QED BY <1>1, <2>1, StampedIs, PastStamped
<1>3. Past(d)'
  BY <1>2, PastStays
<1>4. \A c \in Members(calls') : c \in Members(calls) \/ Past(c.data)'
  <2>1. \A c \in Members(calls') : c \in Members(calls) \/ c.data = d
    BY <1>1, IssuesKeeps
  <2> QED BY <1>3, <2>1
<1>5. mem' = mem /\ disk' = disk
  BY DEF storage
<1> QED BY <1>4, <1>5, PastFrom

\* A save of what is in memory after the step.
LEMMA PastNewSave ==
  ASSUME Typed, Control, AllPast, [Next]_vars, NEW kind, Issues(kind, "primary", Stamped(mem'.data)),
         mem' \in Mems, Past(mem.data)', now' = now, disk' = disk,
         mem'.running => mem'.data.watermark <= mem'.data.start
  PROVE  AllPast'
<1>1. PICK d, e : d = mem'.data /\ e = Stamped(d)
  OBVIOUS
<1>2. d \in Data
  <2> HIDE DEF Data
  <2> QED BY <1>1 DEF Mems
<1>3. /\ e.total = d.total /\ e.saved = now /\ e.watermark = d.watermark
  BY <1>1, <1>2, StampedIs DEF Typed
<1>4. Past(d)'
  BY <1>1 DEF Past
<1>5. Past(e)'
  BY <1>3, <1>4, TimesAre DEF Past
<1>6. \A c \in Members(calls') : c \in Members(calls) \/ Past(c.data)'
  <2>1. \A c \in Members(calls') : c \in Members(calls) \/ c.data = e
    BY <1>1, IssuesKeeps
  <2> QED BY <1>5, <2>1
<1> QED BY <1>6, PastFrom

LEMMA PastEmpty ==
  /\ Ticks(EmptyData.total) = {}
  /\ Typed => Past(EmptyData) /\ Past(Missing)
<1>1. Ticks(EmptyData.total) = {} /\ Ticks(Missing.total) = {}
  BY DataIs, NoTimeIs
<1>2. Typed => Past(EmptyData) /\ Past(Missing)
  BY <1>1, DataIs, TimesAre DEF Past
<1> QED BY <1>1, <1>2

LEMMA PastEmptyIssued ==
  ASSUME Typed, Control, AllPast, [Next]_vars, NEW kind, NEW op, Issues(kind, op, EmptyData)
  PROVE  \A c \in Members(calls') : c \in Members(calls) \/ Past(c.data)'
<1>1. \A c \in Members(calls') : c \in Members(calls) \/ c.data = EmptyData
  BY IssuesKeeps
<1>2. Past(EmptyData)'
  <2>1. Past(EmptyData) /\ EmptyData \in Data
    BY PastEmpty, DataIs
  <2>2. PICK d \in Data : d = EmptyData
    BY <2>1
  <2>3. Past(d)'
    BY <2>1, <2>2, PastStays
  <2> QED BY <2>2, <2>3
<1> QED BY <1>1, <1>2

LEMMA PastNext ==
  ASSUME Typed, Control, AllPast, [Next]_vars
  PROVE  AllPast'
<1>1. mem \in Mems /\ mem.data \in Data /\ Past(mem.data) /\ mem.data.start \in Int /\ mem.data.watermark \in Int
  <2>1. mem \in Mems /\ mem.data \in Data
    BY MemIs DEF Typed
  <2> QED BY <2>1, FieldsAre, Constants DEF AllPast
<1>2. now \in Nat /\ 1 <= now /\ lastTick \in Nat /\ lastTick <= now /\ Reach \in Nat /\ lastTick <= Reach /\ Reach <= now
  BY TimesAre
<1>3. now' \in Nat /\ now <= now' /\ Reach' \in Nat /\ Reach <= Reach'
  BY PastStays
<1>4. \A t \in Ticks(mem.data.total) : t <= Reach /\ t \in Nat
  <2>1. \A t \in Ticks(mem.data.total) : t <= Reach
    BY <1>1 DEF Past
  <2>2. \A t \in Ticks(mem.data.total) : t \in Nat
    BY <1>1, FieldsAre, TicksAre
  <2> QED BY <2>1, <2>2
<1>5. CASE Start
  <2>1. mem' = mem /\ disk' = disk /\ Issues("start", "read", EmptyData)
    BY <1>5, StartIs
  <2> QED BY <2>1, PastEmptyIssued, PastFrom
<1>6. CASE Stop
  <2>1. mem' = mem /\ disk' = disk /\ Issues("end", "settle", EmptyData)
    BY <1>6, StopIs
  <2> QED BY <2>1, PastEmptyIssued, PastFrom
<1>7. CASE Checkpoint
  <2>1. Issues("checkpoint", "primary", Stamped(mem.data)) /\ UNCHANGED <<mem, storage>>
    BY <1>7, SaveIssued DEF Checkpoint
  <2> QED BY <2>1, PastSaveIssued
<1>8. CASE SaveNow
  <2>1. Issues("save", "primary", Stamped(mem.data)) /\ UNCHANGED <<mem, storage>>
    BY <1>8, SaveIssued DEF SaveNow
  <2> QED BY <2>1, PastSaveIssued
<1>9. CASE Flush \/ AdvanceClock \/ UNCHANGED vars
  <2>1. mem' = mem /\ disk' = disk /\ calls' = calls
    BY <1>9 DEF Flush, AdvanceClock, vars, storage
  <2> QED BY <2>1, PastFrom
<1>10. CASE IdlePause
  <2>1. /\ UNCHANGED <<now, lastTick, beatDue, disk>>
        /\ \E idleStart \in 1 .. lastTick :
              \/ /\ Issues("pause", "truncate", EmptyData)
                 /\ mem'.running = FALSE /\ mem'.data.watermark = idleStart
                 /\ mem.running =>
                      /\ mem'.data.total = Add(mem.data.total, Span(mem.data.start, CutAt(idleStart)))
                      /\ mem'.data.saved = CutAt(idleStart)
                 /\ ~mem.running =>
                      /\ mem'.data.total = mem.data.total /\ mem'.data.saved = mem.data.saved
              \/ UNCHANGED <<mem, calls>>
    BY <1>10, IdlePauseIs
  <2>2. CASE UNCHANGED <<mem, calls>>
    BY <2>1, <2>2, PastFrom
  <2>3. CASE ~ UNCHANGED <<mem, calls>>
    <3>1. PICK idleStart \in 1 .. lastTick :
                 /\ Issues("pause", "truncate", EmptyData)
                 /\ mem'.running = FALSE /\ mem'.data.watermark = idleStart
                 /\ mem.running =>
                      /\ mem'.data.total = Add(mem.data.total, Span(mem.data.start, CutAt(idleStart)))
                      /\ mem'.data.saved = CutAt(idleStart)
                 /\ ~mem.running =>
                      /\ mem'.data.total = mem.data.total /\ mem'.data.saved = mem.data.saved
      BY <2>1, <2>3
    <3>2. idleStart \in Int /\ idleStart <= lastTick /\ now' = now /\ Reach' = Reach
      BY <1>2, <2>1 DEF Reach
    <3>3. CASE mem.running
      <4>1. CutAt(idleStart) \in Int /\ (CutAt(idleStart) <= Reach \/ CutAt(idleStart) <= mem.data.start)
        BY <1>1, <1>2, <3>2 DEF CutAt
      <4>2. CutAt(idleStart) <= now
        BY <1>1, <1>2, <3>2, <3>3 DEF CutAt, Control, Session
      <4>3. \A t \in Ticks(Add(mem.data.total, Span(mem.data.start, CutAt(idleStart)))) : t <= Reach
        BY <1>1, <1>2, <4>1, PastAdded
      <4>4. Past(mem.data)'
        BY <1>2, <3>1, <3>2, <3>3, <4>2, <4>3 DEF Past
      <4> QED BY <2>1, <3>1, <4>4, PastEmptyIssued, PastFrom
    <3>4. CASE ~mem.running
      <4>1. mem.data.saved <= now
        BY <1>1 DEF Past
      <4>2. Past(mem.data)'
        BY <1>2, <1>4, <3>1, <3>2, <3>4, <4>1 DEF Past
      <4> QED BY <2>1, <3>1, <4>2, PastEmptyIssued, PastFrom
    <3> QED BY <3>3, <3>4
  <2> QED BY <2>2, <2>3
<1>11. CASE IdleResume
  <2>1. /\ UNCHANGED <<now, lastTick, beatDue, disk>>
        /\ \/ /\ Issues("resume", "primary", Stamped(mem'.data)) /\ mem' \in Mems
              /\ mem'.data.total = mem.data.total /\ mem'.data.start = now /\ mem'.data.saved = now
              /\ mem'.data.watermark = now
           \/ UNCHANGED <<mem, calls>>
    BY <1>11, IdleResumeIs
  <2>2. CASE UNCHANGED <<mem, calls>>
    BY <2>1, <2>2, PastFrom
  <2>3. CASE /\ Issues("resume", "primary", Stamped(mem'.data)) /\ mem' \in Mems
             /\ mem'.data.total = mem.data.total /\ mem'.data.start = now /\ mem'.data.saved = now
             /\ mem'.data.watermark = now
    <3>1. Reach' = Reach
      BY <2>1 DEF Reach
    <3>2. Past(mem.data)'
      BY <1>2, <1>4, <2>1, <2>3, <3>1 DEF Past
    <3> QED BY <1>2, <2>1, <2>3, <3>2, PastNewSave
  <2> QED BY <2>1, <2>2, <2>3
<1>12. CASE Heartbeat
  <2>1. /\ now' = now /\ disk' = disk /\ beatDue' = FALSE /\ lastTick' = now
        /\ \/ Moves(lastTick, now) /\ Issues("wake", "primary", Stamped(mem'.data))
           \/ \E at \in 1 .. now : Moves(at, at) /\ Issues("rotate", "primary", Stamped(mem'.data))
           \/ UNCHANGED <<mem, calls>>
    BY <1>12, HeartbeatIs
  <2>2. Reach' = now
    BY <2>1 DEF Reach
  <2>3. ASSUME NEW end \in Int, NEW at \in Int, end <= at, at <= now, Moves(end, at), NEW kind, Issues(kind, "primary", Stamped(mem'.data))
        PROVE  AllPast'
    <3>1. /\ mem' \in Mems /\ mem'.running = mem.running /\ mem'.data.watermark = at
          /\ mem.running => /\ mem'.data.total = Add(mem.data.total, Span(mem.data.start, end))
                            /\ mem'.data.start = at /\ mem'.data.saved = at
          /\ ~mem.running => /\ mem'.data.total = mem.data.total /\ mem'.data.saved = mem.data.saved
      BY <2>3 DEF Moves
    <3>2. CASE mem.running
      <4>1. \A t \in Ticks(Add(mem.data.total, Span(mem.data.start, end))) : t <= now
        BY <1>1, <1>2, <2>3, PastAdded
      <4>2. Past(mem.data)'
        BY <1>2, <2>1, <2>2, <2>3, <3>1, <3>2, <4>1 DEF Past
      <4> QED BY <1>2, <2>1, <2>3, <3>1, <3>2, <4>2, PastNewSave
    <3>3. CASE ~mem.running
      <4>1. mem.data.saved <= now
        BY <1>1 DEF Past
      <4>2. Past(mem.data)'
        BY <1>2, <1>4, <2>1, <2>2, <2>3, <3>1, <3>3, <4>1 DEF Past
      <4> QED BY <1>2, <2>1, <2>3, <3>1, <3>3, <4>2, PastNewSave
    <3> QED BY <3>2, <3>3
  <2>4. CASE UNCHANGED <<mem, calls>>
    BY <2>1, <2>4, PastFrom
  <2>5. CASE Moves(lastTick, now) /\ Issues("wake", "primary", Stamped(mem'.data))
    BY <1>2, <2>3, <2>5
  <2>6. CASE \E at \in 1 .. now : Moves(at, at) /\ Issues("rotate", "primary", Stamped(mem'.data))
    <3>1. PICK at \in 1 .. now : Moves(at, at) /\ Issues("rotate", "primary", Stamped(mem'.data))
      BY <2>6
    <3>2. at \in Int /\ at <= now /\ at <= at
      BY <1>2
    <3> QED BY <2>3, <3>1, <3>2
  <2> QED BY <2>1, <2>4, <2>5, <2>6
<1>13. CASE Crash
  <2>1. mem' = NewMem /\ calls' = <<>> /\ disk' = disk
    BY <1>13 DEF Crash
  <2>2. Past(mem.data)' /\ mem'.running = FALSE
    <3>1. mem'.data = EmptyData /\ mem'.running = FALSE
      BY <1>1, <2>1, MemIs
    <3>2. Past(EmptyData) /\ EmptyData \in Data
      BY PastEmpty, DataIs
    <3>3. PICK d \in Data : d = EmptyData
      BY <3>2
    <3>4. Past(d)'
      BY <3>2, <3>3, PastStays
    <3> QED BY <3>1, <3>3, <3>4 DEF Past
  <2>3. Members(calls') = {}
    BY <2>1, NoCalls
  <2> QED BY <2>1, <2>2, <2>3, PastFrom
<1> QED BY <1>5, <1>6, <1>7, <1>8, <1>9, <1>10, <1>11, <1>12, <1>13, PastIO DEF Next

LEMMA PastInit ==
  ASSUME Init
  PROVE  AllPast
<1>1. Typed
  BY TypedInit
<1>2. mem.data = EmptyData /\ mem.running = FALSE /\ disk.primary = Missing /\ disk.backup = Missing /\ calls = <<>>
  <2>1. mem = NewMem /\ disk = [primary |-> Missing, backup |-> Missing] /\ calls = <<>>
    BY DEF Init
  <2> QED BY <2>1 DEF NewMem
<1>3. Members(calls) = {}
  BY <1>2, NoCalls
<1> QED BY <1>1, <1>2, <1>3, PastEmpty DEF AllPast

-----------------------------------------------------------------------------
(* What is in the journal's file.                                          *)

\* A slice is there once, and none that is still to be written is there, but for
\* those that failed appends have written.
Filing ==
  /\ \A t \in Slices : t <= Reach
  /\ \A t \in 1 .. MaxTime : t \notin rewritten => Lines[t] <= 1
  /\ buffer \intersect Filed \subseteq rewritten

LEMMA FilingIs ==
  ASSUME Typed
  PROVE  /\ Lines \in Totals /\ \A t \in 1 .. MaxTime : Lines[t] \in Nat
         /\ \A t \in 1 .. MaxTime : t \in Filed <=> Lines[t] > 0
         /\ Filed \subseteq Slices /\ buffer \subseteq Slices /\ Slices = buffer \union Filed
         /\ Slices \subseteq 1 .. now /\ Slices \subseteq 1 .. MaxTime
<1>1. Lines \in Totals /\ Slices = buffer \union Filed /\ Slices \subseteq 1 .. now
  BY JournalIs DEF Typed
<1>2. Filed = {t \in 1 .. MaxTime : Lines[t] > 0} /\ \A t \in 1 .. MaxTime : Lines[t] \in Nat
  BY <1>1, TicksAre DEF Filed, Totals
<1>3. 1 .. now \subseteq 1 .. MaxTime
  BY TimesAre
<1> QED BY <1>1, <1>2, <1>3

\* How a step changes the journal.
LEMMA JournalNext ==
  ASSUME Typed, [Next]_vars
  PROVE  \/ Appends
         \/ UNCHANGED <<buffer, file, openLine, rewritten>> /\ NoneLost
         \/ buffer' \in SUBSET buffer /\ EmptiedOrNot /\ rewritten' = rewritten
         \/ buffer' \in SUBSET buffer /\ UNCHANGED <<file, openLine, rewritten>> /\ uncovered' = {}
         \/ Heartbeat
<1>1. CASE IO
  <2>1. now' = now
    BY <1>1 DEF IO
  <2>2. PICK i \in DOMAIN calls :
           \/ Read(i) \/ Clear(i) \/ SavePrimary(i) \/ SaveBackup(i) \/ PauseTruncates(i)
           \/ EndTruncates(i) \/ Settle(i) \/ EndFlushes(i)
    BY <1>1 DEF IO
  <2>3. CASE Read(i) \/ SavePrimary(i) \/ SaveBackup(i) \/ Settle(i)
    BY <2>3, ReadIs, SavePrimaryIs, SaveBackupIs, SettleIs, SlicesStay
  <2>4. CASE Clear(i)
    BY <2>4, ClearIs DEF EmptiedOrNot
  <2>5. CASE PauseTruncates(i) \/ EndTruncates(i)
    BY <2>5, PauseTruncatesIs, EndTruncatesIs DEF EmptiedOrNot
  <2>6. CASE EndFlushes(i)
    BY <2>1, <2>6, EndFlushesIs
  <2> QED BY <2>2, <2>3, <2>4, <2>5, <2>6
<1>2. CASE Start \/ Stop \/ IdlePause \/ IdleResume
  BY <1>2, StartIs, StopIs, IdlePauseIs, IdleResumeIs, SlicesStay
<1>3. CASE Checkpoint \/ SaveNow \/ AdvanceClock \/ UNCHANGED vars
  BY <1>3, SlicesStay DEF Checkpoint, SaveNow, AdvanceClock, vars, journal
<1>4. CASE Flush
  BY <1>4, FlushIs
<1>5. CASE Crash
  BY <1>5 DEF Crash
<1> QED BY <1>1, <1>2, <1>3, <1>4, <1>5 DEF Next

LEMMA SlicesGrow ==
  ASSUME Typed, Control, [Next]_vars
  PROVE  /\ \A t \in Slices' : t \in Slices \/ (t > Reach /\ Heartbeat)
         /\ rewritten \subseteq rewritten'
<1>1. CASE Appends
  BY <1>1 DEF Appends
<1>2. CASE UNCHANGED <<buffer, file, openLine, rewritten>>
  BY <1>2, FileStays DEF Slices, Filed
<1>3. CASE buffer' \in SUBSET buffer /\ EmptiedOrNot /\ rewritten' = rewritten
  <2>1. CASE Emptied
    BY <1>3, <2>1, EmptiedIs, FilingIs
  <2>2. CASE UNCHANGED <<file, openLine>>
    BY <1>3, <2>2, FileStays, FilingIs
  <2> QED BY <1>3, <2>1, <2>2 DEF EmptiedOrNot
<1>4. CASE buffer' \in SUBSET buffer /\ UNCHANGED <<file, openLine, rewritten>>
  BY <1>4, FileStays, FilingIs
<1>5. CASE Heartbeat
  <2>1. beatDue = TRUE /\ UNCHANGED <<file, openLine, rewritten>> /\ buffer' \subseteq buffer \union {now}
    BY <1>5, HeartbeatIs, HeartbeatPushes
  <2>2. now > Reach
    BY <2>1, TimesAre DEF Reach, Control, Session
  <2>3. Slices' = buffer' \union Filed
    BY <2>1, FileStays
  <2> QED BY <1>5, <2>1, <2>2, <2>3, FilingIs
<1> QED BY <1>1, <1>2, <1>3, <1>4, <1>5, JournalNext

LEMMA FilingPrime ==
  ASSUME Typed'
  PROVE  /\ \A t \in 1 .. MaxTime : Lines'[t] \in Nat /\ (t \in Filed' <=> Lines'[t] > 0)
         /\ Slices' \subseteq 1 .. now'
<1>1. PICK f, o, b, n : f = file' /\ o = openLine' /\ b = buffer' /\ n = now'
  OBVIOUS
<1>2. f \in Totals /\ Ticks(f) \subseteq 1 .. n /\ o \subseteq 0 .. n /\ b \subseteq 1 .. n /\ n \in 1 .. MaxTime
  BY <1>1 DEF Typed, Journaled
<1> DEFINE l == Add(f, o)
<1>3. l \in Totals /\ Ticks(l) = Ticks(f) \union (o \intersect 1 .. MaxTime)
  BY <1>2, AddIs
<1>4. Lines' = l /\ Filed' = Ticks(l) /\ Slices' = b \union Ticks(l)
  BY <1>1 DEF Lines, Filed, Slices
<1> HIDE DEF l
<1>5. Ticks(l) = {t \in 1 .. MaxTime : l[t] > 0} /\ \A t \in 1 .. MaxTime : l[t] \in Nat
  BY <1>3, TicksAre DEF Totals
<1>6. o \intersect 1 .. MaxTime \subseteq 1 .. n
  BY <1>2, Constants
<1>7. Ticks(l) \subseteq 1 .. n
  BY <1>2, <1>3, <1>6
<1>8. Slices' \subseteq 1 .. now'
  BY <1>1, <1>2, <1>4, <1>7
<1>9. ASSUME NEW t \in 1 .. MaxTime  PROVE Lines'[t] \in Nat /\ (t \in Filed' <=> Lines'[t] > 0)
  BY <1>4, <1>5
<1> QED BY <1>8, <1>9

LEMMA FilingNext ==
  ASSUME Typed, Control, Filing, [Next]_vars
  PROVE  Filing'
<1>0. Typed'
  BY TypedNext
<1>1. \A t \in Slices' : t <= Reach'
  <2>1. \A t \in Slices : t \in Nat /\ t <= Reach
    BY FilingIs DEF Filing
  <2>2. now' \in Nat /\ now <= now' /\ Reach' \in Nat /\ Reach <= Reach' /\ Reach \in Nat
    BY PastStays, TimesAre
  <2>3. \A t \in Slices : t <= Reach'
    BY <2>1, <2>2
  <2>4. CASE Heartbeat
    <3>1. beatDue' = FALSE /\ now' = now
      BY <2>4, HeartbeatIs
    <3>2. Reach' = now'
      BY <3>1 DEF Reach
    <3>3. Slices' \subseteq 1 .. now'
      BY <1>0, FilingPrime
    <3> QED BY <2>2, <3>2, <3>3
  <2>5. CASE ~Heartbeat
    BY <2>3, <2>5, SlicesGrow
  <2> QED BY <2>4, <2>5
<1>2. \A t \in 1 .. MaxTime : Lines[t] \in Nat /\ (t \in Filed <=> Lines[t] > 0)
  BY FilingIs
<1>3. \A t \in 1 .. MaxTime : Lines'[t] \in Nat /\ (t \in Filed' <=> Lines'[t] > 0)
  BY <1>0, FilingPrime
<1>4. /\ \A t \in 1 .. MaxTime : t \notin rewritten => Lines[t] <= 1
      /\ buffer \intersect Filed \subseteq rewritten
  BY DEF Filing
<1>5. /\ \A t \in 1 .. MaxTime : t \notin rewritten' => Lines'[t] <= 1
      /\ buffer' \intersect Filed' \subseteq rewritten'
  <2>1. CASE Appends
    <3>1. \A t \in 1 .. MaxTime : Lines'[t] <= IF t \in buffer THEN Lines[t] + 1 ELSE Lines[t]
      BY <2>1 DEF Appends
    <3>2. \A t \in 1 .. MaxTime : t \in buffer /\ t \notin rewritten => Lines[t] = 0
      BY <1>2, <1>4
    <3>3. CASE buffer' = {} /\ rewritten' = rewritten
      BY <1>2, <1>3, <1>4, <3>1, <3>2, <3>3
    <3>4. CASE buffer' = buffer /\ rewritten' = rewritten \union (buffer \intersect Filed')
      <4>1. ASSUME NEW t \in 1 .. MaxTime, t \notin rewritten'  PROVE Lines'[t] <= 1
        BY <1>2, <1>3, <1>4, <3>1, <3>2, <3>4, <4>1
      <4> QED BY <3>4, <4>1
    <3> QED BY <2>1, <3>3, <3>4 DEF Appends
  <2>2. CASE buffer' \in SUBSET buffer /\ UNCHANGED <<file, openLine, rewritten>>
    <3>1. Lines' = Lines /\ Filed' = Filed
      BY <2>2, FileStays
    <3> QED BY <1>4, <2>2, <3>1
  <2>3. CASE buffer' \in SUBSET buffer /\ EmptiedOrNot /\ rewritten' = rewritten
    <3>1. CASE Emptied
      BY <3>1, EmptiedIs
    <3>2. CASE UNCHANGED <<file, openLine>>
      BY <2>2, <2>3, <3>2
    <3> QED BY <2>3, <3>1, <3>2 DEF EmptiedOrNot
  <2>4. CASE Heartbeat
    <3>1. beatDue = TRUE /\ UNCHANGED <<file, openLine, rewritten>> /\ buffer' \subseteq buffer \union {now}
      BY <2>4, HeartbeatIs, HeartbeatPushes
    <3>2. Lines' = Lines /\ Filed' = Filed
      BY <3>1, FileStays
    <3>3. now \notin Filed
      <4>1. now > Reach /\ now \in Nat /\ Reach \in Nat
        BY <3>1, TimesAre DEF Reach, Control, Session
      <4>2. now \in Slices => now <= Reach
        BY DEF Filing
      <4> QED BY <4>1, <4>2, FilingIs
    <3> QED BY <1>4, <3>1, <3>2, <3>3
  <2>5. CASE UNCHANGED <<buffer, file, openLine, rewritten>>
    BY <2>2, <2>5
  <2> QED BY <2>1, <2>2, <2>3, <2>4, <2>5, JournalNext
<1> QED BY <1>1, <1>5 DEF Filing

LEMMA FilingInit ==
  ASSUME Init
  PROVE  Filing
<1>1. PICK f, o : f = file /\ o = openLine
  OBVIOUS
<1>2. f = NoTime /\ o = {} /\ buffer = {}
  BY <1>1 DEF Init
<1>3. f \in Totals /\ Ticks(f) = {} /\ \A t \in 1 .. MaxTime : f[t] = 0
  BY <1>2, NoTimeIs
<1>4. Ticks(Add(f, o)) = {} /\ \A t \in 1 .. MaxTime : Add(f, o)[t] = 0
  BY <1>2, <1>3, AddIs
<1>5. Filed = {} /\ Slices = {} /\ \A t \in 1 .. MaxTime : Lines[t] = 0
  BY <1>1, <1>2, <1>4 DEF Filed, Lines, Slices
<1> QED BY <1>2, <1>5 DEF Filing



-----------------------------------------------------------------------------
(* Nothing is counted twice.                                               *)

\* No tick is in the total twice, but for the slices that a failed append has left
\* to be written again, and none is there of which a slice could be replayed or that
\* the session that is running will count.
Once(d) == \A t \in 1 .. MaxTime : t \notin rewritten => d.total[t] <= 1
Clean(d) ==
  /\ Once(d)
  /\ \A t \in 1 .. MaxTime : d.total[t] > 0 /\ t \in Slices => t <= d.watermark
  /\ \A t \in 1 .. MaxTime : d.total[t] > 0 /\ d.start > 0 => t <= d.start

\* What is saved at the end has its last save for a watermark.
CleanMem ==
  /\ mem.active => Clean(mem.data)
  /\ Once(mem.data)
  /\ ~mem.running => \A t \in 1 .. MaxTime : mem.data.total[t] > 0 => t <= mem.data.saved

Cleanliness ==
  /\ Clean(disk.primary) /\ Clean(disk.backup) /\ CleanMem
  /\ \A c \in Members(calls) : Clean(c.data)

AllClean == Without({"earlyPause", "lateSave"}) => Cleanliness

LEMMA CleanStays ==
  ASSUME Typed, Control, [Next]_vars, NEW d \in Data, Past(d), Clean(d)
  PROVE  Clean(d)'
<1>1. d.total \in Totals
  BY FieldsAre
<1>2. \A t \in 1 .. MaxTime : d.total[t] > 0 => ~(t > Reach)
  <2>1. \A t \in 1 .. MaxTime : d.total[t] > 0 => t \in Ticks(d.total)
    BY <1>1, TicksAre
  <2>2. \A t \in Ticks(d.total) : t <= Reach
    BY DEF Past
  <2>3. \A t \in 1 .. MaxTime : t <= Reach => ~(t > Reach)
    BY TimesAre
  <2> QED BY <2>1, <2>2, <2>3
<1>3. (\A t \in Slices' : t \in Slices \/ t > Reach) /\ rewritten \subseteq rewritten'
  BY SlicesGrow
<1> QED BY <1>2, <1>3 DEF Clean, Once

LEMMA EmptyClean ==
  /\ \A t \in 1 .. MaxTime : EmptyData.total[t] = 0
  /\ Clean(EmptyData) /\ Clean(Missing) /\ Clean(EmptyData)'
<1>1. \A t \in 1 .. MaxTime : EmptyData.total[t] = 0 /\ Missing.total[t] = 0
  BY DataIs, NoTimeIs
<1> QED BY <1>1 DEF Clean, Once

\* Recovery counts nothing twice.
LEMMA CleanRecovered ==
  ASSUME Typed, Filing, NEW d \in Data, Clean(d)
  PROVE  /\ Once(Recovered(d))
         /\ buffer = {} => Clean(Recovered(d))
<1>0. /\ now \in 1 .. MaxTime /\ Journaled /\ d.total \in Totals
      /\ d.start \in Int /\ d.watermark \in Int /\ now \in Nat /\ now <= MaxTime
  BY FieldsAre, TimesAre, Constants DEF Typed
<1> DEFINE r == Recovered(d)
<1>1. /\ r \in Data /\ r.start = 0
      /\ Replay(d) # {} =>
           /\ Played(d, r.total)
           /\ r.watermark \in Replay(d)
           /\ \A t \in Replay(d) : t <= r.watermark
      /\ Replay(d) = {} =>
           /\ r.watermark = d.watermark
           /\ r.total = IF d.start > 0 THEN Add(d.total, Span(d.start, Compensation(d))) ELSE d.total
  BY <1>0, RecoveredIs
<1> HIDE DEF r
<1>2. \A T : \A t \in 1 .. MaxTime : Add(d.total, T)[t] = IF t \in T THEN d.total[t] + 1 ELSE d.total[t]
  BY <1>0, AddIs
<1>3. \A t \in 1 .. MaxTime : d.total[t] \in Nat /\ (t \notin rewritten => d.total[t] <= 1)
  BY <1>0 DEF Clean, Once, Totals
<1>4. /\ \A t \in 1 .. MaxTime : d.total[t] > 0 /\ t \in Filed => t <= d.watermark
      /\ \A t \in 1 .. MaxTime : Lines[t] \in Nat /\ (t \notin rewritten => Lines[t] <= 1)
      /\ Filed \subseteq 1 .. now /\ (buffer = {} => Slices = Filed)
  <2>1. Filed \subseteq Slices /\ Slices = buffer \union Filed /\ \A t \in 1 .. MaxTime : Lines[t] \in Nat
    BY FilingIs
  <2>2. Slices \subseteq 1 .. now
    BY FilingIs
  <2> QED BY <2>1, <2>2 DEF Clean, Filing
<1>5. CASE Replay(d) # {}
  <2>1. \A t \in Replay(d) : t \in Filed /\ t > d.watermark
    BY DEF Replay
  <2>2. \A t \in 1 .. MaxTime : t \in Replay(d) => d.total[t] = 0
    BY <1>0, <1>3, <1>4, <2>1
  <2>3. \A t \in 1 .. MaxTime : r.total[t] = d.total[t] + (IF t \in Replay(d) THEN Lines[t] ELSE 0)
    BY <1>1, <1>5 DEF Played
  <2>4. \A t \in 1 .. MaxTime : t \notin rewritten => r.total[t] <= 1
    BY <1>3, <1>4, <2>2, <2>3
  <2>5. \A t \in Filed : t <= r.watermark
    <3> TAKE t \in Filed
    <3>1. t \in Int /\ r.watermark \in Int /\ r.watermark > d.watermark
      <4>1. r.watermark \in Replay(d)
        BY <1>1, <1>5
      <4>2. r.watermark \in Filed /\ r.watermark > d.watermark
        BY <2>1, <4>1
      <4>3. \A k \in Filed : k \in Int
        BY <1>0, <1>4
      <4> QED BY <4>2, <4>3
    <3>2. CASE t > d.watermark
      BY <1>1, <1>5, <3>2 DEF Replay
    <3>3. CASE ~(t > d.watermark)
      BY <1>0, <3>1, <3>3
    <3> QED BY <3>2, <3>3
  <2> QED BY <1>1, <1>4, <2>4, <2>5 DEF Clean, Once, r
<1>6. CASE Replay(d) = {}
  <2>1. \A t \in Filed : t <= d.watermark
    <3>1. \A t \in Filed : t \in Int
      BY <1>0, <1>4
    <3>2. \A t \in Filed : ~(t > d.watermark)
      BY <1>6 DEF Replay
    <3> QED BY <1>0, <3>1, <3>2
  <2>2. \A t \in 1 .. MaxTime : t \notin rewritten => r.total[t] <= 1
    <3> TAKE t \in 1 .. MaxTime
    <3>1. CASE d.start > 0
      <4>1. d.total[t] > 0 => t <= d.start
        BY <3>1 DEF Clean
      <4>2. t \in Span(d.start, Compensation(d)) => t > d.start
        <5>1. Compensation(d) \in Int
          BY <1>0, CompensationIs
        <5> QED BY <1>0, <5>1 DEF Span
      <4>3. t \in Span(d.start, Compensation(d)) => d.total[t] = 0
        BY <1>0, <1>3, <4>1, <4>2
      <4> QED BY <1>1, <1>2, <1>3, <1>6, <3>1, <4>3
    <3>2. CASE ~(d.start > 0)
      BY <1>1, <1>3, <1>6, <3>2
    <3> QED BY <3>1, <3>2
  <2> QED BY <1>1, <1>4, <1>6, <2>1, <2>2 DEF Clean, Once, r
<1> QED BY <1>5, <1>6

LEMMA KeptAre ==
  ASSUME Typed
  PROVE  /\ mem.data \in Data /\ disk.primary \in Data /\ disk.backup \in Data
         /\ \A c \in Members(calls) : c.data \in Data
<1>1. \A c \in Members(calls) : c.data \in Data
  BY CallsAre, Stage
<1>2. mem.data \in Data
  BY MemIs DEF Typed
<1>3. disk.primary \in Data /\ disk.backup \in Data
  BY DiskIs DEF Typed
<1> QED BY <1>1, <1>2, <1>3

LEMMA CleanFrom ==
  ASSUME Typed, Control, AllPast, Cleanliness, [Next]_vars,
         mem' = mem \/ CleanMem',
         disk'.primary = disk.primary \/ Clean(disk.primary)',
         disk'.backup = disk.backup \/ Clean(disk.backup)',
         \A c \in Members(calls') : c \in Members(calls) \/ Clean(c.data)'
  PROVE  Cleanliness'
<1>1. /\ mem.data \in Data /\ disk.primary \in Data /\ disk.backup \in Data
      /\ \A c \in Members(calls) : c.data \in Data
  BY KeptAre
<1>2. \A d \in Data : Past(d) /\ Clean(d) => Clean(d)'
  BY CleanStays
<1>3. CleanMem'
  <2>1. CASE mem' = mem
    <3>1. CleanMem /\ Past(mem.data) /\ rewritten \subseteq rewritten'
      BY SlicesGrow DEF Cleanliness, AllPast
    <3>2. PICK d \in Data : d = mem.data
      BY <1>1
    <3>3. mem.active => Clean(d)'
      BY <1>2, <3>1, <3>2 DEF CleanMem
    <3>4. mem'.data = d /\ mem'.active = mem.active /\ mem'.running = mem.running
      BY <2>1, <3>2
    <3>5. mem'.active => Clean(mem.data)'
      BY <3>3, <3>4 DEF Clean
    <3> QED BY <2>1, <3>1, <3>5 DEF CleanMem, Once
  <2> QED BY <2>1
<1>4. Clean(disk.primary)'
  <2>1. CASE disk'.primary = disk.primary
    <3>1. PICK d \in Data : d = disk.primary
      BY <1>1
    <3>2. Clean(d)' /\ disk'.primary = d
      BY <1>2, <2>1, <3>1 DEF AllPast, Cleanliness
    <3> QED BY <3>2 DEF Clean, Once
  <2> QED BY <2>1
<1>5. Clean(disk.backup)'
  <2>1. CASE disk'.backup = disk.backup
    <3>1. PICK d \in Data : d = disk.backup
      BY <1>1
    <3>2. Clean(d)' /\ disk'.backup = d
      BY <1>2, <2>1, <3>1 DEF AllPast, Cleanliness
    <3> QED BY <3>2 DEF Clean, Once
  <2> QED BY <2>1
<1>6. \A c \in Members(calls') : Clean(c.data)'
  <2> TAKE c \in Members(calls')
  <2>1. CASE c \in Members(calls)
    BY <1>1, <1>2, <2>1 DEF AllPast, Cleanliness
  <2> QED BY <2>1
<1> QED BY <1>3, <1>4, <1>5, <1>6 DEF Cleanliness

\* What is written is as clean as what it is written from.
LEMMA CleanStamped ==
  ASSUME Typed, NEW d \in Data, Clean(d)
  PROVE  Clean(Stamped(d))
  BY StampedIs DEF Clean, Once, Typed

LEMMA CleanLoaded ==
  ASSUME Typed, Cleanliness
  PROVE  Loaded \in Data /\ Clean(Loaded)
<1>1. Loaded \in Data
  BY DiskIs DEF Typed
<1> QED BY <1>1, EmptyClean DEF Loaded, Cleanliness

\* The ticks of kept data are no later than the clock.
LEMMA PastTicks ==
  ASSUME Typed, NEW d \in Data, Past(d)
  PROVE  \A t \in 1 .. MaxTime : d.total[t] > 0 => t <= Reach /\ t <= now
<1>1. \A t \in 1 .. MaxTime : d.total[t] > 0 => t \in Ticks(d.total)
  BY FieldsAre, TicksAre
<1> QED BY <1>1, TimesAre DEF Past

\* A session that ends adds ticks after its start.
LEMMA CleanAdded ==
  ASSUME Typed, NEW d \in Data, Clean(d), d.start > 0, NEW end \in Int
  PROVE  /\ \A t \in 1 .. MaxTime : t \notin rewritten => Add(d.total, Span(d.start, end))[t] <= 1
         /\ \A t \in 1 .. MaxTime : Add(d.total, Span(d.start, end))[t] > 0 => t <= d.start \/ t <= end
         /\ \A t \in 1 .. MaxTime : Add(d.total, Span(d.start, end))[t] > 0 => d.total[t] > 0 \/ t <= end
<1>1. d.total \in Totals /\ d.start \in Int
  BY FieldsAre, Constants
<1>2. \A t \in 1 .. MaxTime :
         Add(d.total, Span(d.start, end))[t] = IF t \in Span(d.start, end) THEN d.total[t] + 1 ELSE d.total[t]
  BY <1>1, AddIs
<1>3. \A t \in 1 .. MaxTime :
         d.total[t] \in Nat /\ (t \notin rewritten => d.total[t] <= 1) /\ (d.total[t] > 0 => t <= d.start)
  BY <1>1 DEF Clean, Once, Totals
<1>4. \A t \in 1 .. MaxTime : t \in Span(d.start, end) => t > d.start /\ t <= end
  BY <1>1 DEF Span
<1>5. \A t \in 1 .. MaxTime : t > d.start => ~(t <= d.start)
  BY <1>1
<1> QED BY <1>2, <1>3, <1>4, <1>5

LEMMA CleanIO ==
  ASSUME Typed, Control, Filing, AllPast, Cleanliness, IO
  PROVE  Cleanliness'
<1>1. now' = now /\ beatDue' = beatDue /\ [Next]_vars
  BY DEF IO, Next
<1>0. rewritten \subseteq rewritten'
  BY <1>1, SlicesGrow
<1>2. PICK i \in DOMAIN calls :
         \/ Read(i) \/ Clear(i) \/ SavePrimary(i) \/ SaveBackup(i) \/ PauseTruncates(i)
         \/ EndTruncates(i) \/ Settle(i) \/ EndFlushes(i)
  BY <1>1 DEF IO
<1>3. calls[i] \in Members(calls) /\ calls[i].data \in Data /\ Past(calls[i].data) /\ Clean(calls[i].data)
  <2>1. calls[i] \in Members(calls) /\ calls[i] \in CallRecords
    BY CallsAre
  <2> QED BY <2>1, Stage DEF AllPast, Cleanliness
<1>4. PICK w \in Data : w = calls[i].data /\ Past(w) /\ Clean(w)'
  <2>1. PICK w \in Data : w = calls[i].data
    BY <1>3
  <2> QED BY <1>1, <1>3, <2>1, CleanStays
<1>5. ASSUME NEW kind, kind = calls[i].kind, NEW op, NEW d \in Data, Clean(d)', Goes(i, kind, op, d)
      PROVE  \A c \in Members(calls') : c \in Members(calls) \/ Clean(c.data)'
  <2>1. \A c \in Members(calls') : c \in Members(calls) \/ c.data = d
    BY <1>5, GoesKeeps
  <2> QED BY <1>5, <2>1
<1>6. calls' = RemoveAt(calls, i) => Members(calls') \subseteq Members(calls)
  BY LeavesKeeps
<1>7. /\ mem.data \in Data /\ Past(mem.data) /\ CleanMem /\ mem \in Mems /\ now \in 1 .. MaxTime
      /\ mem.data.start \in Int /\ mem.data.saved \in Int
  <2>1. mem.data \in Data
    BY KeptAre
  <2> QED BY <2>1, FieldsAre, Constants DEF AllPast, Cleanliness, Typed
<1>8. CASE Read(i)
  <2>1. /\ mem' = mem /\ disk' = disk /\ calls[i].kind = "start" /\ Goes(i, "start", "clear", Stamped(Recovered(Loaded)))
    BY <1>8, ReadIs DEF InProcess
  <2>2. PICK d : d = Stamped(Recovered(Loaded))
    OBVIOUS
  <2>3. buffer = {} /\ ~beatDue /\ Journaled
    BY <2>1, InFlightMeans DEF Control, Session, Typed
  <2>4. Recovered(Loaded) \in Data /\ Clean(Recovered(Loaded)) /\ Past(Recovered(Loaded))
    BY <1>7, <2>3, CleanLoaded, CleanRecovered, PastLoaded, PastRecovered, RecoveredIs
  <2>5. d \in Data /\ Clean(d) /\ Past(d)
    BY <1>7, <2>2, <2>4, StampedIs, CleanStamped, PastStamped
  <2>6. Clean(d)'
    BY <1>1, <2>5, CleanStays
  <2>7. \A c \in Members(calls') : c \in Members(calls) \/ Clean(c.data)'
    BY <1>5, <2>1, <2>2, <2>5, <2>6
  <2> QED BY <1>1, <2>1, <2>7, CleanFrom
<1>9. CASE Clear(i)
  <2>1. mem' = mem /\ disk' = disk /\ calls[i].kind = "start" /\ Goes(i, "start", "primary", calls[i].data)
    BY <1>9, ClearIs DEF InProcess
  <2>2. \A c \in Members(calls') : c \in Members(calls) \/ Clean(c.data)'
    BY <1>4, <1>5, <2>1
  <2> QED BY <1>1, <2>1, <2>2, CleanFrom
<1>10. CASE SavePrimary(i) \/ SaveBackup(i)
  <2>1. /\ disk'.primary = disk.primary \/ disk'.primary = w
        /\ disk'.backup = disk.backup \/ disk'.backup = w
    <3>1. \/ disk' = [disk EXCEPT !.primary = calls[i].data]
          \/ disk' = [disk EXCEPT !.backup = calls[i].data]
          \/ disk' = disk
      BY <1>10, SavePrimaryIs, SaveBackupIs
    <3>2. disk \in [primary : Data, backup : Data]
      BY DEF Typed
    <3> QED BY <1>3, <1>4, <3>1, <3>2, DiskIs
  <2>2. disk'.primary = disk.primary \/ Clean(disk.primary)'
    BY <1>4, <2>1 DEF Clean, Once
  <2>3. disk'.backup = disk.backup \/ Clean(disk.backup)'
    BY <1>4, <2>1 DEF Clean, Once
  <2>4. \/ mem' = mem /\ Goes(i, calls[i].kind, "backup", calls[i].data)
        \/ mem' = mem /\ calls[i].kind = "end" /\ Goes(i, "end", "truncate", calls[i].data)
        \/ calls[i].kind = "start" /\ Starts(i)
        \/ mem' = mem /\ calls' = RemoveAt(calls, i)
    BY <1>10, SavePrimaryIs, SaveBackupIs DEF InProcess, Returns
  <2>5. CASE mem' = mem /\ Goes(i, calls[i].kind, "backup", calls[i].data)
    <3>1. \A c \in Members(calls') : c \in Members(calls) \/ Clean(c.data)'
      BY <1>4, <1>5, <2>5
    <3> QED BY <1>1, <2>2, <2>3, <2>5, <3>1, CleanFrom
  <2>6. CASE mem' = mem /\ calls[i].kind = "end" /\ Goes(i, "end", "truncate", calls[i].data)
    <3>1. \A c \in Members(calls') : c \in Members(calls) \/ Clean(c.data)'
      BY <1>4, <1>5, <2>6
    <3> QED BY <1>1, <2>2, <2>3, <2>6, <3>1, CleanFrom
  <2>7. CASE calls[i].kind = "start" /\ Starts(i)
    <3>1. /\ calls' = RemoveAt(calls, i) /\ mem'.running = TRUE
          /\ mem'.data.total = w.total /\ mem'.data.start = now /\ mem'.data.watermark = w.watermark
      BY <1>4, <2>7 DEF Starts
    <3>2. \A t \in 1 .. MaxTime : w.total[t] > 0 => t <= now
      BY <1>4, PastTicks
    <3>3. CleanMem'
      BY <1>4, <3>1, <3>2 DEF CleanMem, Clean, Once
    <3> QED BY <1>1, <1>6, <2>2, <2>3, <3>1, <3>3, CleanFrom
  <2>8. CASE mem' = mem /\ calls' = RemoveAt(calls, i)
    BY <1>1, <1>6, <2>2, <2>3, <2>8, CleanFrom
  <2> QED BY <2>4, <2>5, <2>6, <2>7, <2>8
<1>11. CASE PauseTruncates(i)
  <2>1. /\ mem' = mem /\ disk' = disk /\ calls[i].kind = "pause" /\ Head(calls[i].todo) = "truncate" /\ buffer' = {}
        /\ \/ Emptied /\ Goes(i, "pause", "primary", Stamped(mem.data))
           \/ calls' = RemoveAt(calls, i)
    BY <1>11, PauseTruncatesIs DEF InProcess
  <2>2. CASE calls' = RemoveAt(calls, i)
    BY <1>1, <1>6, <2>1, <2>2, CleanFrom
  <2>3. CASE Emptied /\ Goes(i, "pause", "primary", Stamped(mem.data))
    <3>1. PICK d : d = Stamped(mem.data)
      OBVIOUS
    <3>2. d \in Data /\ d.total = mem.data.total /\ d.start = mem.data.start
      BY <1>7, <3>1, StampedIs
    <3>3. mem.data.start = 0
      BY <2>1, InFlightMeans DEF InPlace, Control, Session
    <3>4. Slices' = {}
      BY <2>1, <2>3, EmptiedIs
    <3>5. Clean(d)'
      BY <1>0, <1>7, <3>2, <3>3, <3>4 DEF Clean, Once, CleanMem
    <3>6. \A c \in Members(calls') : c \in Members(calls) \/ Clean(c.data)'
      BY <1>5, <2>1, <2>3, <3>1, <3>2, <3>5
    <3> QED BY <1>1, <2>1, <3>6, CleanFrom
  <2> QED BY <2>1, <2>2, <2>3
<1>12. CASE EndTruncates(i)
  <2>1. /\ disk' = disk /\ calls' = RemoveAt(calls, i)
        /\ \/ mem' = mem
           \/ /\ mem'.data.total = mem.data.total /\ mem'.data.saved = mem.data.saved
              /\ mem'.running = mem.running /\ mem'.active = mem.active
    BY <1>12, EndTruncatesIs
  <2>2. ~mem.active
    <3>1. calls[i].kind = "end" /\ Head(calls[i].todo) = "truncate"
      BY <1>12, EndTruncatesIs
    <3> QED BY <3>1, InFlightMeans DEF InPlace
  <2>3. mem' = mem \/ CleanMem'
    BY <1>0, <1>7, <2>1, <2>2 DEF CleanMem, Once
  <2> QED BY <1>1, <1>6, <2>1, <2>3, CleanFrom
<1>13. CASE Settle(i)
  <2>1. /\ mem' = mem /\ disk' = disk /\ calls[i].kind = "end"
        /\ Goes(i, "end", "flush", calls[i].data) \/ calls' = RemoveAt(calls, i)
    BY <1>13, SettleIs
  <2>2. \A c \in Members(calls') : c \in Members(calls) \/ Clean(c.data)'
    BY <1>4, <1>5, <1>6, <2>1
  <2> QED BY <1>1, <2>1, <2>2, CleanFrom
<1>14. CASE EndFlushes(i)
  <2>1. /\ disk' = disk /\ calls[i].kind = "end"
        /\ \/ /\ mem'.data = Halted(mem.data) /\ mem'.running = FALSE /\ mem'.active = FALSE
              /\ Goes(i, "end", "primary", Stamped(EndData))
           \/ mem' = mem /\ calls' = RemoveAt(calls, i)
    BY <1>1, <1>14, EndFlushesIs
  <2>2. CASE mem' = mem /\ calls' = RemoveAt(calls, i)
    BY <1>1, <1>6, <2>1, <2>2, CleanFrom
  <2>3. CASE /\ mem'.data = Halted(mem.data) /\ mem'.running = FALSE /\ mem'.active = FALSE
             /\ Goes(i, "end", "primary", Stamped(EndData))
    <3>1. PICK h, e, d : h = Halted(mem.data) /\ e = EndData /\ d = Stamped(EndData)
      OBVIOUS
    <3>2. /\ e \in Data /\ e.total = h.total /\ e.start = h.start /\ e.saved = h.saved
          /\ e.watermark = IF e.saved > 0 THEN e.saved ELSE now
      BY <1>7, <3>1, EndDataIs
    <3>3. h.start = 0 /\ Once(h) /\ h.saved \in Int /\ \A t \in 1 .. MaxTime : h.total[t] > 0 => t <= h.saved
      <4>1. CASE mem.running
        <5>1. h.total = Add(mem.data.total, Span(mem.data.start, now)) /\ h.start = 0 /\ h.saved = now
          BY <1>7, <3>1, <4>1, HaltedIs
        <5>2. mem.data.start > 0 /\ mem.data.start <= now /\ Clean(mem.data) /\ now \in Int
          BY <1>7, <4>1, TimesAre DEF Control, Session, CleanMem
        <5>3. /\ \A t \in 1 .. MaxTime : t \notin rewritten => h.total[t] <= 1
              /\ \A t \in 1 .. MaxTime : h.total[t] > 0 => t <= mem.data.start \/ t <= now
          BY <1>7, <5>1, <5>2, CleanAdded
        <5>4. \A t \in 1 .. MaxTime : t <= mem.data.start => t <= now
          BY <1>7, <5>2, TimesAre
        <5> QED BY <5>1, <5>2, <5>3, <5>4 DEF Once
      <4>2. CASE ~mem.running
        <5>1. h = mem.data /\ mem.data.start = 0
          BY <1>7, <3>1, <4>2, HaltedIs DEF Control, Session
        <5> QED BY <1>7, <4>2, <5>1 DEF CleanMem
      <4> QED BY <4>1, <4>2
    <3>4. \A t \in 1 .. MaxTime : h.total[t] > 0 => t <= e.watermark
      <4>1. \A t \in 1 .. MaxTime : t <= h.saved => h.saved > 0
        BY <3>3, TimesAre
      <4> QED BY <3>2, <3>3, <4>1
    <3>5. d.total = h.total /\ d.start = 0 /\ d.watermark = e.watermark /\ d \in Data
      BY <1>7, <3>1, <3>2, <3>3, StampedIs
    <3>6. Clean(d)'
      BY <1>0, <3>3, <3>4, <3>5 DEF Clean, Once
    <3>7. \A c \in Members(calls') : c \in Members(calls) \/ Clean(c.data)'
      BY <1>5, <2>1, <2>3, <3>1, <3>5, <3>6
    <3>8. CleanMem'
      BY <1>0, <2>3, <3>1, <3>3 DEF CleanMem, Once
    <3> QED BY <1>1, <2>1, <3>7, <3>8, CleanFrom
  <2> QED BY <2>1, <2>2, <2>3
<1> QED BY <1>2, <1>8, <1>9, <1>10, <1>11, <1>12, <1>13, <1>14

\* What has happened has happened.
LEMMA IncidentsGrow ==
  ASSUME Typed, [Next]_vars
  PROVE  incidents \subseteq incidents'
<1>1. CASE IO
  <2>1. now' = now
    BY <1>1 DEF IO
  <2>2. PICK i \in DOMAIN calls :
           \/ Read(i) \/ Clear(i) \/ SavePrimary(i) \/ SaveBackup(i) \/ PauseTruncates(i)
           \/ EndTruncates(i) \/ Settle(i) \/ EndFlushes(i)
    BY <1>1 DEF IO
  <2>3. incidents' = incidents \/ \E op : Happens(op)
    BY <2>1, <2>2, ReadIs, ClearIs, SavePrimaryIs, SaveBackupIs, PauseTruncatesIs, EndTruncatesIs, SettleIs,
       EndFlushesIs
  <2> QED BY <2>3 DEF Happens
<1>2. CASE Start \/ Stop \/ Checkpoint \/ SaveNow \/ IdleResume \/ Heartbeat \/ AdvanceClock \/ Crash
           \/ UNCHANGED vars
  BY <1>2, StartIs, StopIs, IdleResumeIs, HeartbeatIs
     DEF Checkpoint, SaveNow, AdvanceClock, Crash, vars, counts, Happens
<1>3. CASE IdlePause
  BY <1>3, IdlePauseIs DEF Happens
<1>4. CASE Flush
  BY <1>4, FlushIs DEF Happens
<1> QED BY <1>1, <1>2, <1>3, <1>4 DEF Next

LEMMA CleanEmptyIssued ==
  ASSUME Typed, NEW kind, NEW op, Issues(kind, op, EmptyData)
  PROVE  \A c \in Members(calls') : c \in Members(calls) \/ Clean(c.data)'
<1>1. \A c \in Members(calls') : c \in Members(calls) \/ c.data = EmptyData
  BY IssuesKeeps
<1> QED BY <1>1, EmptyClean DEF Clean, Once

\* A save of what is in memory, or is there after the step.
LEMMA CleanSaveIssued ==
  ASSUME Typed, NEW d \in Data, Clean(d)', NEW kind, Issues(kind, "primary", Stamped(d))
  PROVE  \A c \in Members(calls') : c \in Members(calls) \/ Clean(c.data)'
<1>1. PICK e : e = Stamped(d)
  OBVIOUS
<1>2. e.total = d.total /\ e.start = d.start /\ e.watermark = d.watermark
  BY <1>1, StampedIs DEF Typed
<1>3. Clean(e)'
  BY <1>2 DEF Clean, Once
<1>4. \A c \in Members(calls') : c \in Members(calls) \/ c.data = e
  BY <1>1, IssuesKeeps
<1> QED BY <1>3, <1>4

\* A save of an active session.
LEMMA CleanSaved ==
  ASSUME Typed, Control, AllPast, Cleanliness, [Next]_vars, NEW kind, Issues(kind, "primary", Stamped(mem.data)),
         mem.active, UNCHANGED <<mem, storage>>
  PROVE  Cleanliness'
<1>1. PICK d \in Data : d = mem.data /\ Past(d) /\ Clean(d)
  <2>1. mem.data \in Data /\ Past(mem.data) /\ Clean(mem.data)
    BY KeptAre DEF AllPast, Cleanliness, CleanMem
  <2> QED BY <2>1
<1>2. Clean(d)'
  BY <1>1, CleanStays
<1>3. \A c \in Members(calls') : c \in Members(calls) \/ Clean(c.data)'
  BY <1>1, <1>2, CleanSaveIssued
<1>4. mem' = mem /\ disk' = disk
  BY DEF storage
<1> QED BY <1>3, <1>4, CleanFrom

\* A save of what is in memory after the step.
LEMMA CleanNewSave ==
  ASSUME Typed, Control, AllPast, Cleanliness, [Next]_vars, NEW kind, Issues(kind, "primary", Stamped(mem'.data)),
         mem' \in Mems, disk' = disk, Clean(mem.data)',
         mem'.running \/ \A t \in 1 .. MaxTime : mem'.data.total[t] > 0 => t <= mem'.data.saved
  PROVE  Cleanliness'
<1>1. mem'.data \in Data
  <2> HIDE DEF Data
  <2> QED BY DEF Mems
<1>2. PICK d \in Data : d = mem'.data
  BY <1>1
<1>3. Clean(d)'
  BY <1>2 DEF Clean, Once
<1>4. \A c \in Members(calls') : c \in Members(calls) \/ Clean(c.data)'
  BY <1>2, <1>3, CleanSaveIssued
<1>5. CleanMem'
  BY DEF CleanMem, Clean
<1> QED BY <1>4, <1>5, CleanFrom

LEMMA CleanIdlePause ==
  ASSUME Typed, Control, AllPast, Cleanliness, IdlePause, Without({"earlyPause", "lateSave"})'
  PROVE  Cleanliness'
<1>0. [Next]_vars
  BY DEF Next
<1>1. /\ UNCHANGED <<now, lastTick, beatDue, buffer, file, openLine, rewritten, disk>>
      /\ \E idleStart \in 1 .. lastTick :
           /\ mem.data.start <= idleStart /\ mem.data.watermark <= idleStart
           /\ \/ /\ mem.active /\ Issues("pause", "truncate", EmptyData)
                 /\ mem' \in Mems /\ mem'.active = mem.active /\ mem'.running = FALSE
                 /\ mem'.data.watermark = idleStart
                 /\ mem.running =>
                      /\ mem'.data.total = Add(mem.data.total, Span(mem.data.start, CutAt(idleStart)))
                      /\ mem'.data.start = 0 /\ mem'.data.saved = CutAt(idleStart)
                 /\ ~mem.running =>
                      /\ mem'.data.total = mem.data.total /\ mem'.data.start = mem.data.start
                      /\ mem'.data.saved = mem.data.saved
              \/ UNCHANGED <<mem, calls>>
  BY IdlePauseIs DEF Happens, Without
<1>2. CASE UNCHANGED <<mem, calls>>
  BY <1>0, <1>1, <1>2, CleanFrom
<1>3. CASE ~ UNCHANGED <<mem, calls>>
  <2>1. PICK idleStart \in 1 .. lastTick :
           /\ mem.data.start <= idleStart /\ mem.data.watermark <= idleStart
           /\ mem.active /\ Issues("pause", "truncate", EmptyData)
           /\ mem' \in Mems /\ mem'.active = mem.active /\ mem'.running = FALSE
           /\ mem'.data.watermark = idleStart
           /\ mem.running =>
                /\ mem'.data.total = Add(mem.data.total, Span(mem.data.start, CutAt(idleStart)))
                /\ mem'.data.start = 0 /\ mem'.data.saved = CutAt(idleStart)
           /\ ~mem.running =>
                /\ mem'.data.total = mem.data.total /\ mem'.data.start = mem.data.start
                /\ mem'.data.saved = mem.data.saved
    BY <1>1, <1>3
  <2>2. /\ mem.data \in Data /\ Clean(mem.data) /\ CleanMem
        /\ mem.data.start \in Int /\ mem.data.watermark \in Int /\ idleStart \in Int
    <3>1. mem.data \in Data /\ Clean(mem.data) /\ CleanMem
      BY <2>1, KeptAre DEF Cleanliness, CleanMem
    <3>2. idleStart \in Int
      BY TimesAre
    <3> QED BY <3>1, <3>2, FieldsAre, Constants
  <2>3. CutAt(idleStart) = idleStart
    BY <2>1, <2>2 DEF CutAt
  <2>4. Slices' = Slices /\ rewritten' = rewritten
    BY <1>1, FileStays DEF Slices, Filed
  <2>5. CASE mem.running
    <3>1. mem.data.start > 0
      BY <2>2, <2>5 DEF Control, Session
    <3>2. /\ \A t \in 1 .. MaxTime : t \notin rewritten => mem'.data.total[t] <= 1
          /\ \A t \in 1 .. MaxTime : mem'.data.total[t] > 0 => t <= mem.data.start \/ t <= idleStart
      BY <2>1, <2>2, <2>3, <2>5, <3>1, CleanAdded
    <3>3. \A t \in 1 .. MaxTime : t <= mem.data.start => t <= idleStart
      BY <2>1, <2>2, TimesAre
    <3>4. \A t \in 1 .. MaxTime : mem'.data.total[t] > 0 => t <= idleStart
      BY <3>2, <3>3
    <3>5. CleanMem'
      BY <2>1, <2>3, <2>4, <2>5, <3>2, <3>4 DEF CleanMem, Clean, Once
    <3> QED BY <1>0, <1>1, <2>1, <3>5, CleanEmptyIssued, CleanFrom
  <2>6. CASE ~mem.running
    <3>1. mem.data.start = 0
      BY <2>6 DEF Control, Session
    <3>2. \A t \in 1 .. MaxTime : t <= mem.data.watermark => t <= idleStart
      BY <2>1, <2>2, TimesAre
    <3>3. CleanMem'
      BY <2>1, <2>2, <2>4, <2>6, <3>1, <3>2 DEF CleanMem, Clean, Once
    <3> QED BY <1>0, <1>1, <2>1, <3>3, CleanEmptyIssued, CleanFrom
  <2> QED BY <2>5, <2>6
<1> QED BY <1>2, <1>3

LEMMA CleanHeartbeat ==
  ASSUME Typed, Control, AllPast, Cleanliness, Heartbeat
  PROVE  Cleanliness'
<1>0. [Next]_vars
  BY DEF Next
<1>1. /\ disk' = disk /\ beatDue = TRUE /\ rewritten' = rewritten
      /\ \/ Moves(lastTick, now) /\ Issues("wake", "primary", Stamped(mem'.data))
         \/ \E at \in 1 .. now :
              lastTick < at /\ Moves(at, at) /\ Issues("rotate", "primary", Stamped(mem'.data))
         \/ UNCHANGED <<mem, calls>>
  BY HeartbeatIs
<1>2. now \in Int /\ lastTick \in Int /\ lastTick <= now
  BY TimesAre
<1>3. ASSUME NEW end \in Int, NEW at \in Int, end <= at, lastTick <= at, Moves(end, at), NEW kind,
             Issues(kind, "primary", Stamped(mem'.data))
      PROVE  Cleanliness'
  <2>1. /\ mem' \in Mems /\ mem'.running = mem.running /\ mem'.data.watermark = at /\ mem.active
        /\ mem.running => /\ mem'.data.total = Add(mem.data.total, Span(mem.data.start, end))
                          /\ mem'.data.start = at /\ mem'.data.saved = at
        /\ ~mem.running => /\ mem'.data.total = mem.data.total /\ mem'.data.start = mem.data.start
                           /\ mem'.data.saved = mem.data.saved
    BY <1>3 DEF Moves
  <2>2. mem.data \in Data /\ Clean(mem.data) /\ CleanMem /\ Past(mem.data)
    BY <2>1, KeptAre DEF Cleanliness, CleanMem, AllPast
  <2>3. mem.data.start \in Int
    BY <2>2, FieldsAre, Constants
  \* What is counted already comes before the last heartbeat.
  <2>4. \A t \in 1 .. MaxTime : mem.data.total[t] > 0 => t <= at
    <3>1. Reach = lastTick
      BY <1>1 DEF Reach
    <3>2. \A t \in 1 .. MaxTime : mem.data.total[t] > 0 => t <= lastTick
      BY <2>2, <3>1, PastTicks
    <3>3. \A t \in 1 .. MaxTime : t <= lastTick => t <= at
      BY <1>2, <1>3
    <3> QED BY <3>2, <3>3
  <2>5. CASE mem.running
    <3>1. mem.data.start > 0
      BY <2>3, <2>5 DEF Control, Session
    <3>2. /\ \A t \in 1 .. MaxTime : t \notin rewritten => mem'.data.total[t] <= 1
          /\ \A t \in 1 .. MaxTime : mem'.data.total[t] > 0 => mem.data.total[t] > 0 \/ t <= end
      BY <1>3, <2>1, <2>2, <2>5, <3>1, CleanAdded
    <3>3. \A t \in 1 .. MaxTime : t <= end => t <= at
      BY <1>3
    <3>4. \A t \in 1 .. MaxTime : mem'.data.total[t] > 0 => t <= at
      BY <2>4, <3>2, <3>3
    <3>5. Clean(mem.data)'
      BY <1>1, <2>1, <2>5, <3>2, <3>4 DEF Clean, Once
    <3> QED BY <1>0, <1>1, <1>3, <2>1, <2>5, <3>5, CleanNewSave
  <2>6. CASE ~mem.running
    <3>1. mem.data.start = 0
      BY <2>6 DEF Control, Session
    <3>2. Clean(mem.data)'
      BY <1>1, <2>1, <2>2, <2>4, <2>6, <3>1 DEF Clean, Once
    <3>3. \A t \in 1 .. MaxTime : mem'.data.total[t] > 0 => t <= mem'.data.saved
      BY <2>1, <2>2, <2>6 DEF CleanMem
    <3> QED BY <1>0, <1>1, <1>3, <2>1, <3>2, <3>3, CleanNewSave
  <2> QED BY <2>5, <2>6
<1>4. CASE UNCHANGED <<mem, calls>>
  BY <1>0, <1>1, <1>4, CleanFrom
<1>5. CASE Moves(lastTick, now) /\ Issues("wake", "primary", Stamped(mem'.data))
  BY <1>2, <1>3, <1>5
<1>6. CASE \E at \in 1 .. now :
             lastTick < at /\ Moves(at, at) /\ Issues("rotate", "primary", Stamped(mem'.data))
  <2>1. PICK at \in 1 .. now :
           lastTick < at /\ Moves(at, at) /\ Issues("rotate", "primary", Stamped(mem'.data))
    BY <1>6
  <2>2. at \in Int /\ lastTick <= at /\ at <= at
    BY <1>2, <2>1
  <2> QED BY <1>3, <2>1, <2>2
<1> QED BY <1>1, <1>4, <1>5, <1>6

LEMMA CleanNext ==
  ASSUME Typed, Control, Filing, AllPast, AllClean, [Next]_vars
  PROVE  AllClean'
<1> SUFFICES ASSUME Without({"earlyPause", "lateSave"})'  PROVE Cleanliness'
  BY DEF AllClean
<1>1. Cleanliness
  BY IncidentsGrow DEF AllClean, Without
<1>2. CASE IO
  BY <1>1, <1>2, CleanIO
<1>3. CASE Start
  <2>1. mem' = mem /\ disk' = disk /\ Issues("start", "read", EmptyData)
    BY <1>3, StartIs
  <2> QED BY <1>1, <2>1, CleanEmptyIssued, CleanFrom
<1>4. CASE Stop
  <2>1. mem' = mem /\ disk' = disk /\ Issues("end", "settle", EmptyData)
    BY <1>4, StopIs
  <2> QED BY <1>1, <2>1, CleanEmptyIssued, CleanFrom
<1>5. CASE Checkpoint
  <2>1. Issues("checkpoint", "primary", Stamped(mem.data)) /\ UNCHANGED <<mem, storage>> /\ mem.active
    BY <1>5, SaveIssued DEF Checkpoint, Control, Session
  <2> QED BY <1>1, <2>1, CleanSaved
<1>6. CASE SaveNow
  <2>1. Issues("save", "primary", Stamped(mem.data)) /\ UNCHANGED <<mem, storage>>
    BY <1>6, SaveIssued DEF SaveNow
  <2>2. mem.active
    BY <1>6 DEF SaveNow, Happens, Without
  <2> QED BY <1>1, <2>1, <2>2, CleanSaved
<1>7. CASE Flush \/ AdvanceClock \/ UNCHANGED vars
  <2>1. mem' = mem /\ disk' = disk /\ calls' = calls
    BY <1>7, FlushIs DEF AdvanceClock, vars, storage
  <2> QED BY <1>1, <2>1, CleanFrom
<1>8. CASE IdlePause
  BY <1>1, <1>8, CleanIdlePause
<1>9. CASE IdleResume
  <2>1. /\ UNCHANGED <<now, buffer, file, rewritten, disk>>
        /\ \/ /\ Issues("resume", "primary", Stamped(mem'.data)) /\ mem' \in Mems /\ mem'.running = TRUE
              /\ mem.active
              /\ mem'.data.total = mem.data.total /\ mem'.data.start = now /\ mem'.data.watermark = now
           \/ UNCHANGED <<mem, calls>>
    BY <1>9, IdleResumeIs
  <2>2. CASE UNCHANGED <<mem, calls>>
    BY <1>1, <2>1, <2>2, CleanFrom
  <2>3. CASE /\ Issues("resume", "primary", Stamped(mem'.data)) /\ mem' \in Mems /\ mem'.running = TRUE
             /\ mem.active
             /\ mem'.data.total = mem.data.total /\ mem'.data.start = now /\ mem'.data.watermark = now
    <3>1. mem.data \in Data /\ Past(mem.data) /\ Clean(mem.data)
      BY <1>1, <2>3, KeptAre DEF AllPast, Cleanliness, CleanMem
    <3>2. \A t \in 1 .. MaxTime : mem.data.total[t] > 0 => t <= now
      BY <3>1, PastTicks
    <3>3. Clean(mem.data)'
      BY <2>1, <2>3, <3>1, <3>2 DEF Clean, Once
    <3> QED BY <1>1, <2>1, <2>3, <3>3, CleanNewSave
  <2> QED BY <2>1, <2>2, <2>3
<1>10. CASE Heartbeat
  BY <1>1, <1>10, CleanHeartbeat
<1>11. CASE Crash
  <2>1. mem' = NewMem /\ calls' = <<>> /\ disk' = disk
    BY <1>11 DEF Crash
  <2>2. mem'.data = EmptyData
    BY <2>1, MemIs DEF Typed
  <2>3. CleanMem'
    BY <2>2, EmptyClean DEF CleanMem, Clean, Once
  <2>4. Members(calls') = {}
    BY <2>1, NoCalls
  <2> QED BY <1>1, <2>1, <2>3, <2>4, CleanFrom
<1> QED BY <1>2, <1>3, <1>4, <1>5, <1>6, <1>7, <1>8, <1>9, <1>10, <1>11 DEF Next

LEMMA CleanInit ==
  ASSUME Init
  PROVE  AllClean
<1>1. mem = NewMem /\ disk = [primary |-> Missing, backup |-> Missing] /\ calls = <<>>
  BY DEF Init
<1>2. mem.data = EmptyData /\ disk.primary = Missing /\ disk.backup = Missing
  BY <1>1 DEF NewMem
<1>3. CleanMem
  BY <1>2, EmptyClean DEF CleanMem, Clean, Once
<1>4. Members(calls) = {}
  BY <1>1, NoCalls
<1> QED BY <1>2, <1>3, <1>4, EmptyClean DEF AllClean, Cleanliness

\* Neither this process nor the next one counts a tick twice.
LEMMA CleanCounts ==
  ASSUME Typed, Control, Filing, AllClean
  PROVE  NoDoubleCounting
<1> SUFFICES ASSUME Without({"earlyPause", "lateSave"})
             PROVE  Repeated(Counted) \union Repeated(Restored) \subseteq rewritten
  BY DEF NoDoubleCounting
<1>1. Cleanliness
  BY DEF AllClean
<1>2. /\ Restored \in Totals
      /\ \A t \in 1 .. MaxTime : t \notin rewritten => Restored[t] <= 1
  <2>1. Loaded \in Data /\ Clean(Loaded)
    BY <1>1, CleanLoaded
  <2>2. Once(Recovered(Loaded))
    BY <2>1, CleanRecovered
  <2>3. Recovered(Loaded) \in Data
    BY <2>1, RecoveredIs DEF Typed
  <2>4. Recovered(Loaded).total \in Totals
    BY <2>3, FieldsAre
  <2> QED BY <2>2, <2>4 DEF Restored, Once
<1>3. /\ Counted \in Totals
      /\ \A t \in 1 .. MaxTime : t \notin rewritten => Counted[t] <= 1
  <2>1. mem.data \in Data /\ CleanMem /\ now \in Int /\ mem.data.total \in Totals
    <3>1. mem.data \in Data
      BY KeptAre
    <3> QED BY <1>1, <3>1, FieldsAre, TimesAre DEF Cleanliness
  <2>2. CASE mem.running
    <3>1. mem.data.start > 0 /\ Clean(mem.data)
      <4>1. mem.data.start \in Int
        BY <2>1, FieldsAre, Constants
      <4> QED BY <2>1, <2>2, <4>1 DEF Control, Session, CleanMem
    <3>2. Counted = Add(mem.data.total, Span(mem.data.start, now))
      BY <2>2 DEF Counted
    <3>3. Add(mem.data.total, Span(mem.data.start, now)) \in Totals
      BY <2>1, AddIs
    <3> QED BY <2>1, <3>1, <3>2, <3>3, CleanAdded
  <2>3. CASE ~mem.running
    BY <2>1, <2>3 DEF Counted, CleanMem, Once
  <2> QED BY <2>2, <2>3
<1>4. \A total \in Totals : Repeated(total) = {t \in 1 .. MaxTime : ~(total[t] <= 1)}
  BY DEF Repeated, Totals
<1> QED BY <1>2, <1>3, <1>4

-----------------------------------------------------------------------------
(* The saves in flight: which of them the next process may have to start with. *)

Primary(c) == Head(c.todo) = "primary"

\* Whether a save of a kind is behind the i-th call.
Followed(q, i, kind) == \E j \in DOMAIN q : j > i /\ q[j].kind = kind /\ Primary(q[j])

\* What is stored, now or at the end of a save in flight, unless there is a save of
\* the kind behind it.
Line(q, stored, kind, S) ==
  /\ \A i \in DOMAIN q : Primary(q[i]) /\ ~Followed(q, i, kind) => q[i].data \in S
  /\ ~Followed(q, 0, kind) => stored \in S

LEMMA LineWider ==
  ASSUME NEW q, NEW stored, NEW kind, NEW S, NEW T, Line(q, stored, kind, S), S \subseteq T
  PROVE  Line(q, stored, kind, T)
  BY DEF Line

LEMMA LineEmpty ==
  ASSUME NEW q, q = <<>>, NEW stored, NEW kind, NEW S
  PROVE  /\ stored \in S => Line(q, stored, kind, S)
         /\ Line(q, stored, kind, S) => stored \in S
<1>1. DOMAIN q = {}
  OBVIOUS
<1>2. ~Followed(q, 0, kind)
  BY <1>1 DEF Followed
<1> QED BY <1>1, <1>2 DEF Line

\* A save of what may be stored is issued.
LEMMA LineWith ==
  ASSUME NEW q \in Seq(CallRecords), NEW c \in CallRecords, NEW stored, NEW kind, NEW S,
         Line(q, stored, kind, S), Primary(c) => c.data \in S
  PROVE  Line(Append(q, c), stored, kind, S)
<1> DEFINE r == Append(q, c)
<1>1. /\ \A k \in DOMAIN q : k \in DOMAIN r /\ r[k] = q[k]
      /\ r[Len(q) + 1] = c /\ DOMAIN r = DOMAIN q \union {Len(q) + 1}
  BY IssuedIs
<1> HIDE DEF r
<1>2. \A i : Followed(q, i, kind) => Followed(r, i, kind)
  BY <1>1 DEF Followed
<1>3. ASSUME NEW i \in DOMAIN r, Primary(r[i]), ~Followed(r, i, kind)  PROVE r[i].data \in S
  <2>1. CASE i \in DOMAIN q
    BY <1>1, <1>2, <1>3, <2>1 DEF Line
  <2>2. CASE i = Len(q) + 1
    BY <1>1, <1>3, <2>2
  <2> QED BY <1>1, <2>1, <2>2
<1>4. ~Followed(r, 0, kind) => stored \in S
  BY <1>2 DEF Line
<1> QED BY <1>3, <1>4 DEF Line, r

\* Behind a save of the kind nothing else counts.
LEMMA LineFrom ==
  ASSUME NEW q \in Seq(CallRecords), NEW c \in CallRecords, NEW stored, NEW kind, NEW S,
         c.kind = kind, Primary(c), c.data \in S
  PROVE  Line(Append(q, c), stored, kind, S)
<1> DEFINE r == Append(q, c)
<1>1. /\ r[Len(q) + 1] = c /\ DOMAIN r = DOMAIN q \union {Len(q) + 1}
      /\ \A k \in DOMAIN q : k \in Nat /\ k < Len(q) + 1
  BY IssuedIs
<1> HIDE DEF r
<1>2. Len(q) + 1 > 0
  OBVIOUS
<1>3. Followed(r, 0, kind)
  BY <1>1, <1>2 DEF Followed
<1>4. \A i \in DOMAIN q : Followed(r, i, kind)
  <2> TAKE i \in DOMAIN q
  <2>1. Len(q) + 1 > i
    BY <1>1
  <2> QED BY <1>1, <2>1 DEF Followed
<1> QED BY <1>1, <1>3, <1>4 DEF Line, r

LEMMA PlaceGrows ==
  ASSUME NEW i \in Int, NEW k \in Int, NEW l \in Int
  PROVE  Place(i, k) < Place(i, l) => k < l
  BY DEF Place

\* What is behind a call stays behind it, and is it only what was.
LEMMA FollowedRest ==
  ASSUME NEW q \in Seq(CallRecords), NEW i \in DOMAIN q, NEW kind
  PROVE  /\ \A k \in DOMAIN RemoveAt(q, i) :
              (\E j \in DOMAIN q \ {i} : j > Place(i, k) /\ q[j].kind = kind /\ Primary(q[j]))
                => Followed(RemoveAt(q, i), k, kind)
         /\ (\E j \in DOMAIN q \ {i} : q[j].kind = kind /\ Primary(q[j])) => Followed(RemoveAt(q, i), 0, kind)
<1> DEFINE r == RemoveAt(q, i)
<1>1. /\ r \in Seq(CallRecords)
      /\ \A k \in DOMAIN r : Place(i, k) \in DOMAIN q \ {i} /\ r[k] = q[Place(i, k)]
      /\ \A j \in DOMAIN q \ {i} : \E k \in DOMAIN r : Place(i, k) = j
  BY RemovedIs
<1> HIDE DEF r
<1>2. i \in Int /\ \A k \in DOMAIN r : k \in Int /\ k > 0
  BY <1>1
<1>3. ASSUME NEW k \in DOMAIN r, NEW j \in DOMAIN q \ {i}, j > Place(i, k), q[j].kind = kind, Primary(q[j])
      PROVE  Followed(r, k, kind)
  <2>1. PICK l \in DOMAIN r : Place(i, l) = j
    BY <1>1
  <2>2. Place(i, k) < Place(i, l)
    <3>1. Place(i, k) \in Int /\ j \in Int
      BY <1>2 DEF Place
    <3> QED BY <1>3, <2>1, <3>1
  <2>3. l > k
    BY <1>2, <2>2, PlaceGrows
  <2>4. r[l] = q[j]
    BY <1>1, <2>1
  <2> QED BY <1>3, <2>3, <2>4 DEF Followed
<1>4. ASSUME NEW j \in DOMAIN q \ {i}, q[j].kind = kind, Primary(q[j])
      PROVE  Followed(r, 0, kind)
  <2>1. PICK l \in DOMAIN r : Place(i, l) = j
    BY <1>1
  <2>2. r[l] = q[j] /\ l > 0
    BY <1>1, <1>2, <2>1
  <2> QED BY <1>4, <2>2 DEF Followed
<1> QED BY <1>3, <1>4 DEF r

\* A call that is not at its save leaves.
LEMMA LineRest ==
  ASSUME NEW q \in Seq(CallRecords), NEW i \in DOMAIN q, ~Primary(q[i]), NEW stored, NEW kind, NEW S,
         Line(q, stored, kind, S)
  PROVE  Line(RemoveAt(q, i), stored, kind, S)
<1>1. \A k \in DOMAIN RemoveAt(q, i) : Place(i, k) \in DOMAIN q \ {i} /\ RemoveAt(q, i)[k] = q[Place(i, k)]
  BY RemovedIs
<1>2. ASSUME NEW k \in DOMAIN RemoveAt(q, i), Primary(RemoveAt(q, i)[k]), ~Followed(RemoveAt(q, i), k, kind)
      PROVE  RemoveAt(q, i)[k].data \in S
  <2>1. Followed(q, Place(i, k), kind) =>
           \E j \in DOMAIN q \ {i} : j > Place(i, k) /\ q[j].kind = kind /\ Primary(q[j])
    BY DEF Followed
  <2>2. ~Followed(q, Place(i, k), kind)
    BY <1>2, <2>1, FollowedRest
  <2> QED BY <1>1, <1>2, <2>2 DEF Line
<1>3. ~Followed(RemoveAt(q, i), 0, kind) => stored \in S
  <2>1. Followed(q, 0, kind) => \E j \in DOMAIN q \ {i} : q[j].kind = kind /\ Primary(q[j])
    BY DEF Followed
  <2>2. ~Followed(RemoveAt(q, i), 0, kind) => ~Followed(q, 0, kind)
    BY <2>1, FollowedRest
  <2> QED BY <2>2 DEF Line
<1> QED BY <1>2, <1>3 DEF Line

\* The first save in the line is served.
LEMMA LineServed ==
  ASSUME NEW q \in Seq(CallRecords), NEW i \in DOMAIN q, Primary(q[i]), \A j \in 1 .. i - 1 : ~Primary(q[j]),
         NEW stored, NEW kind, NEW S, Line(q, stored, kind, S)
  PROVE  Line(RemoveAt(q, i), q[i].data, kind, S)
<1>1. \A k \in DOMAIN RemoveAt(q, i) : Place(i, k) \in DOMAIN q \ {i} /\ RemoveAt(q, i)[k] = q[Place(i, k)]
  BY RemovedIs
<1>2. \A j \in DOMAIN q : j \in Int /\ j >= 1 /\ (Primary(q[j]) => j >= i)
  OBVIOUS
<1>3. ASSUME NEW k \in DOMAIN RemoveAt(q, i), Primary(RemoveAt(q, i)[k]), ~Followed(RemoveAt(q, i), k, kind)
      PROVE  RemoveAt(q, i)[k].data \in S
  <2>1. Place(i, k) \in DOMAIN q /\ Primary(q[Place(i, k)]) /\ Place(i, k) >= i
    BY <1>1, <1>2, <1>3
  <2>2. \A j \in DOMAIN q : j > Place(i, k) => j # i
    BY <1>2, <2>1
  <2>3. Followed(q, Place(i, k), kind) =>
           \E j \in DOMAIN q \ {i} : j > Place(i, k) /\ q[j].kind = kind /\ Primary(q[j])
    BY <2>2 DEF Followed
  <2>4. ~Followed(q, Place(i, k), kind)
    BY <1>3, <2>3, FollowedRest
  <2> QED BY <1>1, <1>3, <2>1, <2>4 DEF Line
<1>4. ~Followed(RemoveAt(q, i), 0, kind) => q[i].data \in S
  <2>1. \A j \in DOMAIN q : j > i => j # i
    BY <1>2
  <2>2. Followed(q, i, kind) => \E j \in DOMAIN q \ {i} : q[j].kind = kind /\ Primary(q[j])
    BY <2>1 DEF Followed
  <2>3. ~Followed(RemoveAt(q, i), 0, kind) => ~Followed(q, i, kind)
    BY <2>2, FollowedRest
  <2> QED BY <2>3 DEF Line
<1> QED BY <1>3, <1>4 DEF Line

\* A call that goes on is all that is new.
LEMMA GoesOnly ==
  ASSUME Typed, NEW i \in DOMAIN calls, NEW op, NEW d, Goes(i, calls[i].kind, op, d)
  PROVE  /\ \A c \in Members(calls') : c \in Members(calls) \/ c.data = d
         /\ \A c \in Members(calls') : c \in Members(calls) \/ Head(c.todo) = op
<1>1. PICK e \in CallRecords : calls' = Append(RemoveAt(calls, i), e) /\ Head(e.todo) = op /\ e.data = d
  BY DEF Goes
<1>2. RemoveAt(calls, i) \in Seq(CallRecords) /\ Members(RemoveAt(calls, i)) \subseteq Members(calls)
  BY RemovedIs, MembersOfRest DEF Typed
<1>3. Members(calls') = Members(RemoveAt(calls, i)) \union {e}
  BY <1>1, <1>2, MembersWith
<1> QED BY <1>1, <1>2, <1>3

LEMMA LineGoes ==
  ASSUME Typed, NEW i \in DOMAIN calls, ~Primary(calls[i]), NEW kind, NEW op, NEW d, Goes(i, kind, op, d),
         NEW stored, NEW last, NEW S, Line(calls, stored, last, S), op = "primary" => d \in S
  PROVE  Line(calls', stored, last, S)
<1>1. PICK c \in CallRecords :
         calls' = Append(RemoveAt(calls, i), c) /\ c.kind = kind /\ Head(c.todo) = op /\ c.data = d
  BY DEF Goes
<1>2. calls \in Seq(CallRecords) /\ RemoveAt(calls, i) \in Seq(CallRecords)
  BY RemovedIs DEF Typed
<1>3. Line(RemoveAt(calls, i), stored, last, S)
  BY <1>2, LineRest
<1>4. Primary(c) => c.data \in S
  BY <1>1 DEF Primary
<1> QED BY <1>1, <1>2, <1>3, <1>4, LineWith

LEMMA LineGoesFrom ==
  ASSUME Typed, NEW i \in DOMAIN calls, NEW kind, NEW d, Goes(i, kind, "primary", d), NEW stored, NEW S, d \in S
  PROVE  Line(calls', stored, kind, S)
<1>1. PICK c \in CallRecords :
         calls' = Append(RemoveAt(calls, i), c) /\ c.kind = kind /\ Head(c.todo) = "primary" /\ c.data = d
  BY DEF Goes
<1>2. RemoveAt(calls, i) \in Seq(CallRecords)
  BY RemovedIs DEF Typed
<1> QED BY <1>1, <1>2, LineFrom DEF Primary

LEMMA LineIssues ==
  ASSUME Typed, NEW kind, NEW op, NEW d, Issues(kind, op, d),
         NEW stored, NEW last, NEW S, Line(calls, stored, last, S), op = "primary" => d \in S
  PROVE  Line(calls', stored, last, S)
<1>1. PICK c \in CallRecords : calls' = Append(calls, c) /\ c.kind = kind /\ Head(c.todo) = op /\ c.data = d
  BY DEF Issues
<1>2. calls \in Seq(CallRecords)
  BY DEF Typed
<1>3. Primary(c) => c.data \in S
  BY <1>1 DEF Primary
<1> QED BY <1>1, <1>2, <1>3, LineWith

LEMMA LineLeaves ==
  ASSUME Typed, NEW i \in DOMAIN calls, ~Primary(calls[i]), calls' = RemoveAt(calls, i),
         NEW stored, NEW last, NEW S, Line(calls, stored, last, S)
  PROVE  Line(calls', stored, last, S)
<1>1. calls \in Seq(CallRecords)
  BY DEF Typed
<1> QED BY <1>1, LineRest

\* A save that has written the primary.
LEMMA LineSaves ==
  ASSUME Typed, NEW i \in DOMAIN calls, Primary(calls[i]), \A j \in 1 .. i - 1 : Head(calls[j].todo) # "primary",
         NEW kind, calls' = RemoveAt(calls, i) \/ Goes(i, kind, "backup", calls[i].data),
         NEW stored, NEW last, NEW S, Line(calls, stored, last, S)
  PROVE  Line(calls', calls[i].data, last, S)
<1>1. calls \in Seq(CallRecords) /\ RemoveAt(calls, i) \in Seq(CallRecords)
  BY RemovedIs DEF Typed
<1>2. \A j \in 1 .. i - 1 : ~Primary(calls[j])
  BY DEF Primary
<1>3. Line(RemoveAt(calls, i), calls[i].data, last, S)
  BY <1>1, <1>2, LineServed
<1>4. CASE Goes(i, kind, "backup", calls[i].data)
  <2>1. PICK c \in CallRecords : calls' = Append(RemoveAt(calls, i), c) /\ Head(c.todo) = "backup"
    BY <1>4 DEF Goes
  <2>2. ~Primary(c)
    BY <2>1 DEF Primary
  <2> QED BY <1>1, <1>3, <2>1, <2>2, LineWith
<1> QED BY <1>3, <1>4

-----------------------------------------------------------------------------
(* A stop loses nothing.                                                   *)

\* What has all that this process has counted before its session ended.
Complete == {d \in Data : Ticks(mem.data.total) \subseteq Ticks(d.total)}

Completeness ==
  /\ Line(calls, disk.primary, "end", Complete)
  /\ \A c \in Members(calls) : c.kind = "start" /\ Head(c.todo) = "clear" => c.data \in Complete

AllComplete == Without({"primary"}) /\ ~mem.active => Completeness

LEMMA CompleteFrom ==
  ASSUME NEW S, Complete' = S, Line(calls', disk'.primary, "end", S),
         \A c \in Members(calls') : c.kind = "start" /\ Head(c.todo) = "clear" => c.data \in S
  PROVE  Completeness'
  BY DEF Completeness

LEMMA CompleteSame ==
  ASSUME mem'.data.total = mem.data.total
  PROVE  Complete' = Complete
<1> HIDE DEF Data
<1> QED BY DEF Complete

LEMMA CompleteIs ==
  ASSUME Typed
  PROVE  \A d \in Data : d.total = mem.data.total => d \in Complete
<1> HIDE DEF Data
<1> QED BY DEF Complete

\* Recovery adds to what it has loaded.
LEMMA RecoveredKeeps ==
  ASSUME Typed, NEW d \in Data
  PROVE  /\ Recovered(d) \in Data /\ Ticks(d.total) \subseteq Ticks(Recovered(d).total)
         /\ Replay(d) \subseteq Ticks(Recovered(d).total)
<1>1. now \in 1 .. MaxTime /\ Journaled /\ d.total \in Totals
  BY FieldsAre DEF Typed
<1>2. /\ Recovered(d) \in Data
      /\ Replay(d) # {} => Ticks(Recovered(d).total) = Ticks(d.total) \union Replay(d)
      /\ Replay(d) = {} =>
           Recovered(d).total = IF d.start > 0 THEN Add(d.total, Span(d.start, Compensation(d))) ELSE d.total
  BY <1>1, RecoveredIs DEF Played
<1>3. \A T : Ticks(Add(d.total, T)) = Ticks(d.total) \union (T \intersect 1 .. MaxTime)
  BY <1>1, AddIs
<1>4. CASE Replay(d) # {}
  BY <1>2, <1>4
<1>5. CASE Replay(d) = {}
  BY <1>2, <1>3, <1>5
<1> QED BY <1>4, <1>5

LEMMA CompleteLoaded ==
  ASSUME Typed, disk.primary \in Complete
  PROVE  Recovered(Loaded) \in Complete
<1>1. Loaded \in Data /\ mem.data.total \in Totals
  BY DiskIs, KeptAre, FieldsAre DEF Typed
<1>2. Ticks(mem.data.total) \subseteq Ticks(Loaded.total)
  <2>1. CASE disk.primary = Missing
    <3>1. Ticks(disk.primary.total) = {}
      BY <2>1, DataIs, NoTimeIs
    <3> QED BY <3>1 DEF Complete
  <2>2. CASE disk.primary # Missing
    BY <2>2 DEF Loaded, Complete
  <2> QED BY <2>1, <2>2
<1>3. Recovered(Loaded) \in Data /\ Ticks(Loaded.total) \subseteq Ticks(Recovered(Loaded).total)
  BY <1>1, RecoveredKeeps
<1> QED BY <1>2, <1>3 DEF Complete

\* A call that goes on without having written anything that counts here.
LEMMA CompleteGoes ==
  ASSUME Typed, Completeness, NEW i \in DOMAIN calls, ~Primary(calls[i]), NEW kind, kind = calls[i].kind, NEW op,
         NEW d, Goes(i, kind, op, d), op \in {"primary", "clear"} => d \in Complete,
         mem'.data.total = mem.data.total, disk'.primary = disk.primary
  PROVE  Completeness'
<1>1. PICK S : S = Complete
  OBVIOUS
<1>2. Complete' = S
  BY <1>1, CompleteSame
<1>3. Line(calls', disk'.primary, "end", S)
  <2>1. Line(calls, disk.primary, "end", S)
    BY <1>1 DEF Completeness
  <2>2. Line(calls', disk.primary, "end", S)
    BY <1>1, <2>1, LineGoes
  <2> QED BY <2>2
<1>4. \A c \in Members(calls') : c.kind = "start" /\ Head(c.todo) = "clear" => c.data \in S
  <2>0. Goes(i, calls[i].kind, op, d)
    OBVIOUS
  <2>1. \A c \in Members(calls') : c \in Members(calls) \/ (Head(c.todo) = op /\ c.data = d)
    BY <2>0, GoesOnly
  <2>2. \A c \in Members(calls) : c.kind = "start" /\ Head(c.todo) = "clear" => c.data \in S
    BY <1>1 DEF Completeness
  <2> QED BY <1>1, <2>1, <2>2
<1> QED BY <1>2, <1>3, <1>4, CompleteFrom

LEMMA CompleteLeaves ==
  ASSUME Typed, Completeness, NEW i \in DOMAIN calls, ~Primary(calls[i]), calls' = RemoveAt(calls, i),
         mem'.data.total = mem.data.total, disk'.primary = disk.primary
  PROVE  Completeness'
<1>1. PICK S : S = Complete
  OBVIOUS
<1>2. Complete' = S
  BY <1>1, CompleteSame
<1>3. Line(calls', disk'.primary, "end", S)
  <2>1. Line(calls, disk.primary, "end", S)
    BY <1>1 DEF Completeness
  <2>2. Line(calls', disk.primary, "end", S)
    BY <2>1, LineLeaves
  <2> QED BY <2>2
<1>4. \A c \in Members(calls') : c.kind = "start" /\ Head(c.todo) = "clear" => c.data \in S
  <2>1. Members(calls') \subseteq Members(calls)
    BY LeavesKeeps
  <2> QED BY <1>1, <2>1 DEF Completeness
<1> QED BY <1>2, <1>3, <1>4, CompleteFrom

LEMMA CompleteIssues ==
  ASSUME Typed, Completeness, NEW kind, NEW op, NEW d, Issues(kind, op, d), op # "clear", op = "primary" => d \in Complete,
         mem' = mem, disk' = disk
  PROVE  Completeness'
<1>1. PICK S : S = Complete
  OBVIOUS
<1>2. Complete' = S
  BY <1>1, CompleteSame
<1>3. Line(calls', disk'.primary, "end", S)
  <2>1. Line(calls, disk.primary, "end", S)
    BY <1>1 DEF Completeness
  <2>2. Line(calls', disk.primary, "end", S)
    BY <1>1, <2>1, LineIssues
  <2> QED BY <2>2
<1>4. \A c \in Members(calls') : c.kind = "start" /\ Head(c.todo) = "clear" => c.data \in S
  <2>1. \A c \in Members(calls') :
           c \in Members(calls) \/ (c.kind = kind /\ Head(c.todo) = op /\ c.data = d)
    BY IssuesKeeps
  <2> QED BY <1>1, <2>1 DEF Completeness
<1> QED BY <1>2, <1>3, <1>4, CompleteFrom

LEMMA CompleteSaves ==
  ASSUME Typed, Completeness, NEW i \in DOMAIN calls, SavePrimary(i), disk'.primary = calls[i].data, ~Happens("primary")
  PROVE  Completeness'
<1>1. PICK S : S = Complete
  OBVIOUS
<1>2. /\ Head(calls[i].todo) = "primary" /\ \A j \in 1 .. i - 1 : Head(calls[j].todo) # "primary"
      /\ mem' = mem
      /\ Goes(i, calls[i].kind, "backup", calls[i].data) \/ calls' = RemoveAt(calls, i)
  BY SavePrimaryIs DEF InProcess, Returns
<1>3. Complete' = S
  BY <1>1, <1>2, CompleteSame
<1>4. Line(calls', disk'.primary, "end", S)
  <2>1. Line(calls, disk.primary, "end", S)
    BY <1>1 DEF Completeness
  <2>2. Line(calls', calls[i].data, "end", S)
    BY <1>2, <2>1, LineSaves DEF Primary
  <2> QED BY <2>2
<1>5. \A c \in Members(calls') : c.kind = "start" /\ Head(c.todo) = "clear" => c.data \in S
  <2>1. \A c \in Members(calls') : c \in Members(calls) \/ Head(c.todo) = "backup"
    <3>1. CASE Goes(i, calls[i].kind, "backup", calls[i].data)
      BY <3>1, GoesOnly
    <3>2. CASE calls' = RemoveAt(calls, i)
      BY <3>2, LeavesKeeps
    <3> QED BY <1>2, <3>1, <3>2
  <2> QED BY <1>1, <2>1 DEF Completeness
<1> QED BY <1>3, <1>4, <1>5, CompleteFrom

LEMMA CompleteIO ==
  ASSUME Typed, Control, AllComplete, IO, Without({"primary"})', ~mem'.active
  PROVE  Completeness'
<1>0. [Next]_vars /\ Without({"primary"})
  <2>1. [Next]_vars
    BY DEF Next
  <2> QED BY <2>1, IncidentsGrow DEF Without
<1>12. now' = now
  BY DEF IO
<1>1. PICK i \in DOMAIN calls :
         \/ Read(i) \/ Clear(i) \/ SavePrimary(i) \/ SaveBackup(i) \/ PauseTruncates(i)
         \/ EndTruncates(i) \/ Settle(i) \/ EndFlushes(i)
  BY DEF IO
<1>2. mem.data \in Data /\ mem \in Mems /\ now \in 1 .. MaxTime /\ disk \in [primary : Data, backup : Data]
      /\ calls[i] \in Members(calls) /\ calls[i].data \in Data
  BY KeptAre, CallsAre DEF Typed
<1>3. ~mem.active => Completeness
  BY <1>0 DEF AllComplete
<1>4. CASE Read(i)
  <2>1. /\ mem' = mem /\ disk' = disk /\ calls[i].kind = "start" /\ Head(calls[i].todo) = "read"
        /\ Goes(i, "start", "clear", Stamped(Recovered(Loaded)))
    BY <1>4, ReadIs DEF InProcess
  <2>2. Completeness
    BY <1>3, <2>1
  <2>3. disk.primary \in Complete
    <3>1. \A e \in Members(calls) : e.kind # "end"
      BY <2>1, InFlightMeans
    <3>2. ~Followed(calls, 0, "end")
      BY <3>1 DEF Followed, Members
    <3> QED BY <2>2, <3>2 DEF Completeness, Line
  <2>4. Recovered(Loaded) \in Complete
    BY <2>3, CompleteLoaded
  <2>5. Stamped(Recovered(Loaded)) \in Complete
    <3>1. PICK r : r = Recovered(Loaded)
      OBVIOUS
    <3>2. r \in Data
      BY <2>4, <3>1 DEF Complete
    <3>3. Stamped(r) \in Data /\ Stamped(r).total = r.total
      BY <1>2, <3>2, StampedIs
    <3> QED BY <2>4, <3>1, <3>3 DEF Complete
  <2> QED BY <2>1, <2>2, <2>5, CompleteGoes DEF Primary
<1>5. CASE Clear(i)
  <2>1. /\ mem' = mem /\ disk' = disk /\ calls[i].kind = "start" /\ Head(calls[i].todo) = "clear"
        /\ Goes(i, "start", "primary", calls[i].data)
    BY <1>5, ClearIs DEF InProcess
  <2>2. Completeness
    BY <1>3, <2>1
  <2>3. calls[i].data \in Complete
    BY <1>2, <2>1, <2>2 DEF Completeness
  <2> QED BY <2>1, <2>2, <2>3, CompleteGoes DEF Primary
<1>6. CASE SavePrimary(i)
  <2>1. mem' = mem
    BY <1>6, SavePrimaryIs DEF InProcess, Returns
  <2>2. ~Happens("primary")
    BY DEF Happens, Without
  <2>3. disk'.primary = calls[i].data
    <3>1. disk' = [disk EXCEPT !.primary = calls[i].data]
      BY <1>6, <2>2, SavePrimaryIs
    <3> QED BY <1>2, <3>1, DiskIs
  <2> QED BY <1>3, <1>6, <2>1, <2>2, <2>3, CompleteSaves
<1>7. CASE SaveBackup(i)
  <2>1. Head(calls[i].todo) = "backup" /\ disk'.primary = disk.primary
    <3>1. disk' = [disk EXCEPT !.backup = calls[i].data] \/ disk' = disk
      BY <1>7, SaveBackupIs
    <3> QED BY <1>2, <1>7, <3>1, DiskIs, SaveBackupIs
  <2>2. \/ mem' = mem /\ calls[i].kind = "end" /\ Goes(i, "end", "truncate", calls[i].data)
        \/ mem' = mem /\ calls' = RemoveAt(calls, i)
    <3>1. ~Starts(i)
      BY DEF Starts
    <3> QED BY <1>7, <3>1, SaveBackupIs DEF InProcess, Returns
  <2> QED BY <1>3, <2>1, <2>2, CompleteGoes, CompleteLeaves DEF Primary
<1>8. CASE PauseTruncates(i)
  <2>1. /\ mem' = mem /\ disk' = disk /\ calls[i].kind = "pause" /\ Head(calls[i].todo) = "truncate"
        /\ Goes(i, "pause", "primary", Stamped(mem.data)) \/ calls' = RemoveAt(calls, i)
    BY <1>8, PauseTruncatesIs DEF InProcess
  <2>2. Stamped(mem.data) \in Complete
    <3>1. Stamped(mem.data) \in Data /\ Stamped(mem.data).total = mem.data.total
      BY <1>2, StampedIs
    <3> QED BY <3>1, CompleteIs
  <2> QED BY <1>3, <2>1, <2>2, CompleteGoes, CompleteLeaves DEF Primary
<1>9. CASE EndTruncates(i)
  <2>1. /\ disk' = disk /\ calls' = RemoveAt(calls, i) /\ Head(calls[i].todo) = "truncate"
        /\ mem'.data.total = mem.data.total /\ mem'.active = mem.active
    BY <1>9, EndTruncatesIs
  <2> QED BY <1>3, <2>1, CompleteLeaves DEF Primary
<1>10. CASE Settle(i)
  <2>1. /\ mem' = mem /\ disk' = disk /\ calls[i].kind = "end" /\ Head(calls[i].todo) = "settle"
        /\ Goes(i, "end", "flush", calls[i].data) \/ calls' = RemoveAt(calls, i)
    BY <1>10, SettleIs
  <2> QED BY <1>3, <2>1, CompleteGoes, CompleteLeaves DEF Primary
<1>11. CASE EndFlushes(i)
  <2>1. /\ disk' = disk /\ calls[i].kind = "end" /\ Head(calls[i].todo) = "flush"
        /\ \/ mem' \in Mems /\ mem'.data = Halted(mem.data) /\ Goes(i, "end", "primary", Stamped(EndData))
           \/ mem' = mem /\ calls' = RemoveAt(calls, i)
    BY <1>12, <1>11, EndFlushesIs
  <2>2. CASE mem' = mem /\ calls' = RemoveAt(calls, i)
    BY <1>3, <2>1, <2>2, CompleteLeaves DEF Primary
  <2>3. CASE mem'.data = Halted(mem.data) /\ Goes(i, "end", "primary", Stamped(EndData))
    <3>1. PICK S, d : S = Complete' /\ d = Stamped(EndData)
      OBVIOUS
    <3>2. d \in Data /\ d.total = mem'.data.total
      BY <1>2, <2>3, <3>1, EndDataIs, StampedIs
    <3>3. d \in S
      <4> HIDE DEF Data
      <4> QED BY <3>1, <3>2 DEF Complete
    <3>4. Line(calls', disk'.primary, "end", S)
      <4>1. Line(calls', disk.primary, "end", S)
        BY <2>3, <3>1, <3>3, LineGoesFrom
      <4> QED BY <2>1, <4>1
    <3>5. \A c \in Members(calls') : c.kind # "start"
      <4>1. \A c \in Members(calls') : c \in Members(calls) \/ c.kind = "end"
        BY <2>1, <2>3, GoesKeeps
      <4> QED BY <2>1, <4>1, InFlightMeans
    <3> QED BY <3>1, <3>4, <3>5, CompleteFrom
  <2> QED BY <2>1, <2>2, <2>3
<1> QED BY <1>1, <1>4, <1>5, <1>6, <1>7, <1>8, <1>9, <1>10, <1>11

\* Nothing that counts here changes.
LEMMA CompleteStays ==
  ASSUME Typed, Completeness, mem' = mem, disk' = disk, calls' = calls
  PROVE  Completeness'
<1>1. PICK S : S = Complete
  OBVIOUS
<1>2. Complete' = S
  BY <1>1, CompleteSame
<1>3. Line(calls', disk'.primary, "end", S)
  BY <1>1 DEF Completeness
<1>4. \A c \in Members(calls') : c.kind = "start" /\ Head(c.todo) = "clear" => c.data \in S
  BY <1>1 DEF Completeness
<1> QED BY <1>2, <1>3, <1>4, CompleteFrom

LEMMA CompleteAfterCrash ==
  ASSUME Typed, Crash
  PROVE  Completeness'
<1>1. mem' = NewMem /\ calls' = <<>> /\ disk' = disk
  BY DEF Crash
<1>2. PICK S : S = Data
  OBVIOUS
<1>3. disk.primary \in S
  BY <1>2, KeptAre
<1>4. Complete' = S
  <2>1. Ticks(mem'.data.total) = {}
    <3>1. mem'.data.total = NoTime
      BY <1>1, MemIs, DataIs DEF Typed
    <3> QED BY <3>1, NoTimeIs
  <2> HIDE DEF Data
  <2> QED BY <1>2, <2>1 DEF Complete
<1>5. Line(calls', disk'.primary, "end", S)
  BY <1>1, <1>3, LineEmpty
<1>6. Members(calls') = {}
  BY <1>1, NoCalls
<1> QED BY <1>4, <1>5, <1>6, CompleteFrom

LEMMA CompleteNext ==
  ASSUME Typed, Control, AllComplete, [Next]_vars
  PROVE  AllComplete'
<1> SUFFICES ASSUME Without({"primary"})', ~mem'.active  PROVE Completeness'
  BY DEF AllComplete
<1>1. ~mem.active => Completeness
  BY IncidentsGrow DEF AllComplete, Without
<1>2. CASE IO
  BY <1>2, CompleteIO
<1>3. CASE Start
  <2>1. mem' = mem /\ disk' = disk /\ Issues("start", "read", EmptyData)
    BY <1>3, StartIs
  <2> QED BY <1>1, <2>1, CompleteIssues
<1>4. CASE Stop
  <2>1. mem' = mem /\ disk' = disk /\ Issues("end", "settle", EmptyData)
    BY <1>4, StopIs
  <2> QED BY <1>1, <2>1, CompleteIssues
<1>5. CASE Checkpoint \/ SaveNow
  <2>1. PICK kind \in {"checkpoint", "save"} :
           Issues(kind, "primary", Stamped(mem.data)) /\ mem' = mem /\ disk' = disk
    BY <1>5, SaveIssued DEF Checkpoint, SaveNow, storage
  <2>2. Stamped(mem.data) \in Complete
    <3>1. Stamped(mem.data) \in Data /\ Stamped(mem.data).total = mem.data.total
      BY KeptAre, StampedIs DEF Typed
    <3> QED BY <3>1, CompleteIs
  <2> QED BY <1>1, <2>1, <2>2, CompleteIssues
<1>6. CASE Flush \/ AdvanceClock \/ UNCHANGED vars
  <2>1. mem' = mem /\ disk' = disk /\ calls' = calls
    BY <1>6, FlushIs DEF AdvanceClock, vars, storage
  <2> QED BY <1>1, <2>1, CompleteStays
<1>7. CASE IdlePause
  <2>1. disk' = disk /\ ((mem.active /\ mem'.active = mem.active) \/ UNCHANGED <<mem, calls>>)
    BY <1>7, IdlePauseIs
  <2> QED BY <1>1, <2>1, CompleteStays
<1>8. CASE IdleResume
  <2>1. disk' = disk /\ ((mem.active /\ mem'.active = mem.active) \/ UNCHANGED <<mem, calls>>)
    BY <1>8, IdleResumeIs
  <2> QED BY <1>1, <2>1, CompleteStays
<1>9. CASE Heartbeat
  <2>1. disk' = disk /\ ((mem.active /\ mem'.active = mem.active) \/ UNCHANGED <<mem, calls>>)
    BY <1>9, HeartbeatIs DEF Moves
  <2> QED BY <1>1, <2>1, CompleteStays
<1>10. CASE Crash
  BY <1>10, CompleteAfterCrash
<1> QED BY <1>2, <1>3, <1>4, <1>5, <1>6, <1>7, <1>8, <1>9, <1>10 DEF Next

LEMMA CompleteInit ==
  ASSUME Init
  PROVE  AllComplete
<1>1. Typed
  BY TypedInit
<1>2. mem = NewMem /\ calls = <<>>
  BY DEF Init
<1>3. mem.data.total = NoTime
  BY <1>1, <1>2, MemIs, DataIs DEF Typed
<1>4. disk.primary \in Complete
  <2>1. disk.primary \in Data
    BY <1>1, KeptAre
  <2> HIDE DEF Data
  <2> QED BY <1>3, <2>1, NoTimeIs DEF Complete
<1>5. Line(calls, disk.primary, "end", Complete)
  BY <1>2, <1>4, LineEmpty
<1>6. Members(calls) = {}
  BY <1>2, NoCalls
<1> QED BY <1>5, <1>6 DEF AllComplete, Completeness

\* A process that has stopped leaves all that it has counted.
LEMMA CompleteStop ==
  ASSUME Typed, Control, AllComplete
  PROVE  StopLosesNothingUnlessPrimaryFails
<1> SUFFICES ASSUME Without({"primary"}), state = "stopped", calls = <<>>
             PROVE  Ticks(mem.data.total) \subseteq Ticks(Restored)
  BY DEF StopLosesNothingUnlessPrimaryFails, StopLosesNothing
<1>1. Completeness
  BY DEF AllComplete, Control, Session
<1>2. disk.primary \in Complete
  BY <1>1, LineEmpty DEF Completeness
<1>3. Recovered(Loaded) \in Complete
  BY <1>2, CompleteLoaded
<1> QED BY <1>3 DEF Complete, Restored

-----------------------------------------------------------------------------
(* A crash costs only slices in memory.                                     *)

\* The tick of a heartbeat that is due is after all that is stored, or will be, if
\* the session counts it.
Recent ==
  beatDue /\ mem.running /\ mem.data.start # now =>
    /\ mem.data.start <= lastTick /\ disk.primary.watermark <= lastTick
    /\ \A c \in Members(calls) : c.data.watermark <= lastTick

LEMMA RecentFrom ==
  ASSUME Recent, beatDue, UNCHANGED <<now, lastTick>>, mem' = mem,
         disk'.primary = disk.primary \/ \E c \in Members(calls) : disk'.primary = c.data,
         \A c \in Members(calls') : \/ c \in Members(calls)
                                    \/ \E e \in Members(calls) : c.data = e.data
                                    \/ c.data.watermark <= lastTick
  PROVE  Recent'
<1> SUFFICES ASSUME mem.running, mem.data.start # now
             PROVE  Recent'
  BY DEF Recent
<1>1. /\ mem.data.start <= lastTick /\ disk.primary.watermark <= lastTick
      /\ \A c \in Members(calls) : c.data.watermark <= lastTick
  BY DEF Recent
<1>2. disk'.primary.watermark <= lastTick
  BY <1>1
<1>3. \A c \in Members(calls') : c.data.watermark <= lastTick
  BY <1>1
<1> QED BY <1>1, <1>2, <1>3 DEF Recent

LEMMA RecentNext ==
  ASSUME Typed, Control, AllPast, Recent, [Next]_vars
  PROVE  Recent'
<1>0. /\ mem.data \in Data /\ mem \in Mems /\ now \in 1 .. MaxTime /\ disk \in [primary : Data, backup : Data]
      /\ now \in Nat /\ lastTick \in Nat /\ 1 <= lastTick
  BY KeptAre, TimesAre DEF Typed
<1>1. CASE ~beatDue'
  BY <1>1 DEF Recent
<1>2. CASE mem'.running = FALSE
  BY <1>2 DEF Recent
<1>3. CASE IO /\ beatDue'
  <2>1. PICK i \in DOMAIN calls :
           \/ Read(i) \/ Clear(i) \/ SavePrimary(i) \/ SaveBackup(i) \/ PauseTruncates(i)
           \/ EndTruncates(i) \/ Settle(i) \/ EndFlushes(i)
    BY <1>3 DEF IO
  <2>2. beatDue /\ now' = now /\ calls[i].kind \notin {"start", "end"}
    BY <1>3, InFlightMeans DEF IO
  <2>3. calls[i] \in Members(calls) /\ calls[i].data \in Data
    BY KeptAre, CallsAre
  <2>4. CASE SavePrimary(i) \/ SaveBackup(i)
    <3>1. mem' = mem /\ lastTick' = lastTick
      BY <2>2, <2>4, SavePrimaryIs, SaveBackupIs DEF InProcess, Returns
    <3>2. disk'.primary = disk.primary \/ \E c \in Members(calls) : disk'.primary = c.data
      <4>1. \/ disk' = [disk EXCEPT !.primary = calls[i].data]
            \/ disk' = [disk EXCEPT !.backup = calls[i].data]
            \/ disk' = disk
        BY <2>4, SavePrimaryIs, SaveBackupIs
      <4>2. disk'.primary = disk.primary \/ disk'.primary = calls[i].data
        BY <1>0, <2>3, <4>1, DiskIs
      <4> QED BY <2>3, <4>2
    <3>3. Goes(i, calls[i].kind, "backup", calls[i].data) \/ calls' = RemoveAt(calls, i)
      BY <2>2, <2>4, SavePrimaryIs, SaveBackupIs DEF Returns
    <3>4. \A c \in Members(calls') : c \in Members(calls) \/ c.data = calls[i].data
      <4>1. Goes(i, calls[i].kind, "backup", calls[i].data) =>
               \A c \in Members(calls') : c \in Members(calls) \/ c.data = calls[i].data
        BY GoesOnly
      <4>2. CASE calls' = RemoveAt(calls, i)
        BY <4>2, LeavesKeeps
      <4> QED BY <3>3, <4>1, <4>2
    <3> QED BY <2>2, <2>3, <3>1, <3>2, <3>4, RecentFrom
  <2>5. CASE PauseTruncates(i)
    <3>1. mem' = mem /\ calls[i].kind = "pause" /\ Head(calls[i].todo) = "truncate"
      BY <2>5, PauseTruncatesIs DEF InProcess
    <3>2. ~mem'.running
      BY <3>1, InFlightMeans DEF InPlace
    <3> QED BY <3>2 DEF Recent
  <2>6. ~(Read(i) \/ Clear(i) \/ EndTruncates(i) \/ Settle(i) \/ EndFlushes(i))
    BY <2>2, ReadIs, ClearIs, EndTruncatesIs, SettleIs, EndFlushesIs
  <2> QED BY <2>1, <2>4, <2>5, <2>6
<1>4. CASE Start
  <2>1. ~beatDue'
    BY <1>4, StartIs DEF Control, Session
  <2> QED BY <2>1 DEF Recent
<1>5. CASE Stop
  BY <1>5, StopIs DEF Recent
<1>6. CASE (Checkpoint \/ SaveNow) /\ beatDue'
  <2>1. PICK kind \in {"checkpoint", "save"} :
           Issues(kind, "primary", Stamped(mem.data)) /\ mem' = mem /\ disk' = disk
    BY <1>6, SaveIssued DEF Checkpoint, SaveNow, storage
  <2>2. UNCHANGED <<now, lastTick, beatDue>>
    BY <1>6 DEF Checkpoint, SaveNow, clock
  <2>3. CASE mem.running /\ mem.data.start # now
    <3>1. PICK d : d = Stamped(mem.data)
      OBVIOUS
    <3>2. d.watermark = mem.data.watermark /\ mem.data.start \in Int /\ mem.data.watermark \in Int
      BY <1>0, <3>1, StampedIs, FieldsAre, Constants
    <3>3. d.watermark <= lastTick
      BY <1>0, <1>6, <2>2, <2>3, <3>2 DEF Recent, AllPast
    <3>4. \A c \in Members(calls') : c \in Members(calls) \/ c.data = d
      BY <2>1, <3>1, IssuesKeeps
    <3> QED BY <1>6, <2>1, <2>2, <3>3, <3>4, RecentFrom
  <2> QED BY <2>1, <2>2, <2>3 DEF Recent
<1>7. CASE Flush \/ UNCHANGED vars
  <2>1. UNCHANGED <<now, lastTick, beatDue, mem, disk, calls>>
    BY <1>7, FlushIs DEF vars, clock, storage
  <2> QED BY <2>1 DEF Recent
<1>8. CASE IdlePause
  <2>1. UNCHANGED <<now, lastTick, beatDue, disk>> /\ (mem'.running = FALSE \/ UNCHANGED <<mem, calls>>)
    BY <1>8, IdlePauseIs
  <2> QED BY <2>1 DEF Recent
<1>9. CASE IdleResume
  <2>1. UNCHANGED <<now, lastTick, beatDue, disk>> /\ (mem'.data.start = now \/ UNCHANGED <<mem, calls>>)
    BY <1>9, IdleResumeIs
  <2> QED BY <2>1 DEF Recent
<1>10. CASE Heartbeat
  BY <1>10, HeartbeatIs DEF Recent
<1>11. CASE AdvanceClock /\ beatDue'
  <2>1. /\ calls = <<>> /\ calls' = calls /\ mem' = mem /\ disk' = disk /\ lastTick' = lastTick /\ ticking /\ ~beatDue
    BY <1>11 DEF AdvanceClock, storage
  <2>2. lastTick = now
    BY <2>1 DEF Control, Session
  <2>3. disk.primary.watermark <= now /\ (mem.running => mem.data.start <= now)
    BY DEF AllPast, Past, Control, Session
  <2>4. Members(calls') = {}
    BY <2>1, NoCalls
  <2> QED BY <2>1, <2>2, <2>3, <2>4 DEF Recent
<1>12. CASE Crash
  BY <1>12 DEF Crash, Recent
<1> QED BY <1>1, <1>3, <1>4, <1>5, <1>6, <1>7, <1>8, <1>9, <1>10, <1>11, <1>12 DEF Next

LEMMA RecentInit ==
  ASSUME Init
  PROVE  Recent
BY DEF Init, Recent

\* What is new among the calls, when no save writes.
LEMMA NewCalls ==
  ASSUME Typed, [Next]_vars, \A i \in DOMAIN calls : ~SavePrimary(i) /\ ~SaveBackup(i)
  PROVE  /\ disk' = disk
         /\ \A c \in Members(calls') :
              \/ c \in Members(calls)
              \/ /\ Head(c.todo) # "backup"
                 /\ c.data.saved \in {0, now} \/ \E e \in Members(calls) : c.data = e.data
<1>0. now \in 1 .. MaxTime /\ mem.data \in Data /\ mem \in Mems
  BY KeptAre DEF Typed
<1>1. EmptyData.saved = 0 /\ \A d \in Data : Stamped(d).saved = now
  BY <1>0, DataIs, StampedIs
<1>2. ASSUME NEW i \in DOMAIN calls, NEW op, op # "backup", NEW d, Goes(i, calls[i].kind, op, d),
             d = calls[i].data \/ d.saved = now
      PROVE  \A c \in Members(calls') :
               \/ c \in Members(calls)
               \/ /\ Head(c.todo) # "backup"
                  /\ c.data.saved \in {0, now} \/ \E e \in Members(calls) : c.data = e.data
  <2>1. \A c \in Members(calls') : c \in Members(calls) \/ (Head(c.todo) = op /\ c.data = d)
    BY <1>2, GoesOnly
  <2>2. calls[i] \in Members(calls)
    BY CallsAre
  <2> QED BY <1>2, <2>1, <2>2
<1>3. ASSUME NEW i \in DOMAIN calls, calls' = RemoveAt(calls, i)
      PROVE  Members(calls') \subseteq Members(calls)
  BY <1>3, LeavesKeeps
<1>4. ASSUME NEW kind, NEW op, op # "backup", NEW d, d.saved \in {0, now}, Issues(kind, op, d)
      PROVE  \A c \in Members(calls') :
               c \in Members(calls) \/ (Head(c.todo) # "backup" /\ c.data.saved \in {0, now})
  <2>1. \A c \in Members(calls') : c \in Members(calls) \/ (c.kind = kind /\ Head(c.todo) = op /\ c.data = d)
    BY <1>4, IssuesKeeps
  <2> QED BY <1>4, <2>1
<1>5. CASE IO
  <2>0. now' = now
    BY <1>5 DEF IO
  <2>1. PICK i \in DOMAIN calls :
           \/ Read(i) \/ Clear(i) \/ PauseTruncates(i) \/ EndTruncates(i) \/ Settle(i) \/ EndFlushes(i)
    BY <1>5 DEF IO
  <2>2. disk' = disk
    BY <2>0, <2>1, ReadIs, ClearIs, PauseTruncatesIs, EndTruncatesIs, SettleIs, EndFlushesIs
  <2>3. Stamped(Recovered(Loaded)).saved = now /\ Stamped(mem.data).saved = now /\ Stamped(EndData).saved = now
    <3>1. Journaled /\ Loaded \in Data
      BY DiskIs DEF Typed
    <3>2. Recovered(Loaded) \in Data /\ EndData \in Data
      BY <1>0, <3>1, RecoveredIs, EndDataIs
    <3> QED BY <1>0, <1>1, <3>2
  <2>4. CASE Read(i)
    BY <1>2, <2>2, <2>3, <2>4, ReadIs
  <2>5. CASE Clear(i)
    BY <1>2, <2>2, <2>5, ClearIs
  <2>6. CASE PauseTruncates(i)
    BY <1>2, <1>3, <2>2, <2>3, <2>6, PauseTruncatesIs
  <2>7. CASE EndTruncates(i)
    BY <1>3, <2>2, <2>7, EndTruncatesIs
  <2>8. CASE Settle(i)
    BY <1>2, <1>3, <2>2, <2>8, SettleIs
  <2>9. CASE EndFlushes(i)
    BY <1>2, <1>3, <2>0, <2>2, <2>3, <2>9, EndFlushesIs
  <2> QED BY <2>1, <2>4, <2>5, <2>6, <2>7, <2>8, <2>9
<1>6. CASE Start \/ Stop
  <2>1. disk' = disk /\ (Issues("start", "read", EmptyData) \/ Issues("end", "settle", EmptyData))
    BY <1>6, StartIs, StopIs
  <2> QED BY <1>1, <1>4, <2>1
<1>7. CASE Checkpoint \/ SaveNow
  <2>1. PICK kind \in {"checkpoint", "save"} : Issues(kind, "primary", Stamped(mem.data)) /\ disk' = disk
    BY <1>7, SaveIssued DEF Checkpoint, SaveNow, storage
  <2> QED BY <1>0, <1>1, <1>4, <2>1
<1>8. CASE Flush \/ AdvanceClock \/ UNCHANGED vars
  BY <1>8, FlushIs DEF AdvanceClock, vars, storage
<1>9. CASE IdlePause
  <2>1. disk' = disk /\ (Issues("pause", "truncate", EmptyData) \/ calls' = calls)
    BY <1>9, IdlePauseIs
  <2> QED BY <1>1, <1>4, <2>1
<1>10. CASE IdleResume \/ Heartbeat
  <2>1. disk' = disk /\ (calls' = calls \/ (mem' \in Mems /\ \E kind : Issues(kind, "primary", Stamped(mem'.data))))
    BY <1>10, IdleResumeIs, HeartbeatIs DEF Moves
  <2>2. CASE mem' \in Mems /\ \E kind : Issues(kind, "primary", Stamped(mem'.data))
    <3>1. PICK kind, d : d = Stamped(mem'.data) /\ Issues(kind, "primary", d)
      BY <2>2
    <3>2. mem'.data \in Data
      <4> HIDE DEF Data
      <4> QED BY <2>2 DEF Mems
    <3>3. d.saved = now
      BY <1>1, <3>1, <3>2
    <3> QED BY <1>4, <2>1, <3>1, <3>3
  <2> QED BY <2>1, <2>2
<1>11. CASE Crash
  <2>1. disk' = disk /\ calls' = <<>>
    BY <1>11 DEF Crash
  <2> QED BY <2>1, NoCalls
<1> QED BY <1>5, <1>6, <1>7, <1>8, <1>9, <1>10, <1>11 DEF Next

\* What is to be stored is timing data, and the backup is only written after the primary.
AllWritten ==
  /\ \A c \in Members(calls) : c.data.saved >= 0
  /\ Without({"primary"}) =>
       /\ disk.primary = Missing => disk.backup = Missing
       /\ \A c \in Members(calls) : Head(c.todo) = "backup" => disk.primary # Missing

LEMMA WrittenNext ==
  ASSUME Typed, AllWritten, [Next]_vars
  PROVE  AllWritten'
<1>0. now \in Nat /\ 0 <= now /\ (Without({"primary"})' => Without({"primary"}))
  BY TimesAre, IncidentsGrow DEF Without
<1>1. CASE \A i \in DOMAIN calls : ~SavePrimary(i) /\ ~SaveBackup(i)
  <2>1. /\ disk' = disk
        /\ \A c \in Members(calls') :
             \/ c \in Members(calls)
             \/ /\ Head(c.todo) # "backup"
                /\ c.data.saved \in {0, now} \/ \E e \in Members(calls) : c.data = e.data
    BY <1>1, NewCalls
  <2>2. \A c \in Members(calls') : c.data.saved >= 0
    <3>1. \A c \in Members(calls') : c.data.saved \in {0, now} \/ \E e \in Members(calls) : c.data = e.data
      BY <2>1
    <3> QED BY <1>0, <3>1 DEF AllWritten
  <2>3. \A c \in Members(calls') : Head(c.todo) = "backup" => c \in Members(calls)
    BY <2>1
  <2> QED BY <1>0, <2>1, <2>2, <2>3 DEF AllWritten
<1>2. ASSUME NEW i \in DOMAIN calls, SavePrimary(i) \/ SaveBackup(i)
      PROVE  AllWritten'
  <2>1. calls[i] \in Members(calls) /\ calls[i].data \in Data /\ calls[i].data.saved >= 0
        /\ disk \in [primary : Data, backup : Data]
    BY KeptAre, CallsAre DEF AllWritten, Typed
  <2>2. calls[i].data # Missing
    BY <2>1, DataIs
  <2>3. \A c \in Members(calls') : c \in Members(calls) \/ c.data = calls[i].data
    <3>1. \/ Goes(i, calls[i].kind, "backup", calls[i].data) \/ calls' = RemoveAt(calls, i)
          \/ Goes(i, calls[i].kind, "truncate", calls[i].data)
      BY <1>2, SavePrimaryIs, SaveBackupIs DEF Returns, Starts
    <3>2. CASE calls' = RemoveAt(calls, i)
      BY <3>2, LeavesKeeps
    <3>3. CASE Goes(i, calls[i].kind, "backup", calls[i].data)
      BY <3>3, GoesOnly
    <3>4. CASE Goes(i, calls[i].kind, "truncate", calls[i].data)
      BY <3>4, GoesOnly
    <3> QED BY <3>1, <3>2, <3>3, <3>4
  <2>4. \A c \in Members(calls') : c.data.saved >= 0
    BY <2>1, <2>3 DEF AllWritten
  <2>5. Without({"primary"})' => disk'.primary # Missing
    <3> SUFFICES ASSUME Without({"primary"})'  PROVE disk'.primary # Missing
      OBVIOUS
    <3>1. CASE SavePrimary(i)
      <4>1. disk' = [disk EXCEPT !.primary = calls[i].data]
        BY <3>1, SavePrimaryIs DEF Happens, Without
      <4> QED BY <2>1, <2>2, <4>1, DiskIs
    <3>2. CASE SaveBackup(i)
      <4>1. Head(calls[i].todo) = "backup" /\ (disk' = [disk EXCEPT !.backup = calls[i].data] \/ disk' = disk)
        BY <3>2, SaveBackupIs
      <4>2. disk'.primary = disk.primary
        BY <2>1, <4>1, DiskIs
      <4> QED BY <1>0, <2>1, <4>1, <4>2 DEF AllWritten
    <3> QED BY <1>2, <3>1, <3>2
  <2> QED BY <2>4, <2>5 DEF AllWritten
<1> QED BY <1>1, <1>2

LEMMA WrittenInit ==
  ASSUME Init
  PROVE  AllWritten
<1>1. disk.primary = Missing /\ disk.backup = Missing /\ calls = <<>>
  BY DEF Init
<1>2. Members(calls) = {}
  BY <1>1, NoCalls
<1> QED BY <1>1, <1>2 DEF AllWritten

\* A recovery is alone, and stores what the next process would come to.
AllStarting ==
  Without({"primary", "lateSave"}) =>
    \A c \in Members(calls) :
      c.kind = "start" =>
        /\ \A e \in Members(calls) : e.kind = "start"
        /\ Head(c.todo) = "clear" => c.data.total = Restored
        /\ Head(c.todo) = "backup" => disk.primary = c.data

\* Until it is over only it goes on, unless the process is killed.
LEMMA StartSteps ==
  ASSUME Typed, Control, [Next]_vars, Without({"primary", "lateSave"})',
         NEW c \in Members(calls), c.kind = "start", \A e \in Members(calls) : e.kind = "start"
  PROVE  \/ \E i \in DOMAIN calls :
              /\ now' = now /\ \A e \in Members(calls) : e = calls[i]
              /\ Read(i) \/ Clear(i) \/ SavePrimary(i) \/ SaveBackup(i)
         \/ Crash \/ UNCHANGED vars
<1>1. PICK k \in DOMAIN calls : c = calls[k]
  BY DEF Members
<1>2. state = "stopped" /\ ~mem.active /\ ~ticking /\ calls # <<>>
  <2>1. state = "stopped" /\ ~mem.active /\ ~ticking
    BY <1>1, InFlightMeans
  <2> QED BY <1>1, <2>1
<1>3. CASE IO
  <2>1. PICK i \in DOMAIN calls :
           \/ Read(i) \/ Clear(i) \/ SavePrimary(i) \/ SaveBackup(i) \/ PauseTruncates(i)
           \/ EndTruncates(i) \/ Settle(i) \/ EndFlushes(i)
    BY <1>3 DEF IO
  <2>2. \A j \in DOMAIN calls : calls[j].kind = "start"
    BY CallsAre
  <2>3. \A j \in DOMAIN calls : j = i
    BY <2>2 DEF Control, InOrder, Solo, Single
  <2>4. \A e \in Members(calls) : e = calls[i]
    BY <2>3 DEF Members
  <2>6. now' = now
    BY <1>3 DEF IO
  <2>5. ~(PauseTruncates(i) \/ EndTruncates(i) \/ Settle(i) \/ EndFlushes(i))
    BY <2>2, <2>6, PauseTruncatesIs, EndTruncatesIs, SettleIs, EndFlushesIs
  <2> QED BY <2>1, <2>4, <2>5, <2>6
<1>4. ~Start /\ ~AdvanceClock
  BY <1>2 DEF Start, AdvanceClock
<1>5. ~Stop /\ ~IdlePause /\ ~IdleResume
  BY <1>2 DEF Stop, IdlePause, IdleResume
<1>6. ~Checkpoint /\ ~Flush /\ ~Heartbeat
  BY <1>2 DEF Checkpoint, Flush, Heartbeat
<1>7. ~SaveNow
  BY <1>2 DEF SaveNow, Happens, Without
<1> QED BY <1>3, <1>4, <1>5, <1>6, <1>7 DEF Next

LEMMA StartGoes ==
  ASSUME Typed, Control, NEW i \in DOMAIN calls, calls[i].kind = "start", \A e \in Members(calls) : e = calls[i],
         NEW op, NEW d, Goes(i, "start", op, d) \/ calls' = RemoveAt(calls, i)
  PROVE  /\ \A c \in Members(calls') : c.kind = "start" /\ Head(c.todo) = op /\ c.data = d
         /\ calls' = RemoveAt(calls, i) => Members(calls') = {}
<1>1. Single(calls, "start")
  BY DEF Control, InOrder, Solo
<1>2. CASE Goes(i, "start", op, d)
  <2>1. PICK e \in CallRecords :
           calls' = Append(RemoveAt(calls, i), e) /\ e.kind = "start" /\ Head(e.todo) = op /\ e.data = d
    BY <1>2 DEF Goes
  <2>2. RemoveAt(calls, i) \in Seq(CallRecords) /\ Members(RemoveAt(calls, i)) \subseteq Members(calls)
    BY RemovedIs, MembersOfRest DEF Typed
  <2>3. \A c \in Members(RemoveAt(calls, i)) : c.kind # "start"
    BY <1>1, SingleRest DEF Typed
  <2>4. Members(RemoveAt(calls, i)) = {}
    BY <2>2, <2>3
  <2>5. Members(calls') = {e}
    BY <2>1, <2>2, <2>4, MembersWith
  <2>6. e \in Members(calls')
    BY <2>5
  <2>7. calls' # RemoveAt(calls, i)
    BY <2>4, <2>6
  <2> QED BY <2>1, <2>5, <2>7
<1>3. CASE calls' = RemoveAt(calls, i)
  <2>1. Members(calls') \subseteq Members(calls) /\ \A c \in Members(calls') : c.kind # "start"
    BY <1>1, <1>3, LeavesKeeps
  <2> QED BY <2>1
<1> QED BY <1>2, <1>3

LEMMA RestoredSame ==
  ASSUME now' = now, UNCHANGED <<file, openLine>>, disk' = disk
  PROVE  Restored' = Restored /\ Loaded' = Loaded
<1>1. Lines' = Lines
  BY DEF Lines
<1> QED BY <1>1 DEF Restored, Recovered, Replayed, Compensated, Loaded

\* What is restored of data that are stored now.
LEMMA RestoredFrom ==
  ASSUME Typed, disk.primary # Missing
  PROVE  Ticks(disk.primary.total) \subseteq Ticks(Restored)
<1>1. Loaded = disk.primary /\ disk.primary \in Data
  BY KeptAre DEF Loaded
<1> QED BY <1>1, RecoveredKeeps DEF Restored

\* Only a start begins a recovery.
LEMMA StartIsNew ==
  ASSUME Typed, Control, [Next]_vars, \A c \in Members(calls) : c.kind # "start"
  PROVE  \A c \in Members(calls') :
           c.kind = "start" => /\ \A e \in Members(calls') : e.kind = "start"
                               /\ Head(c.todo) = "read"
<1>1. ASSUME NEW i \in DOMAIN calls, NEW kind, kind = calls[i].kind, NEW op, NEW d, Goes(i, kind, op, d)
      PROVE  \A c \in Members(calls') : c.kind # "start"
  <2>1. PICK e \in CallRecords :
           calls' = Append(RemoveAt(calls, i), e) /\ e.kind = kind
    BY <1>1 DEF Goes
  <2>2. RemoveAt(calls, i) \in Seq(CallRecords) /\ Members(RemoveAt(calls, i)) \subseteq Members(calls)
    BY RemovedIs, MembersOfRest DEF Typed
  <2>3. Members(calls') = Members(RemoveAt(calls, i)) \union {e} /\ calls[i] \in Members(calls)
    BY <2>1, <2>2, MembersWith, CallsAre
  <2> QED BY <1>1, <2>1, <2>2, <2>3
<1>2. ASSUME NEW i \in DOMAIN calls, calls' = RemoveAt(calls, i)
      PROVE  \A c \in Members(calls') : c.kind # "start"
  BY <1>2, LeavesKeeps
<1>3. ASSUME NEW kind, kind # "start", NEW op, NEW d, Issues(kind, op, d)
      PROVE  \A c \in Members(calls') : c.kind # "start"
  <2>1. \A c \in Members(calls') : c \in Members(calls) \/ (c.kind = kind /\ Head(c.todo) = op /\ c.data = d)
    BY <1>3, IssuesKeeps
  <2> QED BY <1>3, <2>1
<1>4. CASE IO
  <2>1. PICK i \in DOMAIN calls :
           \/ Read(i) \/ Clear(i) \/ SavePrimary(i) \/ SaveBackup(i) \/ PauseTruncates(i)
           \/ EndTruncates(i) \/ Settle(i) \/ EndFlushes(i)
    BY <1>4 DEF IO
  <2>0. now' = now
    BY <1>4 DEF IO
  <2>2. calls[i].kind # "start"
    BY CallsAre
  <2>3. PICK kind : kind = calls[i].kind
    OBVIOUS
  <2>4. CASE Read(i) \/ Clear(i)
    BY <2>2, <2>4, ReadIs, ClearIs
  <2>5. CASE SavePrimary(i) \/ SaveBackup(i)
    <3>1. \/ Goes(i, calls[i].kind, "backup", calls[i].data) \/ calls' = RemoveAt(calls, i)
          \/ Goes(i, calls[i].kind, "truncate", calls[i].data)
      BY <2>5, SavePrimaryIs, SaveBackupIs DEF Returns, Starts
    <3> QED BY <1>1, <1>2, <3>1
  <2>6. CASE PauseTruncates(i)
    BY <1>1, <1>2, <2>6, PauseTruncatesIs
  <2>7. CASE EndTruncates(i)
    BY <1>2, <2>7, EndTruncatesIs
  <2>8. CASE Settle(i)
    BY <1>1, <1>2, <2>8, SettleIs
  <2>9. CASE EndFlushes(i)
    BY <1>1, <1>2, <2>0, <2>9, EndFlushesIs
  <2> QED BY <2>1, <2>4, <2>5, <2>6, <2>7, <2>8, <2>9
<1>5. CASE Start
  <2>1. calls = <<>> /\ Issues("start", "read", EmptyData)
    BY <1>5, StartIs
  <2>2. \A c \in Members(calls') :
           c \in Members(calls) \/ (c.kind = "start" /\ Head(c.todo) = "read" /\ c.data = EmptyData)
    BY <2>1, IssuesKeeps
  <2>3. Members(calls) = {}
    BY <2>1, NoCalls
  <2> QED BY <2>2, <2>3
<1>6. CASE Stop
  <2>1. Issues("end", "settle", EmptyData)
    BY <1>6, StopIs
  <2> QED BY <1>3, <2>1
<1>7. CASE Checkpoint \/ SaveNow
  <2>1. PICK kind \in {"checkpoint", "save"} : Issues(kind, "primary", Stamped(mem.data))
    BY <1>7, SaveIssued DEF Checkpoint, SaveNow
  <2> QED BY <1>3, <2>1
<1>8. CASE Flush \/ AdvanceClock \/ UNCHANGED vars
  BY <1>8, FlushIs DEF AdvanceClock, vars
<1>9. CASE IdlePause
  <2>1. Issues("pause", "truncate", EmptyData) \/ calls' = calls
    BY <1>9, IdlePauseIs
  <2> QED BY <1>3, <2>1
<1>10. CASE IdleResume \/ Heartbeat
  <2>1. calls' = calls \/ \E kind \in {"resume", "wake", "rotate"} : Issues(kind, "primary", Stamped(mem'.data))
    BY <1>10, IdleResumeIs, HeartbeatIs
  <2> QED BY <1>3, <2>1
<1>11. CASE Crash
  <2>1. Members(calls') = {}
    BY <1>11, NoCalls DEF Crash
  <2> QED BY <2>1
<1> QED BY <1>4, <1>5, <1>6, <1>7, <1>8, <1>9, <1>10, <1>11 DEF Next

LEMMA StartingNext ==
  ASSUME Typed, Control, AllStarting, [Next]_vars
  PROVE  AllStarting'
<1> SUFFICES ASSUME Without({"primary", "lateSave"})', NEW c \in Members(calls'), c.kind = "start"
             PROVE  /\ \A e \in Members(calls') : e.kind = "start"
                    /\ Head(c.todo) = "clear" => c.data.total = Restored'
                    /\ Head(c.todo) = "backup" => disk'.primary = c.data
  BY DEF AllStarting
<1>1. CASE \A e \in Members(calls) : e.kind # "start"
  BY <1>1, StartIsNew
<1>2. ASSUME NEW s \in Members(calls), s.kind = "start"
      PROVE  /\ \A e \in Members(calls') : e.kind = "start"
             /\ Head(c.todo) = "clear" => c.data.total = Restored'
             /\ Head(c.todo) = "backup" => disk'.primary = c.data
  <2>0. \A e \in Members(calls) : /\ e.kind = "start"
                                  /\ Head(e.todo) = "clear" => e.data.total = Restored
                                  /\ Head(e.todo) = "backup" => disk.primary = e.data
    <3>1. Without({"primary", "lateSave"})
      BY IncidentsGrow DEF Without
    <3> QED BY <1>2, <3>1 DEF AllStarting
  <2>1. CASE Crash
    BY <2>1, NoCalls DEF Crash
  <2>2. CASE UNCHANGED vars
    <3>1. calls' = calls /\ disk' = disk /\ Restored' = Restored
      BY <2>2, RestoredSame DEF vars, storage, journal, clock
    <3> QED BY <2>0, <3>1
  <2>3. ASSUME NEW i \in DOMAIN calls, now' = now, \A e \in Members(calls) : e = calls[i],
               Read(i) \/ Clear(i) \/ SavePrimary(i) \/ SaveBackup(i)
        PROVE  /\ \A e \in Members(calls') : e.kind = "start"
               /\ Head(c.todo) = "clear" => c.data.total = Restored'
               /\ Head(c.todo) = "backup" => disk'.primary = c.data
    <3>1. calls[i].kind = "start" /\ calls[i] \in Members(calls)
      BY <2>0, <2>3, CallsAre
    <3>2. now' = now
      BY <2>3
    <3>3. CASE Read(i)
      <4>1. UNCHANGED <<file, openLine>> /\ disk' = disk /\ Goes(i, "start", "clear", Stamped(Recovered(Loaded)))
        BY <3>3, ReadIs
      <4>2. PICK d : d = Stamped(Recovered(Loaded))
        OBVIOUS
      <4>3. \A e \in Members(calls') : e.kind = "start" /\ Head(e.todo) = "clear" /\ e.data = d
        BY <2>3, <3>1, <4>1, <4>2, StartGoes
      <4>4. d.total = Restored
        <5>1. Recovered(Loaded) \in Data
          BY DiskIs, RecoveredIs DEF Typed
        <5> QED BY <4>2, <5>1, StampedIs DEF Restored, Typed
      <4> QED BY <3>2, <4>1, <4>3, <4>4, RestoredSame
    <3>4. CASE Clear(i)
      <4>1. Goes(i, "start", "primary", calls[i].data)
        BY <3>4, ClearIs
      <4>2. \A e \in Members(calls') : e.kind = "start" /\ Head(e.todo) = "primary"
        BY <2>3, <3>1, <4>1, StartGoes
      <4> QED BY <4>2
    <3>5. CASE SavePrimary(i)
      <4>1. Goes(i, calls[i].kind, "backup", calls[i].data)
        BY <3>1, <3>5, SavePrimaryIs
      <4>2. \A e \in Members(calls') : e.kind = "start" /\ Head(e.todo) = "backup" /\ e.data = calls[i].data
        <5>1. PICK d : d = calls[i].data
          OBVIOUS
        <5>2. Goes(i, "start", "backup", d)
          BY <3>1, <4>1, <5>1
        <5> QED BY <2>3, <3>1, <5>1, <5>2, StartGoes
      <4>3. disk' = [disk EXCEPT !.primary = calls[i].data]
        BY <3>5, SavePrimaryIs DEF Happens, Without
      <4>4. disk'.primary = calls[i].data
        BY <4>3, KeptAre, <3>1, DiskIs DEF Typed
      <4> QED BY <4>2, <4>4
    <3>6. CASE SaveBackup(i)
      <4>1. calls' = RemoveAt(calls, i)
        BY <3>1, <3>6, SaveBackupIs DEF Starts
      <4>2. Members(calls') = {}
        BY <2>3, <3>1, <4>1, StartGoes
      <4> QED BY <4>2
    <3> QED BY <2>3, <3>3, <3>4, <3>5, <3>6
  <2>4. \/ \E i \in DOMAIN calls :
             /\ now' = now /\ \A e \in Members(calls) : e = calls[i]
             /\ Read(i) \/ Clear(i) \/ SavePrimary(i) \/ SaveBackup(i)
        \/ Crash \/ UNCHANGED vars
    BY <1>2, <2>0, StartSteps
  <2> QED BY <2>1, <2>2, <2>3, <2>4
<1> QED BY <1>1, <1>2

LEMMA StartingInit ==
  ASSUME Init
  PROVE  AllStarting
<1>1. Members(calls) = {}
  BY NoCalls DEF Init
<1> QED BY <1>1 DEF AllStarting


\* What was counted up to the last heartbeat, and the data from which, with the
\* slices, a recovery would come to it, but for the ticks that have no slice.
Owed == {t \in Ticks(Counted) : t <= lastTick}
Safe(d) == Ticks(d.total) \union {t \in Slices : t > d.watermark} \union uncovered
Surviving == {d \in Data : Owed \subseteq Safe(d)}

SafeLine == Line(calls, disk.primary, "pause", Surviving)
AllSurvive == Without({"primary", "truncate", "lateSave"}) => SafeLine

LEMMA CountsAre ==
  ASSUME NEW m \in Mems, NEW n \in Int, NEW last \in Int, last <= n, NEW total,
         total = IF m.running THEN Add(m.data.total, Span(m.data.start, n)) ELSE m.data.total
  PROVE  \A t : t \in Ticks(total) /\ t <= last <=>
                  /\ t \in 1 .. MaxTime /\ t <= last
                  /\ t \in Ticks(m.data.total) \/ (m.running /\ t > m.data.start)
<1>1. m.data \in Data /\ m.running \in BOOLEAN
  <2> HIDE DEF Data
  <2> QED BY DEF Mems
<1>2. m.data.total \in Totals /\ m.data.start \in Int
  BY <1>1, FieldsAre, Constants
<1>3. Ticks(m.data.total) \subseteq 1 .. MaxTime
  BY <1>2, TicksAre
<1>4. CASE m.running
  <2>1. Ticks(total) = Ticks(m.data.total) \union (Span(m.data.start, n) \intersect 1 .. MaxTime)
    BY <1>2, <1>4, AddIs
  <2>2. \A t \in 1 .. MaxTime : t <= last => (t \in Span(m.data.start, n) <=> t > m.data.start)
    BY <1>2 DEF Span
  <2> QED BY <1>3, <1>4, <2>1, <2>2
<1>5. CASE ~m.running
  BY <1>3, <1>5
<1> QED BY <1>4, <1>5

LEMMA OwedIs ==
  ASSUME Typed
  PROVE  \A t : t \in Owed <=>
                  /\ t \in 1 .. MaxTime /\ t <= lastTick
                  /\ t \in Ticks(mem.data.total) \/ (mem.running /\ t > mem.data.start)
<1>1. mem \in Mems /\ now \in Int /\ lastTick \in Int /\ lastTick <= now
  BY TimesAre DEF Typed
<1>2. PICK total : total = Counted
  OBVIOUS
<1>3. total = IF mem.running THEN Add(mem.data.total, Span(mem.data.start, now)) ELSE mem.data.total
  BY <1>2 DEF Counted
<1>4. \A t : t \in Ticks(total) /\ t <= lastTick <=>
               /\ t \in 1 .. MaxTime /\ t <= lastTick
               /\ t \in Ticks(mem.data.total) \/ (mem.running /\ t > mem.data.start)
  BY <1>1, <1>3, CountsAre
<1> QED BY <1>2, <1>4 DEF Owed

LEMMA OwedThen ==
  ASSUME Typed, [Next]_vars
  PROVE  \A t : t \in Owed' <=>
                  /\ t \in 1 .. MaxTime /\ t <= lastTick'
                  /\ t \in Ticks(mem'.data.total) \/ (mem'.running /\ t > mem'.data.start)
<1>1. mem' \in Mems /\ now' \in Int /\ lastTick' \in Int /\ lastTick' <= now'
  <2>1. Typed'
    BY TypedNext
  <2>2. now' \in 1 .. MaxTime /\ lastTick' \in 1 .. now' /\ mem' \in Mems
    <3> HIDE DEF Mems
    <3> QED BY <2>1 DEF Typed
  <2> QED BY <2>2
<1>2. PICK m, n, last, total : m = mem' /\ n = now' /\ last = lastTick' /\ total = Counted'
  OBVIOUS
<1>3. total = IF m.running THEN Add(m.data.total, Span(m.data.start, n)) ELSE m.data.total
  BY <1>2 DEF Counted
<1>4. \A t : t \in Ticks(total) /\ t <= last <=>
               /\ t \in 1 .. MaxTime /\ t <= last
               /\ t \in Ticks(m.data.total) \/ (m.running /\ t > m.data.start)
  BY <1>1, <1>2, <1>3, CountsAre
<1>5. Owed' = {t \in Ticks(total) : t <= last}
  BY <1>2 DEF Owed
<1> QED BY <1>2, <1>4, <1>5

LEMMA SafeStays ==
  ASSUME NoneLost
  PROVE  \A d : Safe(d) \subseteq (Safe(d))'
  BY DEF Safe, NoneLost

\* Fewer ticks owed, and no slice less that is not accounted for.
LEMMA SurviveWider ==
  ASSUME SafeLine, Owed' \subseteq Owed, NoneLost, NEW T, T = Surviving'
  PROVE  Line(calls, disk.primary, "pause", T) /\ Surviving \subseteq T
<1>1. PICK S : S = Surviving
  OBVIOUS
<1>2. \A d : Safe(d) \subseteq (Safe(d))'
  BY SafeStays
<1>3. S \subseteq T
  <2>1. S = {d \in Data : Owed \subseteq Safe(d)} /\ T = {d \in Data : Owed' \subseteq (Safe(d))'}
    <3> HIDE DEF Data
    <3> QED BY <1>1 DEF Surviving, Safe
  <2> HIDE DEF Data
  <2> QED BY <1>2, <2>1
<1>4. Line(calls, disk.primary, "pause", S)
  BY <1>1 DEF SafeLine
<1> QED BY <1>1, <1>3, <1>4, LineWider

LEMMA SurviveFrom ==
  ASSUME NEW T, T = Surviving', Line(calls', disk'.primary, "pause", T)
  PROVE  SafeLine'
  BY DEF SafeLine

\* What is in memory survives: the slices of the running session are in the journal.
LEMMA MemSurvives ==
  ASSUME Typed, Control, AllPast, NEW d \in Data, d.total = mem.data.total, d.watermark = mem.data.watermark
  PROVE  d \in Surviving
<1>1. ASSUME NEW t \in Owed  PROVE t \in Safe(d)
  <2>1. t \in 1 .. MaxTime /\ t <= lastTick /\ (t \in Ticks(mem.data.total) \/ (mem.running /\ t > mem.data.start))
    BY <1>1, OwedIs
  <2>2. CASE t \in Ticks(mem.data.total)
    BY <2>2 DEF Safe
  <2>3. CASE mem.running /\ t > mem.data.start
    <3>1. mem.data.start \in Int /\ mem.data.watermark \in Int /\ mem.data.watermark <= mem.data.start
      BY <2>3, KeptAre, FieldsAre, Constants DEF AllPast
    <3>2. t > mem.data.watermark /\ t \in 1 .. now /\ mem.data.start < t
      BY <2>1, <2>3, <3>1, TimesAre
    <3>3. t \in Listed
      BY <2>1, <2>3, <3>2 DEF Control, Session
    <3> QED BY <3>2, <3>3 DEF Safe, Listed
  <2> QED BY <2>1, <2>2, <2>3
<1> QED BY <1>1 DEF Surviving

\* What has the total survives, when the session has begun since.
LEMMA TotalSurvives ==
  ASSUME Typed, [Next]_vars, NEW d \in Data, d.total = mem'.data.total, mem'.running => mem'.data.start >= lastTick',
         NEW T, T = Surviving'
  PROVE  d \in T
<1>0. mem' \in Mems /\ lastTick' \in Int
  <2>1. Typed'
    BY TypedNext
  <2>2. now' \in 1 .. MaxTime /\ lastTick' \in 1 .. now' /\ mem' \in Mems
    <3> HIDE DEF Mems
    <3> QED BY <2>1 DEF Typed
  <2> QED BY <2>2
<1>1. mem'.data.start \in Int
  <2>1. mem'.data \in Data
    <3> HIDE DEF Data
    <3> QED BY <1>0 DEF Mems
  <2> QED BY <2>1, FieldsAre, Constants
<1>2. \A t \in Owed' : t \in Ticks(d.total)
  <2> TAKE t \in Owed'
  <2>1. t \in 1 .. MaxTime /\ t <= lastTick' /\ (t \in Ticks(mem'.data.total) \/ (mem'.running /\ t > mem'.data.start))
    BY OwedThen
  <2>2. ~(mem'.running /\ t > mem'.data.start)
    BY <1>0, <1>1, <2>1
  <2> QED BY <2>1, <2>2
<1>3. Owed' \subseteq (Safe(d))'
  BY <1>2 DEF Safe
<1> HIDE DEF Data
<1> QED BY <1>3 DEF Surviving, Safe

\* Without an end to be saved, what is complete after a session survives.
LEMMA LineOther ==
  ASSUME NEW q, NEW stored, NEW S, Line(q, stored, "end", S),
         \A c \in Members(q) : c.kind = "end" => Head(c.todo) # "primary"
  PROVE  Line(q, stored, "pause", S)
<1>1. \A i : ~Followed(q, i, "end")
  BY DEF Followed, Members, Primary
<1> QED BY <1>1 DEF Line

LEMMA LineAlso ==
  ASSUME NEW q, NEW stored, NEW kind, NEW S, NEW R, Line(q, stored, kind, S),
         stored \in R, \A c \in Members(q) : c.data \in R
  PROVE  Line(q, stored, kind, S \intersect R)
<1>1. \A i \in DOMAIN q : q[i].data \in R
  BY DEF Members
<1> QED BY <1>1 DEF Line

LEMMA LineNone ==
  ASSUME NEW q, Members(q) = {}, NEW stored, NEW kind, NEW S, stored \in S
  PROVE  Line(q, stored, kind, S)
<1>1. \A i \in DOMAIN q : FALSE
  BY DEF Members
<1> QED BY <1>1 DEF Line

\* After the end of a session the truncations cost nothing.
LEMMA SurviveEnded ==
  ASSUME Typed, Control, AllComplete, [Next]_vars, Without({"primary"})', ~mem'.active, ~mem'.running,
         \A c \in Members(calls') : c.kind = "end" => Head(c.todo) # "primary"
  PROVE  SafeLine'
<1>1. Completeness'
  BY CompleteNext DEF AllComplete
<1>2. PICK S, T : S = Complete' /\ T = Surviving'
  OBVIOUS
<1>3. Line(calls', disk'.primary, "end", S)
  BY <1>1, <1>2 DEF Completeness
<1>4. Line(calls', disk'.primary, "pause", S)
  BY <1>3, LineOther
<1>5. S \subseteq T
  <2>1. Owed' \subseteq Ticks(mem'.data.total)
    BY OwedThen
  <2>2. Complete' = {d \in Data : Ticks(mem'.data.total) \subseteq Ticks(d.total)}
    <3> HIDE DEF Data
    <3> QED BY DEF Complete
  <2>3. Surviving' = {d \in Data : Owed' \subseteq (Safe(d))'}
    <3> HIDE DEF Data
    <3> QED BY DEF Surviving, Safe
  <2>4. \A d : Ticks(d.total) \subseteq (Safe(d))'
    BY DEF Safe
  <2> HIDE DEF Data
  <2> QED BY <1>2, <2>1, <2>2, <2>3, <2>4
<1>6. Line(calls', disk'.primary, "pause", T)
  BY <1>4, <1>5, LineWider
<1> QED BY <1>2, <1>6, SurviveFrom

\* A step that leaves what is counted, the heartbeats and the slices.
LEMMA OwedSame ==
  ASSUME Typed, [Next]_vars, mem' = mem, lastTick' = lastTick
  PROVE  Owed' \subseteq Owed
BY OwedIs, OwedThen

LEMMA SurviveIO ==
  ASSUME Typed, Control, AllPast, AllComplete, AllStarting, SafeLine, IO, Without({"primary", "truncate", "lateSave"})'
  PROVE  SafeLine'
<1>0. [Next]_vars /\ now' = now
  BY DEF IO, Next
<1>1. PICK i \in DOMAIN calls :
         \/ Read(i) \/ Clear(i) \/ SavePrimary(i) \/ SaveBackup(i) \/ PauseTruncates(i)
         \/ EndTruncates(i) \/ Settle(i) \/ EndFlushes(i)
  BY DEF IO
<1>2. PICK T : T = Surviving'
  OBVIOUS
<1>3. /\ mem.data \in Data /\ mem \in Mems /\ now \in 1 .. MaxTime /\ disk \in [primary : Data, backup : Data]
      /\ calls[i] \in Members(calls) /\ calls[i].data \in Data /\ ~Happens("primary") /\ ~Happens("truncate")
      /\ Without({"primary"})' /\ Without({"primary", "lateSave"})
  <2>1. ~Happens("primary") /\ ~Happens("truncate") /\ Without({"primary"})'
    BY DEF Happens, Without
  <2>2. Without({"primary", "lateSave"})
    BY <1>0, IncidentsGrow DEF Without
  <2> QED BY <2>1, <2>2, KeptAre, CallsAre DEF Typed
<1>4. ASSUME mem' = mem, lastTick' = lastTick, NoneLost
      PROVE  Line(calls, disk.primary, "pause", T) /\ Surviving \subseteq T
  BY <1>0, <1>2, <1>4, OwedSame, SurviveWider
<1>5. ASSUME mem' = mem, lastTick' = lastTick, NoneLost, disk'.primary = disk.primary, ~Primary(calls[i]),
             calls' = RemoveAt(calls, i) \/ \E op, d : op # "primary" /\ Goes(i, calls[i].kind, op, d)
      PROVE  SafeLine'
  <2>1. Line(calls, disk.primary, "pause", T)
    BY <1>4, <1>5
  <2>2. Line(calls', disk.primary, "pause", T)
    BY <1>5, <2>1, LineLeaves, LineGoes
  <2>3. Line(calls', disk'.primary, "pause", T)
    BY <1>5, <2>2
  <2> QED BY <1>2, <2>3, SurviveFrom
<1>6. CASE Read(i)
  <2>1. /\ mem' = mem /\ lastTick' = lastTick /\ NoneLost /\ disk' = disk /\ calls[i].kind = "start"
        /\ Head(calls[i].todo) = "read" /\ Goes(i, "start", "clear", Stamped(Recovered(Loaded)))
    BY <1>6, ReadIs, SlicesStay DEF InProcess
  <2>2. \E op, d : op # "primary" /\ Goes(i, calls[i].kind, op, d)
    BY <2>1
  <2> QED BY <1>5, <2>1, <2>2 DEF Primary
<1>7. CASE Clear(i)
  <2>1. mem' = mem /\ calls[i].kind = "start" /\ Goes(i, "start", "primary", calls[i].data)
    BY <1>7, ClearIs DEF InProcess
  <2>2. ~mem'.active /\ ~mem'.running /\ \A e \in Members(calls) : e.kind \in {"start", "save"}
    BY <2>1, InFlightMeans
  <2>3. \A c \in Members(calls') : c.kind # "end"
    <3>1. \A c \in Members(calls) : c.kind = "start"
      BY <1>3, <2>1 DEF AllStarting
    <3>2. PICK e \in CallRecords : calls' = Append(RemoveAt(calls, i), e) /\ e.kind = "start"
      BY <2>1 DEF Goes
    <3>3. RemoveAt(calls, i) \in Seq(CallRecords) /\ Members(RemoveAt(calls, i)) \subseteq Members(calls)
      BY RemovedIs, MembersOfRest DEF Typed
    <3>4. Members(calls') = Members(RemoveAt(calls, i)) \union {e}
      BY <3>2, <3>3, MembersWith
    <3> QED BY <3>1, <3>2, <3>3, <3>4
  <2> QED BY <1>0, <1>3, <2>2, <2>3, SurviveEnded
<1>8. CASE SavePrimary(i)
  <2>1. /\ Head(calls[i].todo) = "primary" /\ \A j \in 1 .. i - 1 : Head(calls[j].todo) # "primary"
        /\ mem' = mem /\ lastTick' = lastTick /\ NoneLost /\ disk' = [disk EXCEPT !.primary = calls[i].data]
        /\ calls' = RemoveAt(calls, i) \/ Goes(i, calls[i].kind, "backup", calls[i].data)
    BY <1>3, <1>8, SavePrimaryIs, SlicesStay DEF InProcess, Returns
  <2>2. disk'.primary = calls[i].data
    BY <1>3, <2>1, DiskIs
  <2>3. Line(calls, disk.primary, "pause", T)
    BY <1>4, <2>1
  <2>4. Line(calls', calls[i].data, "pause", T)
    BY <2>1, <2>3, LineSaves DEF Primary
  <2>5. Line(calls', disk'.primary, "pause", T)
    BY <2>2, <2>4
  <2> QED BY <1>2, <2>5, SurviveFrom
<1>9. CASE SaveBackup(i)
  <2>1. /\ Head(calls[i].todo) = "backup" /\ NoneLost
        /\ disk' = [disk EXCEPT !.backup = calls[i].data] \/ disk' = disk
        /\ \/ mem' = mem /\ lastTick' = lastTick /\ calls[i].kind = "end" /\ Goes(i, "end", "truncate", calls[i].data)
           \/ calls[i].kind = "start" /\ Starts(i)
           \/ mem' = mem /\ lastTick' = lastTick /\ calls' = RemoveAt(calls, i)
    BY <1>9, SaveBackupIs, SlicesStay DEF InProcess, Returns
  <2>2. disk'.primary = disk.primary
    BY <1>3, <2>1, DiskIs
  <2>3. CASE mem' = mem /\ lastTick' = lastTick
    <3>1. calls' = RemoveAt(calls, i) \/ \E op, d : op # "primary" /\ Goes(i, calls[i].kind, op, d)
      BY <2>1, <2>3 DEF Starts
    <3> QED BY <1>5, <2>1, <2>2, <2>3, <3>1 DEF Primary
  <2>4. CASE calls[i].kind = "start" /\ Starts(i)
    <3>1. /\ calls' = RemoveAt(calls, i) /\ mem'.data.total = calls[i].data.total /\ mem'.data.start = now
          /\ lastTick' = now
      BY <2>4 DEF Starts
    <3>2. disk.primary = calls[i].data /\ \A e \in Members(calls) : e.kind = "start"
      BY <1>3, <2>1, <2>4 DEF AllStarting
    <3>3. Members(calls') = {}
      <4>1. Members(calls') \subseteq Members(calls)
        BY <3>1, LeavesKeeps
      <4>2. Single(calls, "start")
        BY DEF Control, InOrder, Solo
      <4>3. \A c \in Members(calls') : c.kind # "start"
        BY <2>4, <3>1, <4>2, LeavesKeeps
      <4> QED BY <3>2, <4>1, <4>3
    <3>4. mem'.data.start >= lastTick' /\ disk.primary \in Data
      BY <1>3, <3>1, <3>2
    <3>5. PICK d \in Data : d = disk.primary
      BY <3>4
    <3>6. d.total = mem'.data.total
      BY <3>1, <3>2, <3>5
    <3>7. d \in T
      BY <1>0, <1>2, <3>4, <3>6, TotalSurvives
    <3>8. Line(calls', disk'.primary, "pause", T)
      BY <2>2, <3>3, <3>5, <3>7, LineNone
    <3> QED BY <1>2, <3>8, SurviveFrom
  <2> QED BY <2>1, <2>3, <2>4
<1>10. CASE PauseTruncates(i)
  <2>1. /\ mem' = mem /\ disk' = disk /\ calls[i].kind = "pause" /\ Head(calls[i].todo) = "truncate"
        /\ Goes(i, "pause", "primary", Stamped(mem.data))
    BY <1>3, <1>10, PauseTruncatesIs DEF InProcess
  <2>2. ~mem'.running
    BY <2>1, InFlightMeans DEF InPlace
  <2>3. PICK d : d = Stamped(mem.data)
    OBVIOUS
  <2>4. d \in Data /\ d.total = mem'.data.total
    BY <1>3, <2>1, <2>3, StampedIs
  <2>5. d \in T
    BY <1>0, <1>2, <2>2, <2>4, TotalSurvives
  <2>6. Line(calls', disk.primary, "pause", T)
    BY <2>1, <2>3, <2>5, LineGoesFrom
  <2>7. Line(calls', disk'.primary, "pause", T)
    BY <2>1, <2>6
  <2> QED BY <1>2, <2>7, SurviveFrom
<1>11. CASE EndTruncates(i)
  <2>1. /\ calls' = RemoveAt(calls, i) /\ calls[i].kind = "end" /\ Head(calls[i].todo) = "truncate"
        /\ mem'.active = mem.active /\ mem'.running = mem.running
    BY <1>11, EndTruncatesIs
  <2>2. ~mem.active /\ ~mem.running
    BY <2>1, InFlightMeans DEF InPlace, Control, Session
  <2>3. \A c \in Members(calls') : c.kind # "end"
    <3>1. Single(calls, "end")
      BY DEF Control, InOrder, Solo
    <3> QED BY <2>1, <3>1, LeavesKeeps
  <2> QED BY <1>0, <1>3, <2>1, <2>2, <2>3, SurviveEnded
<1>12. CASE Settle(i)
  <2>1. /\ mem' = mem /\ lastTick' = lastTick /\ NoneLost /\ disk' = disk /\ calls[i].kind = "end"
        /\ Head(calls[i].todo) = "settle"
        /\ Goes(i, "end", "flush", calls[i].data) \/ calls' = RemoveAt(calls, i)
    BY <1>12, SettleIs, SlicesStay
  <2>2. calls' = RemoveAt(calls, i) \/ \E op, d : op # "primary" /\ Goes(i, calls[i].kind, op, d)
    BY <2>1
  <2> QED BY <1>5, <2>1, <2>2 DEF Primary
<1>13. CASE EndFlushes(i)
  <2>1. /\ disk' = disk /\ lastTick' = lastTick /\ calls[i].kind = "end" /\ Head(calls[i].todo) = "flush"
        /\ NoneLost
        /\ \/ /\ mem' \in Mems /\ mem'.data = Halted(mem.data) /\ mem'.running = FALSE
              /\ Goes(i, "end", "primary", Stamped(EndData))
           \/ mem' = mem /\ calls' = RemoveAt(calls, i)
    BY <1>0, <1>13, EndFlushesIs DEF Appends
  <2>2. CASE mem' = mem /\ calls' = RemoveAt(calls, i)
    BY <1>5, <2>1, <2>2 DEF Primary
  <2>3. CASE /\ mem' \in Mems /\ mem'.data = Halted(mem.data) /\ mem'.running = FALSE
             /\ Goes(i, "end", "primary", Stamped(EndData))
    <3>1. PICK d : d = Stamped(EndData)
      OBVIOUS
    <3>2. d \in Data /\ d.total = mem'.data.total
      BY <1>3, <2>3, <3>1, EndDataIs, StampedIs
    <3>3. d \in T
      BY <1>0, <1>2, <2>3, <3>2, TotalSurvives
    <3>4. Owed' \subseteq Owed
      <4>1. ASSUME NEW t \in Ticks(mem'.data.total)
            PROVE  t \in Ticks(mem.data.total) \/ (mem.running /\ t > mem.data.start)
        <5>1. CASE mem.running
          <6>1. mem'.data.total = Add(mem.data.total, Span(mem.data.start, now))
            BY <1>3, <2>3, <5>1, HaltedIs
          <6>2. Ticks(mem'.data.total) = Ticks(mem.data.total) \union (Span(mem.data.start, now) \intersect 1 .. MaxTime)
            BY <1>3, <6>1, FieldsAre, AddIs
          <6>3. \A k \in Span(mem.data.start, now) : k > mem.data.start
            BY <1>3, FieldsAre, Constants DEF Span
          <6> QED BY <4>1, <5>1, <6>2, <6>3
        <5>2. CASE ~mem.running
          BY <1>3, <2>3, <4>1, <5>2, HaltedIs
        <5> QED BY <5>1, <5>2
      <4> QED BY <1>0, <2>1, <2>3, <4>1, OwedIs, OwedThen
    <3>5. Line(calls, disk.primary, "pause", T)
      BY <1>2, <2>1, <3>4, SurviveWider
    <3>6. Line(calls', disk.primary, "pause", T)
      BY <2>1, <2>3, <3>1, <3>3, <3>5, LineGoes DEF Primary
    <3>7. Line(calls', disk'.primary, "pause", T)
      BY <2>1, <3>6
    <3> QED BY <1>2, <3>7, SurviveFrom
  <2> QED BY <2>1, <2>2, <2>3
<1> QED BY <1>1, <1>6, <1>7, <1>8, <1>9, <1>10, <1>11, <1>12, <1>13

\* What is issued while what is counted stays as it is.
LEMMA SurviveIssues ==
  ASSUME Typed, SafeLine, Owed' \subseteq Owed, NoneLost, disk' = disk, NEW T, T = Surviving',
         NEW kind, NEW op, NEW d, Issues(kind, op, d), op = "primary" => d \in T
  PROVE  SafeLine'
<1>1. Line(calls, disk.primary, "pause", T)
  BY SurviveWider
<1>2. Line(calls', disk.primary, "pause", T)
  BY <1>1, LineIssues
<1>3. Line(calls', disk'.primary, "pause", T)
  BY <1>2
<1> QED BY <1>3, SurviveFrom

LEMMA SurviveUnissued ==
  ASSUME Typed, SafeLine, Owed' \subseteq Owed, NoneLost, disk' = disk, calls' = calls
  PROVE  SafeLine'
<1>1. PICK T : T = Surviving'
  OBVIOUS
<1>2. Line(calls, disk.primary, "pause", T)
  BY <1>1, SurviveWider
<1>3. Line(calls', disk'.primary, "pause", T)
  BY <1>2
<1> QED BY <1>1, <1>3, SurviveFrom

LEMMA SurviveIdle ==
  ASSUME Typed, Control, AllPast, SafeLine, IdlePause \/ IdleResume
  PROVE  SafeLine'
<1>0. [Next]_vars /\ mem.data \in Data /\ now \in Int /\ lastTick \in Int /\ lastTick <= now
      /\ mem.data.start \in Int /\ mem.data.total \in Totals
  <2>1. [Next]_vars
    BY DEF Next
  <2> QED BY <2>1, KeptAre, TimesAre, FieldsAre, Constants
<1>1. UNCHANGED <<now, lastTick, buffer, file, openLine, uncovered, disk>>
  BY IdlePauseIs, IdleResumeIs
<1>2. NoneLost
  BY <1>1, SlicesStay
<1>3. PICK T : T = Surviving'
  OBVIOUS
<1>4. CASE UNCHANGED <<mem, calls>>
  BY <1>0, <1>1, <1>2, <1>4, OwedSame, SurviveUnissued
<1>5. CASE IdlePause /\ ~ UNCHANGED <<mem, calls>>
  <2>1. PICK idleStart \in 1 .. lastTick :
           /\ Issues("pause", "truncate", EmptyData) /\ mem'.running = FALSE
           /\ mem.running => mem'.data.total = Add(mem.data.total, Span(mem.data.start, CutAt(idleStart)))
           /\ ~mem.running => mem'.data.total = mem.data.total
    BY <1>5, IdlePauseIs
  <2>2. Owed' \subseteq Owed
    <3>1. ASSUME NEW t \in Ticks(mem'.data.total)
          PROVE  t \in Ticks(mem.data.total) \/ (mem.running /\ t > mem.data.start)
      <4>1. CASE mem.running
        <5>1. Ticks(mem'.data.total) =
                Ticks(mem.data.total) \union (Span(mem.data.start, CutAt(idleStart)) \intersect 1 .. MaxTime)
          BY <1>0, <2>1, <4>1, AddIs
        <5>2. CutAt(idleStart) \in Int
          BY <1>0 DEF CutAt
        <5>3. \A k \in Span(mem.data.start, CutAt(idleStart)) : k > mem.data.start
          BY <1>0, <5>2 DEF Span
        <5> QED BY <3>1, <4>1, <5>1, <5>3
      <4>2. CASE ~mem.running
        BY <2>1, <3>1, <4>2
      <4> QED BY <4>1, <4>2
    <3> QED BY <1>0, <1>1, <2>1, <3>1, OwedIs, OwedThen
  <2> QED BY <1>1, <1>2, <1>3, <2>1, <2>2, SurviveIssues
<1>6. CASE IdleResume /\ ~ UNCHANGED <<mem, calls>>
  <2>1. /\ Issues("resume", "primary", Stamped(mem'.data)) /\ mem' \in Mems
        /\ mem'.data.total = mem.data.total /\ mem'.data.start = now
    BY <1>6, IdleResumeIs
  <2>2. Owed' \subseteq Owed
    <3>1. \A t \in 1 .. MaxTime : t <= lastTick => ~(t > now)
      BY <1>0
    <3> QED BY <1>0, <1>1, <2>1, <3>1, OwedIs, OwedThen
  <2>3. PICK d : d = Stamped(mem'.data)
    OBVIOUS
  <2>4. d \in Data /\ d.total = mem'.data.total
    <3>1. mem'.data \in Data
      <4> HIDE DEF Data
      <4> QED BY <2>1 DEF Mems
    <3> QED BY <2>3, <3>1, StampedIs DEF Typed
  <2>5. d \in T
    BY <1>0, <1>1, <1>3, <2>1, <2>4, TotalSurvives
  <2> QED BY <1>1, <1>2, <1>3, <2>1, <2>2, <2>3, <2>5, SurviveIssues
<1> QED BY <1>4, <1>5, <1>6

\* What the heartbeat of now adds is owed from now on: it has a slice in memory, after
\* all that is stored, or has none.
LEMMA SurviveTick ==
  ASSUME Typed, Control, Recent, SafeLine, [Next]_vars, beatDue, lastTick' = now, NoneLost, NEW T, T = Surviving',
         \A t \in Owed' : \/ t \in Owed \/ t \in uncovered'
                          \/ t = now /\ mem.running /\ mem.data.start # now /\ now \in Slices'
  PROVE  Line(calls, disk.primary, "pause", T)
<1>1. PICK S, R : S = Surviving /\ R = {d \in Data : mem.running /\ mem.data.start # now => d.watermark <= lastTick}
  OBVIOUS
<1>2. disk.primary \in R /\ \A c \in Members(calls) : c.data \in R
  BY <1>1, KeptAre DEF Recent
<1>3. Line(calls, disk.primary, "pause", S \intersect R)
  <2>1. Line(calls, disk.primary, "pause", S)
    BY <1>1 DEF SafeLine
  <2> QED BY <1>2, <2>1, LineAlso
<1>4. ASSUME NEW d \in Data, Owed \subseteq Safe(d), mem.running /\ mem.data.start # now => d.watermark <= lastTick,
             NEW t \in Owed'
      PROVE  t \in (Safe(d))'
  <2>1. CASE t \in Owed
    <3>1. t \in Safe(d)
      BY <1>4, <2>1
    <3> QED BY <3>1, SafeStays
  <2>2. CASE t = now /\ mem.running /\ mem.data.start # now /\ now \in Slices'
    <3>1. lastTick < now /\ lastTick \in Int /\ now \in Int /\ d.watermark \in Int
      BY TimesAre, FieldsAre, Constants DEF Control, Session
    <3>2. now > d.watermark
      BY <1>4, <2>2, <3>1
    <3> QED BY <2>2, <3>2 DEF Safe
  <2>3. CASE t \in uncovered'
    BY <2>3 DEF Safe
  <2> QED BY <2>1, <2>2, <2>3
<1>5. S \intersect R \subseteq T
  <2>1. S = {d \in Data : Owed \subseteq Safe(d)} /\ T = {d \in Data : Owed' \subseteq (Safe(d))'}
    <3> HIDE DEF Data
    <3> QED BY <1>1 DEF Surviving, Safe
  <2> HIDE DEF Data
  <2> QED BY <1>1, <1>4, <2>1
<1> QED BY <1>3, <1>5, LineWider

\* What a heartbeat moves: nothing is owed but what was owed, what the session that
\* ends has added, and what the one that begins has from its start on.
LEMMA MovedOwes ==
  ASSUME Typed, [Next]_vars, lastTick' = now, NEW end \in Int, NEW at \in Int, Moves(end, at)
  PROVE  /\ mem' \in Mems /\ mem'.data.watermark = at
         /\ \A t \in Owed' :
              /\ t \in 1 .. MaxTime /\ t <= now
              /\ \/ t \in Ticks(mem.data.total)
                 \/ mem.running /\ t > mem.data.start /\ t <= end
                 \/ mem.running /\ t > at
              /\ t \in Ticks(mem'.data.total) \/ (mem.running /\ t > at)
<1>1. /\ mem' \in Mems /\ mem'.running = mem.running /\ mem'.data.watermark = at
      /\ mem.running => /\ mem'.data.total = Add(mem.data.total, Span(mem.data.start, end))
                        /\ mem'.data.start = at
      /\ ~mem.running => mem'.data.total = mem.data.total
  BY DEF Moves
<1>2. mem.data \in Data /\ mem.data.total \in Totals /\ mem.data.start \in Int
  BY KeptAre, FieldsAre, Constants
<1>3. \A t \in Owed' : /\ t \in 1 .. MaxTime /\ t <= now
                       /\ t \in Ticks(mem'.data.total) \/ (mem.running /\ t > at)
  BY <1>1, OwedThen
<1>4. \A t \in Ticks(mem'.data.total) :
         t \in Ticks(mem.data.total) \/ (mem.running /\ t > mem.data.start /\ t <= end)
  <2>1. CASE mem.running
    <3>1. Ticks(mem'.data.total) = Ticks(mem.data.total) \union (Span(mem.data.start, end) \intersect 1 .. MaxTime)
      BY <1>1, <1>2, <2>1, AddIs
    <3>2. \A k \in Span(mem.data.start, end) : k > mem.data.start /\ k <= end
      BY <1>2 DEF Span
    <3> QED BY <2>1, <3>1, <3>2
  <2>2. CASE ~mem.running
    BY <1>1, <2>2
  <2> QED BY <2>1, <2>2
<1> QED BY <1>1, <1>3, <1>4

LEMMA SurviveHeartbeat ==
  ASSUME Typed, Control, AllPast, Recent, SafeLine, Heartbeat
  PROVE  SafeLine'
<1>0. [Next]_vars /\ mem.data \in Data /\ now \in Int /\ lastTick \in Int /\ lastTick < now
      /\ mem.data.start \in Int /\ mem.data.total \in Totals
  <2>1. [Next]_vars
    BY DEF Next
  <2>2. lastTick < now
    BY HeartbeatIs DEF Control, Session
  <2> QED BY <2>1, <2>2, KeptAre, TimesAre, FieldsAre, Constants
<1>1. /\ disk' = disk /\ UNCHANGED <<now, file, openLine>> /\ beatDue = TRUE /\ lastTick' = now
      /\ \/ /\ Moves(lastTick, now) /\ Issues("wake", "primary", Stamped(mem'.data))
            /\ UNCHANGED <<buffer, uncovered>>
         \/ \E at \in 1 .. now :
              /\ lastTick < at /\ Moves(at, at) /\ Issues("rotate", "primary", Stamped(mem'.data))
              /\ Pushed(Span(at, mem.data.start))
         \/ UNCHANGED <<mem, calls>> /\ Pushed({})
  BY HeartbeatIs
<1>2. \A w : Pushed(w) => NoneLost
  BY <1>1, NoneLostBeat
<1>3. PICK T : T = Surviving'
  OBVIOUS
<1>4. \A t \in Ticks(mem.data.total) : t <= lastTick
  BY <1>1 DEF AllPast, Past, Reach
<1>5. ASSUME NEW kind, NEW d \in Data, d \in T, Issues(kind, "primary", d), Line(calls, disk.primary, "pause", T)
      PROVE  SafeLine'
  <2>1. Line(calls', disk.primary, "pause", T)
    BY <1>5, LineIssues
  <2>2. Line(calls', disk'.primary, "pause", T)
    BY <1>1, <2>1
  <2> QED BY <1>3, <2>2, SurviveFrom
<1>6. ASSUME mem' \in Mems
      PROVE  \E d \in Data : d = Stamped(mem'.data) /\ d.total = mem'.data.total /\ d.watermark = mem'.data.watermark
  <2>1. PICK d : d = Stamped(mem'.data)
    OBVIOUS
  <2>2. mem'.data \in Data
    <3> HIDE DEF Data
    <3> QED BY <1>6 DEF Mems
  <2>3. d \in Data /\ d.total = mem'.data.total /\ d.watermark = mem'.data.watermark
    BY <2>1, <2>2, StampedIs DEF Typed
  <2> QED BY <2>1, <2>3
<1>7. CASE /\ Moves(lastTick, now) /\ Issues("wake", "primary", Stamped(mem'.data))
           /\ UNCHANGED <<buffer, uncovered>>
  <2>1. /\ mem' \in Mems
        /\ \A t \in Owed' : /\ t \in 1 .. MaxTime /\ t <= now
                            /\ \/ t \in Ticks(mem.data.total)
                               \/ mem.running /\ t > mem.data.start /\ t <= lastTick
                               \/ mem.running /\ t > now
    BY <1>0, <1>1, <1>7, MovedOwes
  <2>2. Owed' \subseteq Owed
    <3> SUFFICES ASSUME NEW t \in Owed'  PROVE t \in Owed
      OBVIOUS
    <3>1. t \in 1 .. MaxTime /\ ~(t > now)
      BY <1>0, <2>1
    <3>2. t \in Ticks(mem.data.total) \/ (mem.running /\ t > mem.data.start /\ t <= lastTick)
      BY <2>1, <3>1
    <3> QED BY <1>4, <3>1, <3>2, OwedIs
  <2>3. Line(calls, disk.primary, "pause", T)
    BY <1>1, <1>3, <1>7, <2>2, SlicesStay, SurviveWider
  <2>4. PICK d \in Data : d = Stamped(mem'.data) /\ d.total = mem'.data.total
    BY <1>6, <2>1
  <2>5. mem'.running => mem'.data.start >= lastTick'
    BY <1>0, <1>1, <1>7 DEF Moves
  <2>6. d \in T
    BY <1>0, <1>3, <2>4, <2>5, TotalSurvives
  <2> QED BY <1>5, <1>7, <2>3, <2>4, <2>6
<1>8. CASE \E at \in 1 .. now :
             /\ lastTick < at /\ Moves(at, at) /\ Issues("rotate", "primary", Stamped(mem'.data))
             /\ Pushed(Span(at, mem.data.start))
  <2>1. PICK at \in 1 .. now :
           /\ lastTick < at /\ Moves(at, at) /\ Issues("rotate", "primary", Stamped(mem'.data))
           /\ Pushed(Span(at, mem.data.start))
    BY <1>8
  <2>2. /\ at \in Int /\ at <= now /\ mem' \in Mems /\ mem'.data.watermark = at
        /\ \A t \in Owed' : /\ t \in 1 .. MaxTime /\ t <= now
                            /\ \/ t \in Ticks(mem.data.total)
                               \/ mem.running /\ t > mem.data.start /\ t <= at
                               \/ mem.running /\ t > at
                            /\ t \in Ticks(mem'.data.total) \/ (mem.running /\ t > at)
    <3>1. at \in Int /\ at <= now
      BY <1>0
    <3> QED BY <1>0, <1>1, <2>1, <3>1, MovedOwes
  <2>3. mem.running => /\ ~mem.paused /\ now \in Slices'
                       /\ \A t \in Int : lastTick < t /\ t < now => t \in uncovered'
                       /\ \A t \in Int : at < t /\ t <= mem.data.start => t \in uncovered'
                       /\ \A t \in 1 .. now : lastTick < t => t \in Listed'
    <3> SUFFICES ASSUME mem.running
                 PROVE  /\ ~mem.paused /\ now \in Slices'
                        /\ \A t \in Int : lastTick < t /\ t < now => t \in uncovered'
                        /\ \A t \in Int : at < t /\ t <= mem.data.start => t \in uncovered'
                        /\ \A t \in 1 .. now : lastTick < t => t \in Listed'
      OBVIOUS
    <3>1. ~mem.paused
      BY DEF Control, Session
    <3>2. uncovered' = uncovered \union Span(lastTick, now - 1) \union Span(at, mem.data.start)
      BY <2>1, <3>1 DEF Pushed
    <3>3. Slices' = Slices \union {now} /\ \A t \in 1 .. now : lastTick < t => t \in Listed'
      BY <1>1, <2>1, <3>1, ListedBeat
    <3> QED BY <1>0, <2>2, <3>1, <3>2, <3>3 DEF Span
  <2>4. ASSUME NEW t \in Owed'
        PROVE  \/ t \in Owed \/ t \in uncovered'
               \/ t = now /\ mem.running /\ mem.data.start # now /\ now \in Slices'
    <3>1. CASE t <= lastTick
      <4>1. t \in Ticks(mem.data.total) \/ (mem.running /\ t > mem.data.start)
        BY <1>0, <2>1, <2>2, <2>4, <3>1
      <4> QED BY <2>2, <2>4, <3>1, <4>1, OwedIs
    <3>2. CASE ~(t <= lastTick)
      <4>1. mem.running /\ t \in Int /\ t <= now /\ lastTick < t /\ (t > mem.data.start \/ t > at)
        BY <1>0, <1>4, <2>2, <2>4, <3>2
      <4>2. CASE t < now
        BY <2>3, <4>1, <4>2
      <4>3. CASE t = now /\ mem.data.start # now
        BY <2>3, <4>1, <4>3
      <4>4. CASE t = now /\ mem.data.start = now
        <5>1. at < now
          BY <1>0, <4>1, <4>4
        <5> QED BY <1>0, <2>3, <4>1, <4>4, <5>1
      <4> QED BY <1>0, <4>1, <4>2, <4>3, <4>4
    <3> QED BY <3>1, <3>2
  <2>5. Line(calls, disk.primary, "pause", T)
    BY <1>0, <1>1, <1>2, <1>3, <2>1, <2>4, SurviveTick
  <2>6. PICK d \in Data : d = Stamped(mem'.data) /\ d.total = mem'.data.total /\ d.watermark = at
    BY <1>6, <2>2
  <2>7. d \in T
    <3>1. ASSUME NEW t \in Owed'  PROVE t \in (Safe(d))'
      <4>1. CASE t \in Ticks(mem'.data.total)
        BY <2>6, <4>1 DEF Safe
      <4>2. CASE mem.running /\ t > at
        <5>1. t \in 1 .. now /\ lastTick < t
          BY <1>0, <2>1, <2>2, <3>1, <4>2
        <5>2. t \in Listed'
          BY <2>3, <4>2, <5>1
        <5>3. t \in Slices' \/ t \in uncovered'
          BY <5>2 DEF Listed
        <5> QED BY <2>6, <4>2, <5>3 DEF Safe
      <4> QED BY <2>2, <3>1, <4>1, <4>2
    <3>2. Surviving' = {e \in Data : Owed' \subseteq (Safe(e))'}
      <4> HIDE DEF Data
      <4> QED BY DEF Surviving, Safe
    <3> HIDE DEF Data
    <3> QED BY <1>3, <2>6, <3>1, <3>2
  <2> QED BY <1>5, <2>1, <2>5, <2>6, <2>7
<1>9. CASE UNCHANGED <<mem, calls>> /\ Pushed({})
  <2>1. \A t \in Owed' : /\ t \in 1 .. MaxTime /\ t <= now
                         /\ t \in Ticks(mem.data.total) \/ (mem.running /\ t > mem.data.start)
    BY <1>0, <1>1, <1>9, OwedThen
  <2>2. ASSUME NEW t \in Owed'
        PROVE  \/ t \in Owed \/ t \in uncovered'
               \/ t = now /\ mem.running /\ mem.data.start # now /\ now \in Slices'
    <3>1. CASE t <= lastTick
      BY <2>1, <2>2, <3>1, OwedIs
    <3>2. CASE ~(t <= lastTick)
      <4>1. mem.running /\ t > mem.data.start /\ t \in Int /\ t <= now /\ lastTick < t
        BY <1>0, <1>4, <2>1, <2>2, <3>2
      <4>2. ~mem.paused
        BY <4>1 DEF Control, Session
      <4>3. uncovered' = uncovered \union Span(lastTick, now - 1) \union {} /\ Slices' = Slices \union {now}
        BY <1>1, <1>9, <4>2, ListedBeat DEF Pushed
      <4>4. CASE t < now
        BY <1>0, <4>1, <4>3, <4>4 DEF Span
      <4>5. CASE t = now
        BY <1>0, <4>1, <4>3, <4>5
      <4> QED BY <1>0, <4>1, <4>4, <4>5
    <3> QED BY <3>1, <3>2
  <2>3. Line(calls, disk.primary, "pause", T)
    BY <1>0, <1>1, <1>2, <1>3, <1>9, <2>2, SurviveTick
  <2>4. Line(calls', disk'.primary, "pause", T)
    BY <1>1, <1>9, <2>3
  <2> QED BY <1>3, <2>4, SurviveFrom
<1> QED BY <1>1, <1>7, <1>8, <1>9

\* A save of what is in memory is issued.
LEMMA SurviveSaved ==
  ASSUME Typed, Control, AllPast, SafeLine, [Next]_vars, NEW kind, Issues(kind, "primary", Stamped(mem.data)),
         mem' = mem, disk' = disk, lastTick' = lastTick, NoneLost
  PROVE  SafeLine'
<1>1. PICK T : T = Surviving'
  OBVIOUS
<1>2. Owed' \subseteq Owed
  BY OwedSame
<1>3. PICK d : d = Stamped(mem.data)
  OBVIOUS
<1>4. d \in Data /\ d.total = mem.data.total /\ d.watermark = mem.data.watermark
  BY <1>3, KeptAre, StampedIs DEF Typed
<1>5. d \in Surviving
  BY <1>4, MemSurvives
<1>6. d \in T
  BY <1>1, <1>2, <1>5, SurviveWider
<1> QED BY <1>1, <1>2, <1>3, <1>6, SurviveIssues

\* The process is gone, and owes nothing that it has not counted.
LEMMA SurviveCrash ==
  ASSUME Typed, Crash
  PROVE  SafeLine'
<1>0. [Next]_vars
  BY DEF Next
<1>1. mem' = NewMem /\ calls' = <<>> /\ disk' = disk
  BY DEF Crash
<1>2. Ticks(mem'.data.total) = {} /\ ~mem'.running
  BY <1>1, MemIs, DataIs, NoTimeIs DEF Typed
<1>3. Owed' = {}
  <2>1. \A t : t \notin Owed'
    BY <1>0, <1>2, OwedThen
  <2> QED BY <2>1
<1>4. PICK T : T = Surviving'
  OBVIOUS
<1>5. disk.primary \in T
  <2>1. Surviving' = {e \in Data : Owed' \subseteq (Safe(e))'}
    <3> HIDE DEF Data
    <3> QED BY DEF Surviving, Safe
  <2>2. disk.primary \in Data
    BY KeptAre
  <2> HIDE DEF Data
  <2> QED BY <1>3, <1>4, <2>1, <2>2
<1>6. Line(calls', disk'.primary, "pause", T)
  BY <1>1, <1>5, LineEmpty
<1> QED BY <1>4, <1>6, SurviveFrom

LEMMA SurviveNext ==
  ASSUME Typed, Control, AllPast, AllComplete, AllStarting, Recent, AllSurvive, [Next]_vars
  PROVE  AllSurvive'
<1> SUFFICES ASSUME Without({"primary", "truncate", "lateSave"})'  PROVE SafeLine'
  BY DEF AllSurvive
<1>1. SafeLine
  BY IncidentsGrow DEF AllSurvive, Without
<1>2. CASE IO
  BY <1>1, <1>2, SurviveIO
<1>3. CASE Start \/ Stop
  <2>1. UNCHANGED <<mem, lastTick, buffer, file, openLine, uncovered, disk>>
    BY <1>3, StartIs, StopIs
  <2>2. PICK kind, op : op # "primary" /\ Issues(kind, op, EmptyData)
    BY <1>3, StartIs, StopIs
  <2>3. Owed' \subseteq Owed /\ NoneLost
    BY <2>1, OwedSame, SlicesStay
  <2>4. PICK T : T = Surviving'
    OBVIOUS
  <2> QED BY <1>1, <2>1, <2>2, <2>3, <2>4, SurviveIssues
<1>4. CASE Checkpoint \/ SaveNow
  <2>1. PICK kind \in {"checkpoint", "save"} : Issue(Save(kind, mem.data))
    BY <1>4 DEF Checkpoint, SaveNow
  <2>2. UNCHANGED <<mem, lastTick, buffer, file, openLine, uncovered, disk>>
    BY <1>4 DEF Checkpoint, SaveNow, clock, journal, storage
  <2>3. Issues(kind, "primary", Stamped(mem.data)) /\ NoneLost
    BY <2>1, <2>2, SaveIssued, SlicesStay
  <2> QED BY <1>1, <2>2, <2>3, SurviveSaved
<1>5. CASE Flush \/ AdvanceClock \/ UNCHANGED vars
  <2>1. CASE Flush
    BY <1>1, <2>1, FlushIs, OwedSame, SurviveUnissued DEF Appends
  <2>2. CASE AdvanceClock \/ UNCHANGED vars
    <3>1. UNCHANGED <<mem, lastTick, disk, calls, buffer, file, openLine, uncovered>>
      BY <2>2 DEF AdvanceClock, vars, clock, journal, storage
    <3> QED BY <1>1, <3>1, SlicesStay, OwedSame, SurviveUnissued
  <2> QED BY <1>5, <2>1, <2>2
<1>6. CASE IdlePause \/ IdleResume
  BY <1>1, <1>6, SurviveIdle
<1>7. CASE Heartbeat
  BY <1>1, <1>7, SurviveHeartbeat
<1>8. CASE Crash
  BY <1>8, SurviveCrash
<1> QED BY <1>2, <1>3, <1>4, <1>5, <1>6, <1>7, <1>8 DEF Next

LEMMA SurviveInit ==
  ASSUME Init
  PROVE  AllSurvive
<1>1. Typed
  BY TypedInit
<1>2. mem = NewMem /\ calls = <<>>
  BY DEF Init
<1>3. Ticks(mem.data.total) = {} /\ ~mem.running
  BY <1>1, <1>2, MemIs, DataIs, NoTimeIs DEF Typed
<1>4. \A t : t \notin Owed
  BY <1>1, <1>3, OwedIs
<1>5. disk.primary \in Surviving
  <2>1. disk.primary \in Data
    BY <1>1, KeptAre
  <2> HIDE DEF Data
  <2> QED BY <1>4, <2>1 DEF Surviving
<1> QED BY <1>2, <1>5, LineEmpty DEF AllSurvive, SafeLine

\* What the next process loads is as good as what is stored.
LEMMA LoadedIs ==
  ASSUME Typed, disk.primary = Missing => disk.backup = Missing
  PROVE  Loaded \in Data /\ Loaded.total = disk.primary.total /\ Loaded.watermark = disk.primary.watermark
<1>1. Loaded \in Data
  BY DiskIs DEF Typed
<1>2. CASE disk.primary # Missing
  BY <1>1, <1>2 DEF Loaded
<1>3. CASE disk.primary = Missing
  <2>1. Loaded = EmptyData
    BY <1>3 DEF Loaded
  <2> QED BY <1>1, <1>3, <2>1, DataIs
<1> QED BY <1>2, <1>3

LEMMA CrashCosts ==
  ASSUME Typed, AllWritten, AllStarting, AllSurvive
  PROVE  CrashCostsOnlySlicesInMemory
<1> SUFFICES ASSUME Without({"primary", "truncate", "lateSave"}), ~Exposed
             PROVE  WorkSurvivesCrash /\ RecoverySurvivesCrash
  BY DEF CrashCostsOnlySlicesInMemory
<1>1. Without({"primary"}) /\ Without({"primary", "lateSave"})
  BY DEF Without
<1>2. WorkSurvivesCrash
  <2>1. disk.primary \in Surviving
    <3>1. ~Followed(calls, 0, "pause")
      BY DEF Followed, Primary, Exposed
    <3> QED BY <3>1 DEF AllSurvive, SafeLine, Line
  <2>2. Loaded \in Data /\ Loaded.total = disk.primary.total /\ Loaded.watermark = disk.primary.watermark
    BY <1>1, LoadedIs DEF AllWritten
  <2>3. Ticks(Loaded.total) \subseteq Ticks(Restored) /\ Replay(Loaded) \subseteq Ticks(Restored)
    BY <2>2, RecoveredKeeps DEF Restored
  <2>4. ASSUME NEW t \in Ticks(Counted), t \in 1 .. lastTick, t \notin buffer \union uncovered
        PROVE  t \in Ticks(Restored)
    <3>1. t \in Owed
      BY <2>4, TimesAre DEF Owed
    <3>2. t \in Safe(disk.primary)
      <4> HIDE DEF Data
      <4> QED BY <2>1, <3>1 DEF Surviving
    <3>3. t \in Ticks(Loaded.total) \/ t \in Replay(Loaded)
      <4>1. t \in Ticks(disk.primary.total) \/ (t \in Slices /\ t > disk.primary.watermark)
        BY <2>4, <3>2 DEF Safe
      <4>2. Slices = buffer \union Filed
        BY FilingIs
      <4> QED BY <2>2, <2>4, <4>1, <4>2 DEF Replay
    <3> QED BY <2>3, <3>3
  <2> QED BY <2>4 DEF WorkSurvivesCrash
<1>3. ASSUME NEW i \in DOMAIN calls, calls[i].kind = "start", Head(calls[i].todo) # "read"
      PROVE  Ticks(calls[i].data.total) \subseteq Ticks(Restored)
  <2>1. /\ calls[i] \in Members(calls) /\ calls[i] \in CallRecords
        /\ Head(calls[i].todo) = "clear" => calls[i].data.total = Restored
        /\ Head(calls[i].todo) = "backup" => disk.primary = calls[i].data
    BY <1>1, <1>3, CallsAre DEF AllStarting
  <2>2. Head(calls[i].todo) \in {"clear", "primary", "backup"}
    BY <1>3, <2>1, Stage
  <2>3. Head(calls[i].todo) # "primary"
    BY <1>3 DEF Exposed
  <2>4. CASE Head(calls[i].todo) = "clear"
    BY <2>1, <2>4
  <2>5. CASE Head(calls[i].todo) = "backup"
    <3>1. disk.primary # Missing
      BY <1>1, <2>1, <2>5 DEF AllWritten
    <3> QED BY <2>1, <2>5, <3>1, RestoredFrom
  <2> QED BY <2>2, <2>3, <2>4, <2>5
<1> QED BY <1>2, <1>3 DEF RecoverySurvivesCrash

-----------------------------------------------------------------------------
(* The theorems.                                                           *)

\* The inductive invariant: types; which calls are in flight when; no data from the
\* future; no line repeated but what a failed append has left (Filing); no tick counted
\* twice but those (AllClean), none that stop loses (AllComplete), none with a slice in
\* the file that a crash loses (AllSurvive), and what those three rest on.
IInv ==
  /\ Typed /\ Control /\ AllPast /\ Filing /\ AllClean /\ AllComplete
  /\ Recent /\ AllWritten /\ AllStarting /\ AllSurvive

\* The invariant holds of every behaviour: for every bound, every set of days and
\* incidents, any length of sleeps and stalls, and any number of crashes.
THEOREM Invariance == Spec => []IInv
<1>1. Init => IInv
  BY TypedInit, ControlInit, PastInit, FilingInit, CleanInit, CompleteInit, RecentInit, WrittenInit, StartingInit,
     SurviveInit DEF IInv
<1>2. IInv /\ [Next]_vars => IInv'
  <2> SUFFICES ASSUME IInv, [Next]_vars  PROVE IInv'
    OBVIOUS
  <2>0. /\ Typed /\ Control /\ AllPast /\ Filing /\ AllClean /\ AllComplete
        /\ Recent /\ AllWritten /\ AllStarting /\ AllSurvive
    BY DEF IInv
  <2>1. Typed' /\ Control' /\ AllPast' /\ Filing'
    BY <2>0, TypedNext, ControlNext, PastNext, FilingNext
  <2>2. AllClean' /\ AllComplete'
    BY <2>0, CleanNext, CompleteNext
  <2>3. Recent' /\ AllWritten' /\ AllStarting'
    BY <2>0, RecentNext, WrittenNext, StartingNext
  <2>4. AllSurvive'
    BY <2>0, SurviveNext
  <2> QED BY <2>1, <2>2, <2>3, <2>4 DEF IInv
<1> QED BY <1>1, <1>2, PTL DEF Spec

\* Every variable keeps its type, and every call in flight has something to do.
THEOREM TypeCorrectness == Spec => []TypeOK
<1>1. IInv => TypeOK
  BY TypedIsTypeOK DEF IInv
<1> QED BY <1>1, Invariance, PTL

\* Journal replay restores without counting a tick twice, whenever the process is
\* killed and whichever operation fails, apart from the slices that an append had
\* written when it failed and wrote again, unless a pause is dated from before the
\* watermark or a command saves outside a session.
THEOREM ReplayNeverCountsTwice == Spec => []NoDoubleCounting
<1>1. IInv => NoDoubleCounting
  BY CleanCounts DEF IInv
<1> QED BY <1>1, Invariance, PTL

\* Outside the windows between a truncation of the journal and the save behind it, a
\* crash costs the slices in memory, what came after the last heartbeat and what has
\* no slice: the seconds of a stall but for the last one, those a late rotation adds
\* before the start of the session, and lines that an unfinished line has spoilt.  A
\* crash during recovery costs nothing that the recovery has restored.
THEOREM CrashCostsLittle == Spec => []CrashCostsOnlySlicesInMemory
<1>1. IInv => CrashCostsOnlySlicesInMemory
  BY CrashCosts DEF IInv
<1> QED BY <1>1, Invariance, PTL

\* stop, once it has returned, has stored all that was counted, as long as
\* workspaceState could be written.
THEOREM StopStoresEverything == Spec => []StopLosesNothingUnlessPrimaryFails
<1>1. IInv => StopLosesNothingUnlessPrimaryFails
  BY CompleteStop DEF IInv
<1> QED BY <1>1, Invariance, PTL

=============================================================================

-------------------------- MODULE CasBackendProofs --------------------------
(* The properties of the block store, for any blocks, processes, crashes and *)
(* losses of power: a put fails only when the system refuses it something or *)
(* another put of the same block was in progress with it; what a put has reported stored can be read; and no   *)
(* read goes in circles.                                                     *)
(*                                                                           *)
(* The last two need that a chain is the least closed set with its block,    *)
(* by induction and because a trail that adds no block has closed, and that  *)
(* all that anything rests on leads a read to an end.                        *)
EXTENDS CasBackend, TLAPS, FiniteSetTheorems, WellFoundedInduction

Inv == CallsOK /\ Discipline /\ PutFailsForACause

\* What a put writes, and what an opened file holds, is there.
LEMMA Present ==
  /\ \A e \in Encodings : e \in Contents /\ e # Absent
  /\ Empty \in Contents /\ Empty # Absent
  /\ Torn \in Contents /\ Torn # Absent
  /\ Absent \in Contents
  BY DEF Encodings, Contents, Empty, Torn, Absent, Whole, Delta, Content

LEMMA IdleCall == Idle \in Calls /\ Idle.step = "idle"
  BY DEF Idle, Call, Calls, Contents

LEMMA InitInv == Init => Inv
  BY Present, IdleCall DEF Init, Inv, CallsOK, Discipline, PutFailsForACause, Storing

\* A step that leaves the files alone and ends some puts keeps the invariant.
LEMMA EndingKeeps ==
  ASSUME Inv, NEW S \in SUBSET Processes,
         call' = [q \in Processes |-> IF q \in S THEN Idle ELSE call[q]],
         raced' = raced, file' = file, \A f \in failed' : f.refused \/ f.block \in raced
  PROVE  Inv'
  BY IdleCall DEF Inv, CallsOK, Discipline, PutFailsForACause, Storing

\* A step that moves one put to a step where it has opened nothing.
LEMMA ApproachKeeps ==
  ASSUME Inv, NEW p \in Processes, NEW c \in Calls, c.step \in {"encoding", "opening"},
         c.block \in Blocks, c.step = "opening" => c.encoding \in Encodings,
         call' = [call EXCEPT ![p] = c], raced \subseteq raced',
         \A q \in Processes : q # p /\ Storing(q, c.block) => c.block \in raced',
         file' = file, failed' = failed
  PROVE  Inv'
  BY DEF Inv, CallsOK, Discipline, PutFailsForACause, Storing

LEMMA NextKeeps ==
  ASSUME Inv, [Next]_vars
  PROVE  Inv'
  <1> USE DEF Inv
  <1>1. ASSUME NEW p \in Processes, Dies(p)
        PROVE  Inv'
    <2>1. call' = [q \in Processes |-> IF q \in {p} THEN Idle ELSE call[q]]
      BY <1>1 DEF Dies, CallsOK
    <2> QED BY <1>1, <2>1, EndingKeeps DEF Dies, PutFailsForACause
  <1>2. ASSUME NEW p \in Processes, NEW b \in Blocks, Get(p, b)
        PROVE  Inv'
    <2>1. CASE Dies(p)
      BY <1>1, <2>1
    <2>2. CASE UNCHANGED <<file, call, failed, raced>>
      BY <2>2 DEF CallsOK, Discipline, PutFailsForACause, Storing
    <2> QED BY <1>2, <2>1, <2>2 DEF Get
  <1>3. ASSUME NEW p \in Processes, NEW b \in Blocks, NEW base \in Blocks \union {NoBlock},
               BeginPut(p, b, base)
        PROVE  Inv'
    <2>1. CASE UNCHANGED <<call, raced>>
      BY <1>3, <2>1 DEF BeginPut, CallsOK, Discipline, PutFailsForACause, Storing
    <2>2. CASE ~ (Exists(b, "full") \/ Exists(b, "pfx"))
      <3> DEFINE c == Call("encoding", b, base, Absent, "none")
      <3>1. c \in Calls /\ c.step = "encoding" /\ c.block = b
        BY Present DEF Call, Calls
      <3>2. /\ call' = [call EXCEPT ![p] = c]
            /\ raced' = raced \union {x \in {b} : \E q \in Processes : Storing(q, b)}
            /\ file' = file /\ failed' = failed
        BY <1>3, <2>2 DEF BeginPut
      <3> HIDE DEF c
      <3> QED BY <3>1, <3>2, ApproachKeeps
    <2> QED BY <1>3, <2>1, <2>2 DEF BeginPut
  <1>4. ASSUME NEW p \in Processes, Encode(p)
        PROVE  Inv'
    <2>1. CASE Dies(p)
      BY <1>1, <2>1
    <2>2. CASE ~ Dies(p)
      <3> DEFINE resolved == call[p].base # NoBlock /\ Readable(call[p].base, cache[p])
      <3> DEFINE options == {Whole} \union
                   {Delta(x) : x \in {y \in {call[p].base} : resolved /\ CandidateDepth < MaxDepth}}
      <3>a. /\ \E e \in options : call' = [call EXCEPT ![p].encoding = e, ![p].step = "opening"]
            /\ call[p].step = "encoding"
            /\ UNCHANGED <<file, failed, raced>>
        BY <1>4, <2>2 DEF Encode
      <3>b. call[p].base \in Blocks \union {NoBlock}
        BY DEF CallsOK, Calls
      <3>c. options \subseteq Encodings
        BY <3>b DEF Encodings
      <3> HIDE DEF options
      <3>1. PICK e \in Encodings :
              /\ call' = [call EXCEPT ![p].encoding = e, ![p].step = "opening"]
              /\ call[p].step = "encoding"
              /\ UNCHANGED <<file, failed, raced>>
        BY <3>a, <3>c
      <3> DEFINE c == [call[p] EXCEPT !.encoding = e, !.step = "opening"]
      <3>2. /\ c \in Calls /\ c.step = "opening" /\ c.block = call[p].block /\ c.block \in Blocks
            /\ c.encoding = e
        BY <3>1, Present DEF CallsOK, Calls
      <3>3. call' = [call EXCEPT ![p] = c]
        BY <3>1 DEF CallsOK, Calls
      <3>4. \A q \in Processes : q # p /\ Storing(q, c.block) => c.block \in raced'
        BY <3>1, <3>2 DEF Discipline, Storing
      <3> HIDE DEF c
      <3> QED BY <3>1, <3>2, <3>3, <3>4, ApproachKeeps
    <2> QED BY <2>1, <2>2
  <1>5. ASSUME NEW p \in Processes, Open(p)
        PROVE  Inv'
    <2>1. /\ call[p].step = "opening" /\ call[p].block \in Blocks /\ call[p].encoding \in Encodings
          /\ file' = [file EXCEPT ![call[p].block]["staging"] = Empty]
          /\ call' = [call EXCEPT ![p].step = "writing", ![p].handle = "staging"]
          /\ UNCHANGED <<failed, raced>>
      BY <1>5 DEF Open, Staging, CallsOK
    <2>2. file' \in [Blocks -> [Places -> Contents]]
      BY <2>1, Present DEF CallsOK, Places
    <2> DEFINE c == [call[p] EXCEPT !.step = "writing", !.handle = "staging"]
    <2>c. c \in Calls /\ call' = [call EXCEPT ![p] = c]
      BY <2>1 DEF CallsOK, Calls, Places
    <2>3. call' \in [Processes -> Calls]
      BY <2>c DEF CallsOK
    <2>4. /\ call'[p].step = "writing" /\ call'[p].block = call[p].block
          /\ call'[p].encoding = call[p].encoding
          /\ \A q \in Processes \ {p} : call'[q] = call[q]
      BY <2>1 DEF CallsOK, Calls
    <2>5. \A b \in Blocks : file'[b]["staging"] = Absent => file[b]["staging"] = Absent
      BY <2>1, Present DEF CallsOK, Places
    <2>6. file'[call[p].block]["staging"] # Absent
      BY <2>1, Present DEF CallsOK, Places
    <2>7. CallsOK'
      BY <2>1, <2>2, <2>3, <2>4 DEF CallsOK
    <2>8. Discipline'
      BY <2>1, <2>4, <2>5, <2>6 DEF Discipline, Storing, CallsOK
    <2> QED BY <2>1, <2>7, <2>8 DEF PutFailsForACause
  <1>6. ASSUME NEW p \in Processes, Write(p)
        PROVE  Inv'
    <2>1. /\ call[p].step = "writing" /\ call[p].block \in Blocks /\ call[p].encoding \in Encodings
          /\ call' = [call EXCEPT ![p].step = "renaming"]
          /\ UNCHANGED <<failed, raced>>
      BY <1>6 DEF Write, CallsOK
    <2>2. /\ file' \in [Blocks -> [Places -> Contents]]
          /\ \A b \in Blocks : file'[b]["staging"] = Absent => file[b]["staging"] = Absent
      <3>1. CASE file' = file
        BY <3>1 DEF CallsOK
      <3>2. CASE call[p].handle # "none"
        <4>1. PICK content \in Overwritten(file[call[p].block][call[p].handle], call[p].encoding) :
                file' = [file EXCEPT ![call[p].block][call[p].handle] = content]
          BY <1>6, <3>2 DEF Write
        <4>2. content \in Contents /\ content # Absent
          BY <4>1, <2>1, Present DEF Overwritten
        <4>3. call[p].handle \in Places
          BY <3>2 DEF CallsOK, Calls
        <4> QED BY <4>1, <4>2, <4>3, <2>1 DEF CallsOK, Places
      <3> QED BY <1>6, <3>1, <3>2 DEF Write
    <2>3. /\ call' \in [Processes -> Calls] /\ call'[p].step = "renaming"
          /\ call'[p].block = call[p].block /\ call'[p].encoding = call[p].encoding
          /\ \A q \in Processes \ {p} : call'[q] = call[q]
      BY <2>1 DEF CallsOK, Calls
    <2>4. CallsOK'
      BY <2>1, <2>2, <2>3 DEF CallsOK
    <2>5. Discipline'
      BY <2>1, <2>2, <2>3 DEF Discipline, Storing, CallsOK
    <2> QED BY <2>1, <2>4, <2>5 DEF PutFailsForACause
  <1>7. ASSUME NEW p \in Processes, Rename(p)
        PROVE  Inv'
    <2> DEFINE b == call[p].block
    <2> DEFINE to == Target(call[p].encoding)
    <2>1. /\ call[p].step = "renaming" /\ b \in Blocks /\ to \in {"full", "pfx"}
          /\ UNCHANGED raced
      BY <1>7 DEF Rename, CallsOK, Target
    <2>2. CASE ~ Exists(b, "staging")
      <3>1. b \in raced
        BY <2>1, <2>2 DEF Discipline, Exists
      <3>2. /\ \A f \in failed' : f \in failed \/ f.block = b
            /\ file' = file /\ call' = [call EXCEPT ![p] = Idle]
        BY <1>7, <2>2 DEF Rename, Return, Staging, Failure
      <3>3. call' = [q \in Processes |-> IF q \in {p} THEN Idle ELSE call[q]]
        BY <3>2 DEF CallsOK
      <3> QED BY <2>1, <3>1, <3>2, <3>3, EndingKeeps DEF PutFailsForACause
    <2>3. CASE Exists(b, "staging")
      <3>1. /\ file' = [file EXCEPT ![b] = [place \in Places |->
                 IF place = to THEN file[b]["staging"] ELSE IF place = "staging" THEN Absent ELSE file[b][place]]]
            /\ call' = [Moved(b, "staging", to) EXCEPT ![p] = Idle]
            /\ failed' = failed
        BY <1>7, <2>3 DEF Rename, Staging, CallsOK
      <3>2. file' \in [Blocks -> [Places -> Contents]]
        BY <3>1, <2>1, Present DEF CallsOK, Places
      <3>3. \A q \in Processes : Moved(b, "staging", to)[q] \in
              {call[q]} \union {[call[q] EXCEPT !.handle = h] : h \in Places \union {"none"}}
        BY <2>1 DEF Moved, Places
      <3>a. \A c \in Calls, h \in Places \union {"none"} :
              LET d == [c EXCEPT !.handle = h] IN
              d \in Calls /\ d.step = c.step /\ d.block = c.block /\ d.encoding = c.encoding
        BY DEF Calls
      <3>b. \A q \in Processes \ {p} : call'[q] = Moved(b, "staging", to)[q]
        BY <3>1 DEF Moved
      <3>4. \A q \in Processes \ {p} :
              /\ call'[q] \in Calls /\ call'[q].step = call[q].step
              /\ call'[q].block = call[q].block /\ call'[q].encoding = call[q].encoding
        <4> TAKE q \in Processes \ {p}
        <4>1. call[q] \in Calls
          BY DEF CallsOK
        <4>2. CASE call'[q] = call[q]
          BY <4>1, <4>2
        <4>3. CASE \E h \in Places \union {"none"} : call'[q] = [call[q] EXCEPT !.handle = h]
          <5>1. PICK h \in Places \union {"none"} : call'[q] = [call[q] EXCEPT !.handle = h]
            BY <4>3
          <5> DEFINE d == [call[q] EXCEPT !.handle = h]
          <5>2. d \in Calls /\ d.step = call[q].step /\ d.block = call[q].block
                /\ d.encoding = call[q].encoding
            BY <4>1, <3>a
          <5> QED BY <5>1, <5>2
        <4> QED BY <4>2, <4>3, <3>3, <3>b
      <3>5. call' \in [Processes -> Calls] /\ call'[p].step = "idle"
        BY <3>1, <3>4, IdleCall DEF Moved
      <3>6. CallsOK'
        BY <3>2, <3>4, <3>5 DEF CallsOK
      <3>7. \A x \in Blocks \ {b} : file'[x] = file[x]
        BY <3>1 DEF CallsOK
      <3>8. \A q \in Processes \ {p} : Storing(q, b) => b \in raced
        BY <2>1 DEF Discipline, Storing
      <3>9. Discipline'
        BY <2>1, <3>4, <3>5, <3>7, <3>8 DEF Discipline, Storing, CallsOK
      <3> QED BY <2>1, <3>1, <3>6, <3>9 DEF PutFailsForACause
    <2> QED BY <2>2, <2>3
  <1>8. ASSUME PowerLoss
        PROVE  Inv'
    <2>1. /\ call' = [q \in Processes |-> Idle]
          /\ UNCHANGED <<failed, raced>>
      BY <1>8 DEF PowerLoss
    <2>2. PICK b \in Blocks, place \in {"full", "pfx"}, left \in {Torn, Absent} :
            file' = [file EXCEPT ![b][place] = left]
      BY <1>8 DEF PowerLoss
    <2>3. file' \in [Blocks -> [Places -> Contents]]
      BY <2>2, Present DEF CallsOK, Places
    <2> QED BY <2>1, <2>3, IdleCall DEF CallsOK, Discipline, PutFailsForACause, Storing
  <1>9. CASE UNCHANGED <<file, call, failed, raced>>
    BY <1>9 DEF CallsOK, Discipline, PutFailsForACause, Storing
  <1>10. ASSUME NEW p \in Processes, Refused(p)
         PROVE  Inv'
    <2>1. /\ call[p].step # "idle" /\ call[p].block \in Blocks
          /\ call' = [call EXCEPT ![p] = Idle] /\ raced' = raced
          /\ failed' = failed \union {Failure(call[p].block, TRUE)}
      BY <1>10 DEF Refused, CallsOK
    <2>2. Failure(call[p].block, TRUE).refused
      BY DEF Failure
    <2>3. PutFailsForACause'
      BY <2>1, <2>2 DEF PutFailsForACause
    <2>4. /\ call' \in [Processes -> Calls] /\ call'[p].step = "idle"
          /\ \A q \in Processes \ {p} : call'[q] = call[q]
      BY <2>1, IdleCall DEF CallsOK
    <2>5. /\ file' \in [Blocks -> [Places -> Contents]]
          /\ \A b \in Blocks : file'[b]["staging"] = Absent => file[b]["staging"] = Absent
      <3>1. CASE file' = file
        BY <3>1 DEF CallsOK
      <3>2. CASE call[p].handle # "none" /\ file' = [file EXCEPT ![call[p].block][call[p].handle] = Torn]
        <4>1. call[p].handle \in Places
          BY <3>2 DEF CallsOK, Calls
        <4> QED BY <3>2, <4>1, <2>1, Present DEF CallsOK, Places
      <3> QED BY <1>10, <3>1, <3>2 DEF Refused
    <2>6. CallsOK'
      BY <2>4, <2>5 DEF CallsOK
    <2>7. Discipline'
      BY <2>1, <2>4, <2>5 DEF Discipline, Storing, CallsOK
    <2> QED BY <2>3, <2>6, <2>7
  <1> QED BY <1>1, <1>2, <1>3, <1>4, <1>5, <1>6, <1>7, <1>8, <1>9, <1>10 DEF Next, PutStep, Evict, Crash, vars

\* The inductive invariant: puts in progress together are raced, and an unraced
\* put finds what it has staged.
THEOREM Invariance == Spec => []Inv
  <1>1. Inv /\ [Next]_vars => Inv'
    BY NextKeeps
  <1> QED BY InitInv, <1>1, PTL DEF Spec

\* put_block_with_base reports an error only when the system has refused that very
\* put a directory, a write or a renaming, or another put of the same block was in
\* progress with it.
THEOREM FailuresHaveCauses == Spec => []PutFailsForACause
  <1>1. Inv => PutFailsForACause
    BY DEF Inv
  <1> QED BY Invariance, <1>1, PTL

-----------------------------------------------------------------------------
(* Induction.                                                               *)

\* Every set of natural numbers has a least one: what induction rests on here.
LEMMA Least ==
  ASSUME NEW T, T \subseteq Nat, T # {}
  PROVE  \E m \in T : \A k \in T : m <= k
  <1>1. PICK m \in T : \A k \in T : ~(<<k, m>> \in OpToRel(<, Nat))
    BY NatLessThanWellFounded, WFMin, Zenon
  <1>2. \A k \in T : ~(k < m)
    BY <1>1, Zenon DEF OpToRel
  <1> QED BY <1>2

\* A set that holds 0 and, with each number below n, the next, holds 0 .. n.
LEMMA Induct ==
  ASSUME NEW n \in Nat, NEW S, 0 \in S, \A k \in 0 .. n - 1 : k \in S => k + 1 \in S
  PROVE  \A k \in 0 .. n : k \in S
  <1> DEFINE T == {k \in 0 .. n : k \notin S}
  <1> SUFFICES ASSUME T # {} PROVE FALSE
    OBVIOUS
  <1>1. PICK m \in T : \A k \in T : m <= k
    <2>1. T \subseteq Nat
      OBVIOUS
    <2> HIDE DEF T
    <2> QED BY <2>1, Least
  <1>2. m \in 0 .. n /\ m # 0 /\ m \notin S
    BY <1>1
  <1>3. m - 1 \in 0 .. n - 1 /\ m - 1 \notin T
    BY <1>1, <1>2
  <1>4. m - 1 \in S
    BY <1>2, <1>3
  <1> QED BY <1>2, <1>3, <1>4

-----------------------------------------------------------------------------
(* What a read comes to.                                                    *)

Successors(S, cached) == {file[x]["pfx"].base : x \in {y \in S : Refers(y, cached)}}
IsTrail(g, n, b, cached) ==
  g = [k \in 0 .. n |-> IF k = 0 THEN {b} ELSE Successors(g[k - 1], cached)]

LEMMA TrailExists ==
  ASSUME NEW b, NEW cached, NEW n \in Nat
  PROVE  \E g : IsTrail(g, n, b, cached)
  <1> DEFINE S == {m \in Nat : \E g : IsTrail(g, m, b, cached)}
  <1>1. 0 \in S
    <2>1. IsTrail([k \in 0 .. 0 |-> {b}], 0, b, cached)
      BY DEF IsTrail
    <2> QED BY <2>1
  <1>2. ASSUME NEW m \in 0 .. n - 1, m \in S
        PROVE  m + 1 \in S
    <2>1. PICK g : IsTrail(g, m, b, cached)
      BY <1>2
    <2>2. \A k \in 0 .. m : g[k] = IF k = 0 THEN {b} ELSE Successors(g[k - 1], cached)
      BY <2>1 DEF IsTrail
    <2> DEFINE h == [k \in 0 .. m + 1 |-> IF k = m + 1 THEN Successors(g[m], cached) ELSE g[k]]
    <2>3. ASSUME NEW k \in 0 .. m + 1
          PROVE  h[k] = IF k = 0 THEN {b} ELSE Successors(h[k - 1], cached)
      <3>1. CASE k = m + 1
        <4>1. m \in 0 .. m + 1 /\ m # m + 1 /\ k - 1 = m /\ k # 0
          BY <3>1
        <4> QED BY <3>1, <4>1
      <3>2. CASE k # m + 1
        <4>1. k \in 0 .. m /\ (k # 0 => k - 1 \in 0 .. m + 1 /\ k - 1 # m + 1)
          BY <3>2
        <4> QED BY <2>2, <3>2, <4>1
      <3> QED BY <3>1, <3>2
    <2>4. IsTrail(h, m + 1, b, cached)
      BY <2>3 DEF IsTrail
    <2> QED BY <2>4
  <1> HIDE DEF S
  <1>3. n \in S
    BY <1>1, <1>2, Induct
  <1> QED BY <1>3 DEF S

\* The trail is what its definition says: the block, then what the blocks before
\* refer to.
LEMMA TrailIs ==
  ASSUME NEW b, NEW cached, Cardinality(Blocks) \in Nat
  PROVE  \A k \in 0 .. Cardinality(Blocks) :
           Trail(b, cached)[k] = IF k = 0 THEN {b} ELSE Successors(Trail(b, cached)[k - 1], cached)
  <1>1. Trail(b, cached) = CHOOSE g : IsTrail(g, Cardinality(Blocks), b, cached)
    BY DEF Trail, IsTrail, Successors
  <1>2. IsTrail(Trail(b, cached), Cardinality(Blocks), b, cached)
    BY <1>1, TrailExists
  <1> QED BY <1>2 DEF IsTrail

FilesOK == file \in [Blocks -> [Places -> Contents]]

\* A reference leads to a block.
LEMMA ReferenceTyped ==
  ASSUME FilesOK, NEW x \in Blocks, NEW cached, Refers(x, cached)
  PROVE  file[x]["pfx"].base \in Blocks
  <1>1. file[x]["pfx"] \in Contents
    BY DEF FilesOK, Places
  <1> QED BY <1>1 DEF Refers, Contents, Encodings, Absent, Empty, Torn, Whole, Delta, Content

Closed(S, cached) == \A x \in S : Refers(x, cached) => file[x]["pfx"].base \in S

\* A chain begins with its block, is closed, and is no larger than that takes.
LEMMA ChainLeast ==
  ASSUME NEW b, NEW cached, NEW S, b \in S, Closed(S, cached), Cardinality(Blocks) \in Nat
  PROVE  Chain(b, cached) \subseteq S
  <1> DEFINE N == Cardinality(Blocks)
  <1> DEFINE K == {k \in 0 .. N : Trail(b, cached)[k] \subseteq S}
  <1>0. \A k \in 0 .. N :
          Trail(b, cached)[k] = IF k = 0 THEN {b} ELSE Successors(Trail(b, cached)[k - 1], cached)
    BY TrailIs
  <1>1. 0 \in K
    <2>1. Trail(b, cached)[0] = {b}
      BY <1>0
    <2> QED BY <2>1
  <1>2. ASSUME NEW k \in 0 .. N - 1, k \in K
        PROVE  k + 1 \in K
    <2>1. k + 1 \in 0 .. N /\ k + 1 # 0 /\ (k + 1) - 1 = k
      OBVIOUS
    <2>2. Trail(b, cached)[k + 1] = Successors(Trail(b, cached)[k], cached)
      BY <1>0, <2>1
    <2> QED BY <1>2, <2>1, <2>2 DEF Closed, Successors
  <1> HIDE DEF K
  <1>3. \A k \in 0 .. N : k \in K
    BY <1>1, <1>2, Induct
  <1> QED BY <1>3 DEF K, Chain

LEMMA ChainBegins ==
  ASSUME NEW b, NEW cached, Cardinality(Blocks) \in Nat
  PROVE  b \in Chain(b, cached)
  <1>1. 0 \in 0 .. Cardinality(Blocks)
    OBVIOUS
  <1>2. Trail(b, cached)[0] = {b}
    BY <1>1, TrailIs
  <1> QED BY <1>1, <1>2 DEF Chain

LEMMA ChainClosed ==
  ASSUME FilesOK, NEW b \in Blocks, NEW cached
  PROVE  Chain(b, cached) \subseteq Blocks /\ Closed(Chain(b, cached), cached)
  <1> DEFINE N == Cardinality(Blocks)
  <1> DEFINE trail == Trail(b, cached)
  <1> DEFINE U(k) == UNION {trail[j] : j \in 0 .. k}
  <1>0. IsFiniteSet(Blocks) /\ N \in Nat
    BY CasAssumption, FS_CardinalityType
  <1>1. \A k \in 0 .. N : trail[k] = IF k = 0 THEN {b} ELSE Successors(trail[k - 1], cached)
    BY <1>0, TrailIs
  <1>2. Closed(Blocks, cached)
    BY ReferenceTyped DEF Closed
  <1>3. Chain(b, cached) \subseteq Blocks /\ Chain(b, cached) = U(N)
    BY <1>0, <1>2, ChainLeast DEF Chain
  <1> HIDE DEF trail
  <1>4. \A k \in 0 .. N : U(k) \subseteq Blocks
    BY <1>0, <1>3
  \* Each step of the trail adds a block, or the chain is closed by then.
  <1> DEFINE K == {k \in 0 .. N : Closed(U(k), cached) \/ Cardinality(U(k)) >= k + 1}
  <1>5. 0 \in K
    <2>1. U(0) = {b}
      BY <1>0, <1>1
    <2>2. Cardinality({b}) = 1
      BY FS_Singleton
    <2> QED BY <1>0, <2>1, <2>2
  <1>6. ASSUME NEW k \in 0 .. N - 1, k \in K
        PROVE  k + 1 \in K
    <2>0. k + 1 \in 0 .. N /\ k + 1 # 0 /\ (k + 1) - 1 = k /\ k \in Nat
      BY <1>0
    <2>1. trail[k + 1] = Successors(trail[k], cached)
      BY <1>1, <2>0
    <2>2. U(k + 1) = U(k) \union trail[k + 1]
      <3>1. 0 .. k + 1 = (0 .. k) \union {k + 1}
        BY <2>0
      <3> QED BY <3>1
    <2>3. trail[k] \subseteq U(k)
      BY <2>0
    <2>4. CASE Closed(U(k), cached)
      <3>1. trail[k + 1] \subseteq U(k)
        BY <2>1, <2>3, <2>4 DEF Successors, Closed
      <3>2. U(k + 1) = U(k)
        BY <2>2, <3>1
      <3> QED BY <2>0, <2>4, <3>2
    <2>5. CASE ~ Closed(U(k), cached)
      <3>1. PICK x \in U(k) : Refers(x, cached) /\ file[x]["pfx"].base \notin U(k)
        BY <2>5 DEF Closed
      <3> DEFINE y == file[x]["pfx"].base
      <3>2. PICK j \in 0 .. k : x \in trail[j]
        BY <3>1
      <3>3. j + 1 \in 0 .. N /\ j + 1 # 0 /\ (j + 1) - 1 = j
        BY <1>0, <2>0
      <3>4. y \in trail[j + 1]
        <4>1. trail[j + 1] = Successors(trail[j], cached)
          BY <1>1, <3>3
        <4> QED BY <3>1, <3>2, <4>1 DEF Successors
      <3>5. j + 1 \notin 0 .. k
        BY <3>1, <3>4
      <3>6. j = k
        BY <3>5, <2>0
      <3>7. y \in U(k + 1) /\ y \notin U(k)
        BY <2>2, <3>1, <3>4, <3>6
      <3>8. U(k) \subseteq Blocks /\ U(k + 1) \subseteq Blocks
        BY <1>4, <2>0
      <3> HIDE DEF U, y
      <3>9. IsFiniteSet(U(k)) /\ IsFiniteSet(U(k + 1))
        BY <1>0, <3>8, FS_Subset
      <3>10. Cardinality(U(k) \union {y}) = Cardinality(U(k)) + 1 /\ Cardinality(U(k)) \in Nat
        BY <3>7, <3>9, FS_AddElement, FS_CardinalityType
      <3>11. U(k) \union {y} \subseteq U(k + 1)
        BY <2>2, <3>7
      <3>12. Cardinality(U(k + 1)) >= Cardinality(U(k)) + 1
        <4>1. Cardinality(U(k) \union {y}) <= Cardinality(U(k + 1))
          BY <3>9, <3>11, FS_Subset
        <4>2. Cardinality(U(k + 1)) \in Nat
          BY <3>9, FS_CardinalityType
        <4> QED BY <3>10, <4>1, <4>2
      <3>13. Cardinality(U(k + 1)) \in Nat
        BY <3>9, FS_CardinalityType
      <3>14. Cardinality(U(k)) >= k + 1
        BY <1>6, <2>5
      <3>15. Cardinality(U(k + 1)) >= (k + 1) + 1
        BY <2>0, <3>10, <3>12, <3>13, <3>14
      <3> QED BY <2>0, <3>15
    <2> QED BY <2>4, <2>5
  <1> HIDE DEF U, K
  <1>7. N \in K
    BY <1>0, <1>5, <1>6, Induct
  <1>8. Cardinality(U(N)) <= N
    BY <1>0, <1>3, FS_Subset
  <1>9. IsFiniteSet(U(N)) /\ Cardinality(U(N)) \in Nat
    BY <1>0, <1>3, FS_Subset, FS_CardinalityType
  <1>10. Closed(U(N), cached)
    BY <1>0, <1>7, <1>8, <1>9 DEF K
  <1> QED BY <1>3, <1>10

-----------------------------------------------------------------------------
(* Chains, from the files alone, when one block's files change.             *)

\* A block whose delta the files f hold and no whole file, and a set that holds
\* the bases of its blocks.
RefersIn(f, x) == f[x]["full"] = Absent /\ f[x]["pfx"].kind = "delta"
ClosedIn(f, S) == \A x \in S : RefersIn(f, x) => f[x]["pfx"].base \in S

\* r[b] is the chain of b: the least closed set with b.
IsReach(f, r) ==
  \A b \in Blocks :
    /\ b \in r[b] /\ r[b] \subseteq Blocks /\ ClosedIn(f, r[b])
    /\ \A S \in SUBSET Blocks : b \in S /\ ClosedIn(f, S) => r[b] \subseteq S

Reach == [b \in Blocks |-> Chain(b, {})]
ReachOK == IsReach(file, Reach)

LEMMA ReachIs == FilesOK => ReachOK
  <1> SUFFICES ASSUME FilesOK, NEW b \in Blocks
               PROVE  /\ b \in Chain(b, {}) /\ Chain(b, {}) \subseteq Blocks /\ ClosedIn(file, Chain(b, {}))
                      /\ \A S \in SUBSET Blocks : b \in S /\ ClosedIn(file, S) => Chain(b, {}) \subseteq S
    BY DEF ReachOK, IsReach, Reach
  <1>0. Cardinality(Blocks) \in Nat
    BY CasAssumption, FS_CardinalityType
  <1>1. \A S : Closed(S, {}) <=> ClosedIn(file, S)
    BY DEF Closed, ClosedIn, Refers, RefersIn, Exists
  <1> QED BY <1>0, <1>1, ChainBegins, ChainClosed, ChainLeast

\* The blocks whose chain comes to A.
Leads(r, A) == {b \in Blocks : r[b] \intersect A # {}}

\* When no reference is lost, chains only grow.
LEMMA ChainsGrow ==
  ASSUME NEW f, NEW g, NEW r, NEW s, IsReach(f, r), IsReach(g, s),
         \A x \in Blocks : RefersIn(f, x) => RefersIn(g, x) /\ g[x]["pfx"].base = f[x]["pfx"].base
  PROVE  \A b \in Blocks : r[b] \subseteq s[b]
  <1> SUFFICES ASSUME NEW b \in Blocks PROVE r[b] \subseteq s[b]
    OBVIOUS
  <1>1. s[b] \in SUBSET Blocks /\ b \in s[b] /\ ClosedIn(g, s[b])
    BY DEF IsReach
  <1>2. ClosedIn(f, s[b])
    BY <1>1 DEF ClosedIn
  <1> QED BY <1>1, <1>2 DEF IsReach

\* Only chains through a block whose files change can change.
LEMMA ChainsStay ==
  ASSUME NEW f, NEW g, NEW r, NEW s, IsReach(f, r), IsReach(g, s), NEW b \in Blocks,
         \A x \in Blocks \ {b} : g[x]["full"] = f[x]["full"] /\ g[x]["pfx"] = f[x]["pfx"],
         NEW x \in Blocks
  PROVE  (b \in r[x] /\ b \in s[x]) \/ r[x] = s[x]
  <1>1. /\ r[x] \in SUBSET Blocks /\ x \in r[x] /\ ClosedIn(f, r[x])
        /\ s[x] \in SUBSET Blocks /\ x \in s[x] /\ ClosedIn(g, s[x])
    BY DEF IsReach
  <1>2. ASSUME b \notin s[x] PROVE r[x] \subseteq s[x]
    <2>1. ClosedIn(f, s[x])
      BY <1>1, <1>2 DEF ClosedIn, RefersIn
    <2> QED BY <1>1, <2>1 DEF IsReach
  <1>3. ASSUME b \notin r[x] PROVE s[x] \subseteq r[x]
    <2>1. ClosedIn(g, r[x])
      BY <1>1, <1>3 DEF ClosedIn, RefersIn
    <2> QED BY <1>1, <2>1 DEF IsReach
  <1> QED BY <1>2, <1>3

\* What leads to A still leads to B, when the changed block is in B ...
LEMMA LeadsPast ==
  ASSUME NEW f, NEW g, NEW r, NEW s, IsReach(f, r), IsReach(g, s), NEW b \in Blocks,
         \A x \in Blocks \ {b} : g[x]["full"] = f[x]["full"] /\ g[x]["pfx"] = f[x]["pfx"],
         NEW A, NEW B, A \subseteq B \union {b}, b \in B
  PROVE  Leads(r, A) \subseteq Leads(s, B)
  <1>1. \A x \in Blocks : (b \in r[x] /\ b \in s[x]) \/ r[x] = s[x]
    BY ChainsStay
  <1> QED BY <1>1 DEF Leads

\* ... and when no reference is lost.
LEMMA LeadsOn ==
  ASSUME NEW f, NEW g, NEW r, NEW s, IsReach(f, r), IsReach(g, s),
         \A x \in Blocks : RefersIn(f, x) => RefersIn(g, x) /\ g[x]["pfx"].base = f[x]["pfx"].base,
         NEW A, NEW B, A \subseteq B
  PROVE  Leads(r, A) \subseteq Leads(s, B)
  <1>1. \A x \in Blocks : r[x] \subseteq s[x]
    BY ChainsGrow
  <1> QED BY <1>1 DEF Leads

\* A block leads where its base does.
LEMMA LeadsByBase ==
  ASSUME NEW f, NEW r, IsReach(f, r), NEW b \in Blocks, RefersIn(f, b), NEW A,
         f[b]["pfx"].base \in Leads(r, A)
  PROVE  b \in Leads(r, A)
  <1> DEFINE x == f[b]["pfx"].base
  <1>1. x \in r[b] /\ r[b] \in SUBSET Blocks /\ ClosedIn(f, r[b])
    BY DEF IsReach, ClosedIn
  <1>2. r[x] \subseteq r[b]
    BY <1>1 DEF IsReach
  <1> QED BY <1>2 DEF Leads

-----------------------------------------------------------------------------
(* A put that no other put of its block races with.                         *)

\* It finds no file of its block, and writes what it has encoded.
Alone ==
  \A p \in Processes : call[p].step # "idle" /\ call[p].block \notin raced =>
    /\ ~ Exists(call[p].block, "full") /\ ~ Exists(call[p].block, "pfx")
    /\ call[p].step = "writing" =>
         call[p].handle = "staging" /\ file[call[p].block]["staging"] = Empty
    /\ call[p].step = "renaming" => file[call[p].block]["staging"] = call[p].encoding

\* Puts that end, with the files left alone.
LEMMA EndingAlone ==
  ASSUME Alone, NEW S \in SUBSET Processes, raced' = raced, file' = file,
         call' = [q \in Processes |-> IF q \in S THEN Idle ELSE call[q]]
  PROVE  Alone'
  BY IdleCall DEF Alone, Exists

\* A put that moves, and whose block's files alone may change.
LEMMA MovingAlone ==
  ASSUME Inv, Alone, NEW p \in Processes, NEW b \in Blocks, raced \subseteq raced',
         \A x \in Blocks \ {b} : file'[x] = file[x],
         \A q \in Processes \ {p} : Storing(q, b) => b \in raced',
         \A q \in Processes \ {p} : call'[q].step = call[q].step /\ call'[q].block = call[q].block,
         \A q \in Processes \ {p} : ~ Storing(q, b) => call'[q] = call[q],
         call'[p].step # "idle" => call'[p].block = b,
         call'[p].step # "idle" /\ b \notin raced' =>
           /\ ~ Exists(b, "full")' /\ ~ Exists(b, "pfx")'
           /\ call'[p].step = "writing" => call'[p].handle = "staging" /\ file'[b]["staging"] = Empty
           /\ call'[p].step = "renaming" => file'[b]["staging"] = call'[p].encoding
  PROVE  Alone'
  BY DEF Inv, CallsOK, Alone, Storing, Exists

LEMMA NextAlone ==
  ASSUME Inv, Alone, [Next]_vars
  PROVE  Alone'
  <1> USE DEF Inv
  <1>0. /\ \A p \in Processes : call[p] \in Calls
        /\ \A p \in Processes : call[p].step # "idle" => call[p].block \in Blocks
        /\ \A p, q \in Processes : \A b \in Blocks :
             p # q /\ Storing(p, b) /\ Storing(q, b) => b \in raced
    BY DEF CallsOK, Discipline
  <1>1. ASSUME NEW p \in Processes, Dies(p)
        PROVE  Alone'
    <2>1. call' = [q \in Processes |-> IF q \in {p} THEN Idle ELSE call[q]]
      BY <1>1 DEF Dies, CallsOK
    <2> QED BY <1>1, <2>1, EndingAlone DEF Dies
  <1>2. ASSUME NEW p \in Processes, NEW b \in Blocks, NEW base \in Blocks \union {NoBlock},
               BeginPut(p, b, base)
        PROVE  Alone'
    <2>1. CASE UNCHANGED <<call, raced>>
      BY <1>2, <2>1 DEF BeginPut, Alone, Exists
    <2>2. CASE ~ (Exists(b, "full") \/ Exists(b, "pfx"))
      <3> DEFINE c == Call("encoding", b, base, Absent, "none")
      <3>1. c.step = "encoding" /\ c.block = b
        BY DEF Call
      <3>2. /\ call' = [call EXCEPT ![p] = c] /\ file' = file
            /\ raced' = raced \union {x \in {b} : \E q \in Processes : Storing(q, b)}
        BY <1>2, <2>2 DEF BeginPut
      <3> HIDE DEF c
      <3>3. call'[p] = c /\ \A q \in Processes \ {p} : call'[q] = call[q]
        BY <3>2 DEF CallsOK
      <3> QED BY <2>2, <3>1, <3>2, <3>3, MovingAlone DEF Exists
    <2> QED BY <1>2, <2>1, <2>2 DEF BeginPut
  <1>3. ASSUME NEW p \in Processes, Encode(p), ~ Dies(p)
        PROVE  Alone'
    <2>1. PICK e : call' = [call EXCEPT ![p].encoding = e, ![p].step = "opening"]
      BY <1>3 DEF Encode
    <2>2. /\ call[p].step = "encoding" /\ UNCHANGED <<file, raced>>
          /\ call'[p].step = "opening" /\ call'[p].block = call[p].block
          /\ \A q \in Processes \ {p} : call'[q] = call[q]
      BY <1>3, <2>1 DEF Encode, CallsOK, Calls
    <2> QED BY <2>2 DEF Alone, Exists
  <1>4. ASSUME NEW p \in Processes, Open(p)
        PROVE  Alone'
    <2>0. PICK b \in Blocks : b = call[p].block
      BY <1>0, <1>4 DEF Open
    <2>1. /\ call[p].step = "opening" /\ b \in Blocks
          /\ file' = [file EXCEPT ![b]["staging"] = Empty]
          /\ call' = [call EXCEPT ![p].step = "writing", ![p].handle = "staging"]
          /\ raced' = raced
      BY <1>4, <2>0 DEF Open, Staging
    <2>2. /\ call'[p].step = "writing" /\ call'[p].block = b /\ call'[p].handle = "staging"
          /\ \A q \in Processes \ {p} : call'[q] = call[q]
      BY <1>0, <2>0, <2>1 DEF CallsOK, Calls
    <2>3. /\ \A x \in Blocks \ {b} : file'[x] = file[x]
          /\ file'[b]["staging"] = Empty /\ file'[b]["full"] = file[b]["full"] /\ file'[b]["pfx"] = file[b]["pfx"]
      BY <2>1 DEF CallsOK, Places
    <2>4. \A q \in Processes \ {p} : Storing(q, b) => b \in raced
      BY <1>0, <2>0, <2>1 DEF Storing
    <2>5. b \notin raced => ~ Exists(b, "full")' /\ ~ Exists(b, "pfx")'
      BY <2>0, <2>1, <2>3 DEF Alone, Exists
    <2> QED BY <2>1, <2>2, <2>3, <2>4, <2>5, MovingAlone
  <1>5. ASSUME NEW p \in Processes, Write(p)
        PROVE  Alone'
    <2>0. PICK b \in Blocks : b = call[p].block
      BY <1>0, <1>5 DEF Write
    <2>1. /\ call[p].step = "writing" /\ b \in Blocks
          /\ call' = [call EXCEPT ![p].step = "renaming"]
          /\ raced' = raced
      BY <1>5, <2>0 DEF Write
    <2>2. /\ call'[p].step = "renaming" /\ call'[p].block = b /\ call'[p].encoding = call[p].encoding
          /\ \A q \in Processes \ {p} : call'[q] = call[q]
      BY <1>0, <2>0, <2>1 DEF CallsOK, Calls
    <2>3. \A x \in Blocks \ {b} : file'[x] = file[x]
      BY <1>5, <2>0, <2>1 DEF Write, CallsOK
    <2>4. \A q \in Processes \ {p} : Storing(q, b) => b \in raced
      BY <1>0, <2>0, <2>1 DEF Storing
    <2>5. CASE b \notin raced
      <3>1. /\ call[p].handle = "staging" /\ file[b]["staging"] = Empty
            /\ ~ Exists(b, "full") /\ ~ Exists(b, "pfx")
        BY <2>0, <2>1, <2>5 DEF Alone
      <3>2. file' = [file EXCEPT ![b]["staging"] = call[p].encoding]
        BY <1>5, <2>0, <3>1 DEF Write, Overwritten
      <3>3. /\ file'[b]["staging"] = call[p].encoding
            /\ file'[b]["full"] = file[b]["full"] /\ file'[b]["pfx"] = file[b]["pfx"]
        BY <2>1, <3>2 DEF CallsOK, Places
      <3>4. ~ Exists(b, "full")' /\ ~ Exists(b, "pfx")'
        BY <2>1, <2>2, <3>1, <3>3 DEF Exists
      <3> QED BY <2>1, <2>2, <2>3, <2>4, <3>3, <3>4, MovingAlone
    <2>6. CASE b \in raced
      <3> QED BY <2>1, <2>2, <2>3, <2>4, <2>6, MovingAlone
    <2> QED BY <2>5, <2>6
  <1>6. ASSUME NEW p \in Processes, Rename(p)
        PROVE  Alone'
    <2>0. PICK b \in Blocks : b = call[p].block
      BY <1>0, <1>6 DEF Rename
    <2> DEFINE to == Target(call[p].encoding)
    <2>1. b \in Blocks /\ raced' = raced /\ call[p].step = "renaming"
      BY <1>6, <2>0 DEF Rename
    <2>2. CASE ~ Exists(b, "staging")
      <3>1. file' = file /\ call' = [call EXCEPT ![p] = Idle]
        BY <1>6, <2>0, <2>2 DEF Rename, Return, Staging
      <3>2. call' = [q \in Processes |-> IF q \in {p} THEN Idle ELSE call[q]]
        BY <3>1 DEF CallsOK
      <3> QED BY <2>1, <3>1, <3>2, EndingAlone
    <2>3. CASE Exists(b, "staging")
      <3>1. /\ call' = [Moved(b, "staging", to) EXCEPT ![p] = Idle]
            /\ \A x \in Blocks \ {b} : file'[x] = file[x]
        BY <1>6, <2>0, <2>3 DEF Rename, Staging, CallsOK
      <3>2. call'[p] = Idle /\ \A q \in Processes \ {p} : call'[q] = Moved(b, "staging", to)[q]
        BY <3>1 DEF Moved
      <3>3. \A q \in Processes : Moved(b, "staging", to)[q] \in
              {call[q]} \union {[call[q] EXCEPT !.handle = h] : h \in Places \union {"none"}}
        BY <2>1 DEF Moved, Places, Target
      <3>4. \A c \in Calls, h \in Places \union {"none"} :
              [c EXCEPT !.handle = h].step = c.step /\ [c EXCEPT !.handle = h].block = c.block
        BY DEF Calls
      <3>5. \A q \in Processes \ {p} : call'[q].step = call[q].step /\ call'[q].block = call[q].block
        <4> TAKE q \in Processes \ {p}
        <4>1. PICK h \in Places \union {"none"} : call'[q] = call[q] \/ call'[q] = [call[q] EXCEPT !.handle = h]
          BY <3>2, <3>3
        <4>2. call[q] \in Calls
          BY <1>0
        <4> QED BY <4>1, <4>2, <3>4
      <3>6. \A q \in Processes \ {p} : ~ Storing(q, b) => call'[q] = call[q]
        BY <3>2 DEF Moved
      <3>7. \A q \in Processes \ {p} : Storing(q, b) => b \in raced
        BY <1>0, <2>0, <2>1 DEF Storing
      <3> HIDE DEF to
      <3> QED BY <2>1, <3>1, <3>2, <3>5, <3>6, <3>7, IdleCall, MovingAlone
    <2> QED BY <2>2, <2>3
  <1>7. CASE PowerLoss
    <2>1. call' = [q \in Processes |-> Idle]
      BY <1>7 DEF PowerLoss
    <2> QED BY <2>1, IdleCall DEF Alone
  <1>8. CASE UNCHANGED <<file, call, raced>>
    BY <1>8 DEF Alone, Exists
  <1>9. ASSUME NEW p \in Processes, NEW b \in Blocks, Get(p, b)
        PROVE  Alone'
    BY <1>1, <1>8, <1>9 DEF Get
  <1>10. ASSUME NEW p \in Processes, Refused(p)
         PROVE  Alone'
    <2>0. PICK b \in Blocks : b = call[p].block
      BY <1>0, <1>10 DEF Refused
    <2>1. /\ call[p].step # "idle" /\ raced' = raced
          /\ call'[p].step = "idle" /\ \A q \in Processes \ {p} : call'[q] = call[q]
      BY <1>10, IdleCall DEF Refused, CallsOK
    <2>2. \A x \in Blocks \ {b} : file'[x] = file[x]
      BY <1>10, <2>0 DEF Refused, CallsOK
    <2>3. \A q \in Processes \ {p} : Storing(q, b) => b \in raced
      BY <1>0, <2>0, <2>1 DEF Storing
    <2> QED BY <2>1, <2>2, <2>3, MovingAlone
  <1> QED BY <1>1, <1>2, <1>3, <1>4, <1>5, <1>6, <1>7, <1>8, <1>9, <1>10 DEF Next, PutStep, Evict, Crash, vars

\* The kinds of contents.
LEMMA Kinds ==
  /\ \A c \in Contents : c.kind = "delta" => c = Delta(c.base) /\ c.base \in Blocks
  /\ \A x : Delta(x).kind = "delta" /\ Delta(x).base = x
  /\ \A x : Delta(x) # Absent /\ Delta(x) # Empty /\ Delta(x) # Torn /\ Delta(x) # Whole
  /\ Absent.kind # "delta" /\ Empty.kind # "delta" /\ Torn.kind # "delta" /\ Whole.kind # "delta"
  /\ Whole # Absent /\ Whole # Torn /\ Whole # Empty /\ Torn # Absent /\ Empty # Absent
  /\ Idle.encoding = Absent
  BY DEF Contents, Encodings, Absent, Empty, Torn, Whole, Delta, Content, Idle, Call

-----------------------------------------------------------------------------
(* The type invariant.                                                      *)

\* What a read comes to are blocks.
LEMMA CachedTyped ==
  ASSUME TypeOK, NEW b \in Blocks, NEW cached
  PROVE  Chain(b, cached) \subseteq Blocks
  BY ChainClosed DEF TypeOK, CallsOK, FilesOK

LEMMA NextTyped ==
  ASSUME TypeOK, CallsOK', [Next]_vars
  PROVE  TypeOK'
  <1> SUFFICES /\ cache' \in [Processes -> SUBSET Blocks]
               /\ {confirmed', raced', torn', lost'} \subseteq SUBSET Blocks
               /\ failed' \subseteq [block : Blocks, refused : BOOLEAN]
               /\ losses' \in 0 .. MaxLosses
    BY DEF TypeOK
  <1> DEFINE Goal == /\ cache' \in [Processes -> SUBSET Blocks]
                     /\ {confirmed', raced', torn', lost'} \subseteq SUBSET Blocks
                     /\ failed' \subseteq [block : Blocks, refused : BOOLEAN]
                     /\ losses' \in 0 .. MaxLosses
  <1> USE DEF TypeOK
  <1>0. \A p \in Processes : /\ call[p].base \in Blocks \union {NoBlock}
                             /\ call[p].step # "idle" => call[p].block \in Blocks
    BY DEF CallsOK, Calls
  <1>1. ASSUME NEW p \in Processes, Dies(p) PROVE Goal
    BY <1>1 DEF Dies
  <1>2. ASSUME NEW p \in Processes, NEW b \in Blocks, Get(p, b) PROVE Goal
    <2>1. CASE ~ Endless(b, cache[p])
      BY <1>2, <2>1, CachedTyped DEF Get
    <2> QED BY <1>1, <1>2, <2>1 DEF Get
  <1>3. ASSUME NEW p \in Processes, NEW b \in Blocks, NEW base \in Blocks \union {NoBlock},
               BeginPut(p, b, base)
        PROVE  Goal
    BY <1>3 DEF BeginPut
  <1>4. ASSUME NEW p \in Processes, Encode(p), ~ Dies(p) PROVE Goal
    <2>1. \/ cache' = cache
          \/ call[p].base # NoBlock /\ cache' = [cache EXCEPT ![p] = @ \union Chain(call[p].base, @)]
      BY <1>4 DEF Encode
    <2>2. UNCHANGED <<confirmed, failed, raced, torn, lost, losses>>
      BY <1>4 DEF Encode
    <2>3. call[p].base # NoBlock => Chain(call[p].base, cache[p]) \subseteq Blocks
      BY <1>0, CachedTyped
    <2> QED BY <2>1, <2>2, <2>3
  <1>5. ASSUME NEW p \in Processes, Open(p) \/ Write(p) PROVE Goal
    BY <1>5 DEF Open, Write
  <1>6. ASSUME NEW p \in Processes, Rename(p) PROVE Goal
    <2>1. call[p].block \in Blocks
      BY <1>0, <1>6 DEF Rename
    <2>2. Failure(call[p].block, FALSE) \in [block : Blocks, refused : BOOLEAN]
      BY <2>1 DEF Failure
    <2>3. /\ cache' \in [Processes -> SUBSET Blocks]
          /\ {confirmed', raced', torn', lost'} \subseteq SUBSET Blocks /\ losses' = losses
      BY <1>6, <2>1 DEF Rename, Return
    <2>4. failed' \subseteq failed \union {Failure(call[p].block, FALSE)}
      BY <1>6 DEF Rename, Return
    <2> QED BY <2>2, <2>3, <2>4
  <1>7. ASSUME PowerLoss PROVE Goal
    <2>1. losses' \in 0 .. MaxLosses
      BY <1>7, CasAssumption DEF PowerLoss
    <2> QED BY <1>7, <2>1 DEF PowerLoss
  <1>8. ASSUME UNCHANGED vars PROVE Goal
    BY <1>8 DEF vars
  <1>9. ASSUME NEW p \in Processes, Evict(p) PROVE Goal
    BY <1>9 DEF Evict
  <1>12. ASSUME NEW p \in Processes, Refused(p) PROVE Goal
    <2>1. call[p].block \in Blocks
      BY <1>0, <1>12 DEF Refused
    <2>2. Failure(call[p].block, TRUE) \in [block : Blocks, refused : BOOLEAN]
      BY <2>1 DEF Failure
    <2>3. /\ failed' = failed \union {Failure(call[p].block, TRUE)}
          /\ UNCHANGED <<cache, confirmed, raced, torn, lost, losses>>
      BY <1>12 DEF Refused
    <2> QED BY <2>2, <2>3
  <1> HIDE DEF Goal, TypeOK
  <1>10. ASSUME NEW p \in Processes, PutStep(p) \/ Crash(p) PROVE Goal
    BY <1>1, <1>4, <1>5, <1>6, <1>12, <1>10 DEF PutStep, Crash
  <1>11. Goal
    BY <1>2, <1>3, <1>7, <1>8, <1>9, <1>10 DEF Next
  <1> QED BY <1>11 DEF Goal

-----------------------------------------------------------------------------
(* What anything rests on.                                                  *)

\* The blocks that a put has confirmed, that a cache holds, of which there is a
\* file, and that a file or a put in progress has for its base.
Relied == {x \in Blocks :
  \/ x \in confirmed
  \/ \E p \in Processes : x \in cache[p] \/ call[p].encoding = Delta(x)
  \/ Exists(x, "full") \/ Exists(x, "pfx")
  \/ \E b \in Blocks, place \in Places : file[b][place] = Delta(x)}

\* A read that succeeds relies on all it comes to.
LEMMA ReadRelies ==
  ASSUME TypeOK, NEW p \in Processes, NEW b \in Blocks, Readable(b, cache[p])
  PROVE  b \in Chain(b, cache[p]) /\ Chain(b, cache[p]) \subseteq Relied
  <1> DEFINE c == cache[p]
  <1>0. FilesOK /\ Cardinality(Blocks) \in Nat
    BY CasAssumption, FS_CardinalityType DEF TypeOK, CallsOK, FilesOK
  <1>1. \A x \in Blocks : Refers(x, c) => file[x]["pfx"].base \in Relied
    <2> SUFFICES ASSUME NEW x \in Blocks, Refers(x, c) PROVE file[x]["pfx"].base \in Relied
      OBVIOUS
    <2>1. file[x]["pfx"] \in Contents /\ file[x]["pfx"].kind = "delta" /\ "pfx" \in Places
      BY <1>0 DEF FilesOK, Refers, Places
    <2>2. file[x]["pfx"] = Delta(file[x]["pfx"].base) /\ file[x]["pfx"].base \in Blocks
      BY <2>1, Kinds
    <2> QED BY <2>1, <2>2 DEF Relied
  <1>2. b \in Chain(b, c) /\ Chain(b, c) \subseteq {b} \union Relied
    <2>1. Closed({b} \union Relied, c)
      BY <1>1 DEF Closed, Relied
    <2> QED BY <1>0, <2>1, ChainBegins, ChainLeast
  <1>3. CASE Refers(b, c)
    <2>1. Exists(b, "pfx")
      BY <1>3, Kinds DEF Refers, Exists
    <2> QED BY <1>2, <2>1 DEF Relied
  <1>4. CASE ~ Refers(b, c)
    <2>1. Closed({b}, c)
      BY <1>4 DEF Closed
    <2>2. Chain(b, c) \subseteq {b}
      BY <1>0, <2>1, ChainLeast
    <2>3. b \in c \/ file[b]["full"] = Whole
      BY <2>2 DEF Readable
    <2>4. b \in Relied
      BY <2>3, Kinds DEF Relied, Exists
    <2> QED BY <1>2, <2>2, <2>4
  <1> QED BY <1>3, <1>4

\* The block that p renames.
Renamed == {b \in Blocks : \E p \in Processes : Rename(p) /\ call[p].block = b}

\* Nothing new is relied on, but a block that is renamed, or raced for.
LEMMA NextRelies ==
  ASSUME Inv, TypeOK, Alone, [Next]_vars
  PROVE  Relied' \subseteq Relied \union raced \union Renamed
  <1> DEFINE Goal == Relied' \subseteq Relied \union raced \union Renamed
  <1>0. /\ \A p \in Processes : call[p] \in Calls
        /\ \A p \in Processes : call[p].step # "idle" => call[p].block \in Blocks
        /\ \A b \in Blocks, place \in Places : file[b][place] \in Contents
    BY DEF TypeOK, CallsOK
  <1>1. ASSUME NEW p \in Processes, Dies(p) PROVE Goal
    <2>1. \A q \in Processes : cache'[q] \subseteq cache[q] /\ call'[q] \in {Idle, call[q]}
      BY <1>1 DEF Dies, TypeOK, CallsOK
    <2>2. UNCHANGED <<file, confirmed>>
      BY <1>1 DEF Dies
    <2> QED BY <2>1, <2>2, Kinds DEF Relied, Exists
  <1>2. ASSUME NEW p \in Processes, NEW b \in Blocks, Get(p, b) PROVE Goal
    <2>1. CASE ~ Endless(b, cache[p])
      <3>1. Readable(b, cache[p]) /\ cache' = [cache EXCEPT ![p] = @ \union Chain(b, @)]
            /\ UNCHANGED <<file, call, confirmed>>
        BY <1>2, <2>1 DEF Get
      <3>2. \A q \in Processes : cache'[q] \subseteq cache[q] \union Relied
        BY <3>1, ReadRelies DEF TypeOK
      <3> QED BY <3>1, <3>2 DEF Relied, Exists
    <2> QED BY <1>1, <1>2, <2>1 DEF Get
  <1>3. ASSUME NEW p \in Processes, NEW b \in Blocks, NEW base \in Blocks \union {NoBlock},
               BeginPut(p, b, base)
        PROVE  Goal
    <2>1. CASE Exists(b, "full") \/ Exists(b, "pfx")
      <3>1. /\ cache' = [cache EXCEPT ![p] = @ \union {b}] /\ confirmed' = confirmed \union {b}
            /\ UNCHANGED <<file, call>>
        BY <1>3, <2>1 DEF BeginPut
      <3>2. b \in Relied
        BY <2>1 DEF Relied
      <3>3. \A q \in Processes : cache'[q] \subseteq cache[q] \union {b}
        BY <3>1 DEF TypeOK
      <3> QED BY <3>1, <3>2, <3>3 DEF Relied, Exists
    <2>2. CASE ~ (Exists(b, "full") \/ Exists(b, "pfx"))
      <3>1. call' = [call EXCEPT ![p] = Call("encoding", b, base, Absent, "none")]
            /\ UNCHANGED <<file, cache, confirmed>>
        BY <1>3, <2>2 DEF BeginPut
      <3>2. \A q \in Processes : call'[q].encoding \in {Absent, call[q].encoding}
        BY <3>1 DEF TypeOK, CallsOK, Call
      <3> QED BY <3>1, <3>2, Kinds DEF Relied, Exists
    <2> QED BY <2>1, <2>2
  <1>4. ASSUME NEW p \in Processes, Encode(p), ~ Dies(p) PROVE Goal
    <2> DEFINE base == call[p].base
    <2>1. UNCHANGED <<file, confirmed>>
      BY <1>4 DEF Encode
    <2>2. base \in Blocks \union {NoBlock}
      BY <1>0 DEF Calls
    <2>3. CASE base # NoBlock /\ Readable(base, cache[p])
      <3>1. cache' = [cache EXCEPT ![p] = @ \union Chain(base, @)]
        BY <1>4, <2>3 DEF Encode
      <3>2. base \in Relied /\ Chain(base, cache[p]) \subseteq Relied
        BY <2>2, <2>3, ReadRelies
      <3>3. \A q \in Processes : cache'[q] \subseteq cache[q] \union Relied
        BY <3>1, <3>2 DEF TypeOK
      <3>4. PICK e \in {Whole, Delta(base)} : call' = [call EXCEPT ![p].encoding = e, ![p].step = "opening"]
        BY <1>4, <2>3 DEF Encode
      <3>5. \A q \in Processes : call'[q].encoding \in {Whole, Delta(base), call[q].encoding}
        BY <1>0, <3>4 DEF TypeOK, CallsOK, Calls
      <3>6. \A x : Delta(x) = Delta(base) => x = base
        BY Kinds
      <3> HIDE DEF base
      <3> QED BY <2>1, <3>2, <3>3, <3>5, <3>6, Kinds DEF Relied, Exists
    <2>4. CASE ~ (base # NoBlock /\ Readable(base, cache[p]))
      <3>1. cache' = cache /\ call' = [call EXCEPT ![p].encoding = Whole, ![p].step = "opening"]
        BY <1>4, <2>4 DEF Encode
      <3>2. \A q \in Processes : call'[q].encoding \in {Whole, call[q].encoding}
        BY <1>0, <3>1 DEF TypeOK, CallsOK, Calls
      <3> QED BY <2>1, <3>1, <3>2, Kinds DEF Relied, Exists
    <2> QED BY <2>3, <2>4
  <1>5. ASSUME NEW p \in Processes, Open(p) PROVE Goal
    <2>1. /\ file' = [file EXCEPT ![call[p].block]["staging"] = Empty] /\ call[p].block \in Blocks
          /\ call' = [call EXCEPT ![p].step = "writing", ![p].handle = "staging"]
          /\ UNCHANGED <<cache, confirmed>>
      BY <1>0, <1>5 DEF Open, Staging
    <2>2. \A q \in Processes : call'[q].encoding = call[q].encoding
      BY <1>0, <2>1 DEF TypeOK, CallsOK, Calls
    <2>3. \A b \in Blocks, place \in Places :
            file'[b][place] = file[b][place] \/ (place = "staging" /\ file'[b][place] = Empty)
      BY <2>1 DEF TypeOK, CallsOK, Places
    <2>4. \A x \in Blocks : Exists(x, "full")' \/ Exists(x, "pfx")' => Exists(x, "full") \/ Exists(x, "pfx")
      BY <2>3 DEF Exists, Places
    <2>5. \A x \in Blocks, y \in Blocks, place \in Places :
            file'[y][place] = Delta(x) => file[y][place] = Delta(x)
      BY <2>3, Kinds
    <2> QED BY <2>1, <2>2, <2>4, <2>5 DEF Relied
  <1>6. ASSUME NEW p \in Processes, Write(p) PROVE Goal
    <2>0. PICK b \in Blocks : b = call[p].block
      BY <1>0, <1>6 DEF Write
    <2>1. /\ call' = [call EXCEPT ![p].step = "renaming"] /\ call[p].step = "writing"
          /\ UNCHANGED <<cache, confirmed>>
      BY <1>6 DEF Write
    <2>2. \A q \in Processes : call'[q].encoding = call[q].encoding
      BY <1>0, <2>1 DEF TypeOK, CallsOK, Calls
    <2>3. \A x \in Blocks, place \in Places :
            \/ file'[x][place] = file[x][place]
            \/ x = b /\ place = call[p].handle /\ file'[x][place] \in {call[p].encoding, Torn}
      <3>1. CASE file' = file
        BY <3>1
      <3>2. CASE call[p].handle # "none"
        <4>1. PICK content \in Overwritten(file[b][call[p].handle], call[p].encoding) :
                file' = [file EXCEPT ![b][call[p].handle] = content]
          BY <1>6, <2>0, <3>2 DEF Write
        <4>2. content \in {call[p].encoding, Torn}
          BY <4>1 DEF Overwritten
        <4> QED BY <4>1, <4>2 DEF TypeOK, CallsOK
      <3> QED BY <1>6, <3>1, <3>2 DEF Write
    <2>4. b \in raced \/ call[p].handle = "staging"
      BY <2>0, <2>1 DEF Alone
    <2>5. \A x \in Blocks : Exists(x, "full")' \/ Exists(x, "pfx")' =>
            Exists(x, "full") \/ Exists(x, "pfx") \/ x \in raced
      BY <2>3, <2>4 DEF Exists, Places
    <2>6. \A x \in Blocks, y \in Blocks, place \in Places :
            file'[y][place] = Delta(x) => file[y][place] = Delta(x) \/ call[p].encoding = Delta(x)
      BY <2>3, Kinds
    <2> QED BY <2>1, <2>2, <2>5, <2>6 DEF Relied
  <1>7. ASSUME NEW p \in Processes, Rename(p) PROVE Goal
    <2>0. PICK b \in Blocks : b = call[p].block
      BY <1>0, <1>7 DEF Rename
    <2>1. b \in Renamed
      BY <1>7, <2>0 DEF Renamed
    <2>2. /\ confirmed' \subseteq confirmed \union {b}
          /\ \A q \in Processes : cache'[q] \subseteq cache[q] \union {b}
      BY <1>7, <2>0 DEF Rename, Return, TypeOK
    <2>3. \A x \in Blocks, place \in Places :
            \/ file'[x][place] = file[x][place]
            \/ x = b /\ file'[x][place] \in {Absent, file[x]["staging"]}
      BY <1>7, <2>0 DEF Rename, Staging, TypeOK, CallsOK
    <2>4. \A q \in Processes : call'[q].encoding \in {Absent, call[q].encoding}
      <3>1. CASE call' = [call EXCEPT ![p] = Idle]
        BY <3>1, Kinds DEF TypeOK, CallsOK
      <3>2. CASE call' = [Moved(b, "staging", Target(call[p].encoding)) EXCEPT ![p] = Idle]
        <4>1. \A c \in Calls, h \in Places \union {"none"} : [c EXCEPT !.handle = h].encoding = c.encoding
          BY DEF Calls
        <4>2. \A q \in Processes : Moved(b, "staging", Target(call[p].encoding))[q].encoding = call[q].encoding
          BY <1>0, <4>1 DEF Moved, Places, Target
        <4> QED BY <3>2, <4>2, Kinds DEF Moved
      <3> QED BY <1>7, <2>0, <3>1, <3>2 DEF Rename, Return, Staging
    <2>5. \A x \in Blocks : Exists(x, "full")' \/ Exists(x, "pfx")' =>
            Exists(x, "full") \/ Exists(x, "pfx") \/ x = b
      BY <2>3 DEF Exists, Places
    <2>6. \A x \in Blocks, y \in Blocks, place \in Places :
            file'[y][place] = Delta(x) => \E at \in Places : file[y][at] = Delta(x)
      BY <2>3, Kinds DEF Places
    <2> QED BY <2>1, <2>2, <2>4, <2>5, <2>6, Kinds DEF Relied
  <1>8. ASSUME PowerLoss PROVE Goal
    <2>1. PICK b \in Blocks, place \in {"full", "pfx"}, left \in {Torn, Absent} :
            Exists(b, place) /\ file' = [file EXCEPT ![b][place] = left]
      BY <1>8 DEF PowerLoss
    <2>2. \A x \in Blocks, at \in Places :
            \/ file'[x][at] = file[x][at]
            \/ file[x][at] # Absent /\ file'[x][at] \in {Torn, Absent}
      BY <2>1 DEF Exists, Places, TypeOK, CallsOK
    <2>3. confirmed' = confirmed /\ \A p \in Processes : cache'[p] = {} /\ call'[p] = Idle
      BY <1>8 DEF PowerLoss
    <2> QED BY <2>2, <2>3, Kinds DEF Relied, Exists, Places
  <1>9. ASSUME UNCHANGED <<file, cache, call, confirmed>> PROVE Goal
    BY <1>9 DEF Relied, Exists
  <1>10. ASSUME NEW p \in Processes, Evict(p) PROVE Goal
    <2>1. \A q \in Processes : cache'[q] \subseteq cache[q]
      BY <1>10 DEF Evict, TypeOK
    <2> QED BY <1>10, <2>1 DEF Evict, Relied, Exists
  <1>13. ASSUME NEW p \in Processes, Refused(p) PROVE Goal
    <2>0. PICK b \in Blocks : b = call[p].block
      BY <1>0, <1>13 DEF Refused
    <2>1. /\ call' = [call EXCEPT ![p] = Idle] /\ call[p].step # "idle"
          /\ UNCHANGED <<cache, confirmed>>
      BY <1>13 DEF Refused
    <2>2. \A q \in Processes : call'[q].encoding \in {Absent, call[q].encoding}
      BY <2>1, Kinds DEF TypeOK, CallsOK
    <2>3. \A x \in Blocks, place \in Places :
            \/ file'[x][place] = file[x][place]
            \/ /\ x = b /\ place = call[p].handle /\ call[p].step = "writing"
               /\ file'[x][place] = Torn
      BY <1>13, <2>0 DEF Refused, TypeOK, CallsOK
    <2>4. b \in raced \/ call[p].step # "writing" \/ call[p].handle = "staging"
      BY <2>0, <2>1 DEF Alone
    <2>5. \A x \in Blocks : Exists(x, "full")' \/ Exists(x, "pfx")' =>
            Exists(x, "full") \/ Exists(x, "pfx") \/ x \in raced
      BY <2>3, <2>4 DEF Exists, Places
    <2>6. \A x \in Blocks, y \in Blocks, place \in Places :
            file'[y][place] = Delta(x) => file[y][place] = Delta(x)
      BY <2>3, Kinds
    <2> QED BY <2>1, <2>2, <2>5, <2>6, Kinds DEF Relied
  <1> HIDE DEF Goal
  <1>11. ASSUME NEW p \in Processes, PutStep(p) \/ Evict(p) \/ Crash(p) PROVE Goal
    BY <1>1, <1>4, <1>5, <1>6, <1>7, <1>10, <1>13, <1>11 DEF PutStep, Crash
  <1>12. Goal
    BY <1>2, <1>3, <1>8, <1>9, <1>11 DEF Next, vars
  <1> QED BY <1>12 DEF Goal

-----------------------------------------------------------------------------
(* Where reads end.                                                         *)

\* Where a read is served, or has met what was raced for or damaged; and where it
\* stops, served or not.
ReadEnds == raced \union torn \union lost \union {b \in Blocks : file[b]["full"] = Whole}
Stops == raced \union lost \union
  {b \in Blocks : Exists(b, "full") \/ (Exists(b, "pfx") /\ file[b]["pfx"].kind # "delta")}

\* All that anything rests on leads a read to an end, and to a stop.
Sound == Relied \subseteq Leads(Reach, ReadEnds) /\ Relied \subseteq Leads(Reach, Stops)

\* Whatever leads to an end, or to a stop, still does.
StillLeads ==
  /\ Leads(Reach, ReadEnds) \subseteq Leads(Reach, ReadEnds)'
  /\ Leads(Reach, Stops) \subseteq Leads(Reach, Stops)'

HistoryGrows == raced \subseteq raced' /\ torn \subseteq torn' /\ lost \subseteq lost'

\* The published files of a block, which reads and puts find it by.
SamePublished(b) == file'[b]["full"] = file[b]["full"] /\ file'[b]["pfx"] = file[b]["pfx"]

\* A step that publishes nothing.
LEMMA UnpublishedLeads ==
  ASSUME ReachOK, ReachOK', HistoryGrows, \A x \in Blocks : SamePublished(x)
  PROVE  StillLeads
  <1>1. ReadEnds \subseteq ReadEnds' /\ Stops \subseteq Stops'
    BY DEF ReadEnds, Stops, Exists, HistoryGrows, SamePublished
  <1>2. \A x \in Blocks : RefersIn(file, x) =>
          RefersIn(file', x) /\ file'[x]["pfx"].base = file[x]["pfx"].base
    BY DEF RefersIn, SamePublished
  <1>3. IsReach(file, Reach) /\ IsReach(file', Reach')
    BY DEF ReachOK
  <1>4. Leads(Reach, ReadEnds) \subseteq Leads(Reach', ReadEnds')
    BY <1>1, <1>2, <1>3, LeadsOn
  <1>5. Leads(Reach, Stops) \subseteq Leads(Reach', Stops')
    BY <1>1, <1>2, <1>3, LeadsOn
  <1> QED BY <1>4, <1>5 DEF StillLeads, Leads

\* A step that changes the files of one block, at which reads may end now.
LEMMA EndedLeads ==
  ASSUME ReachOK, ReachOK', HistoryGrows, NEW b \in Blocks, b \in ReadEnds', b \in Stops',
         \A x \in Blocks \ {b} : SamePublished(x)
  PROVE  StillLeads
  <1>1. ReadEnds \subseteq ReadEnds' \union {b} /\ Stops \subseteq Stops' \union {b}
    BY DEF ReadEnds, Stops, Exists, HistoryGrows, SamePublished
  <1>2. IsReach(file, Reach) /\ IsReach(file', Reach')
    BY DEF ReachOK
  <1>3. \A x \in Blocks \ {b} : file'[x]["full"] = file[x]["full"] /\ file'[x]["pfx"] = file[x]["pfx"]
    BY DEF SamePublished
  <1>4. Leads(Reach, ReadEnds) \subseteq Leads(Reach', ReadEnds')
    BY <1>1, <1>2, <1>3, LeadsPast
  <1>5. Leads(Reach, Stops) \subseteq Leads(Reach', Stops')
    BY <1>1, <1>2, <1>3, LeadsPast
  <1> QED BY <1>4, <1>5 DEF StillLeads, Leads

\* A step that publishes a block of which there was no file, whole or as a delta
\* on a block that leads where it should.
LEMMA PublishedLeads ==
  ASSUME ReachOK, ReachOK', HistoryGrows, NEW b \in Blocks,
         ~ Exists(b, "full"), ~ Exists(b, "pfx"),
         \A x \in Blocks \ {b} : SamePublished(x),
         \/ file'[b]["full"] = Whole
         \/ /\ file'[b]["full"] = Absent
            /\ \E x \in Leads(Reach, ReadEnds) \intersect Leads(Reach, Stops) : file'[b]["pfx"] = Delta(x)
  PROVE  StillLeads /\ b \in Leads(Reach, ReadEnds)' /\ b \in Leads(Reach, Stops)'
  <1>1. ReadEnds \subseteq ReadEnds' /\ Stops \subseteq Stops'
    <2>1. ASSUME NEW x \in Blocks, x # b
          PROVE  /\ x \in ReadEnds => x \in ReadEnds'
                 /\ x \in Stops => x \in Stops'
      BY <2>1 DEF ReadEnds, Stops, Exists, HistoryGrows, SamePublished
    <2>2. (b \in ReadEnds => b \in ReadEnds') /\ (b \in Stops => b \in Stops')
      BY Kinds DEF ReadEnds, Stops, Exists, HistoryGrows
    <2>3. ASSUME NEW x, x \notin Blocks
          PROVE  /\ x \in ReadEnds => x \in ReadEnds'
                 /\ x \in Stops => x \in Stops'
      BY <2>3 DEF ReadEnds, Stops, HistoryGrows
    <2> QED BY <2>1, <2>2, <2>3
  <1>2. \A x \in Blocks : RefersIn(file, x) =>
          RefersIn(file', x) /\ file'[x]["pfx"].base = file[x]["pfx"].base
    BY Kinds DEF RefersIn, SamePublished, Exists
  <1>3. IsReach(file, Reach) /\ IsReach(file', Reach')
    BY DEF ReachOK
  <1>4. Leads(Reach, ReadEnds) \subseteq Leads(Reach', ReadEnds')
    BY <1>1, <1>2, <1>3, LeadsOn
  <1>5. Leads(Reach, Stops) \subseteq Leads(Reach', Stops')
    BY <1>1, <1>2, <1>3, LeadsOn
  <1>6. b \in Leads(Reach', ReadEnds') /\ b \in Leads(Reach', Stops')
    <2>1. CASE file'[b]["full"] = Whole
      <3>1. b \in ReadEnds' /\ b \in Stops'
        BY <2>1, Kinds DEF ReadEnds, Stops, Exists
      <3>2. b \in Reach'[b]
        BY <1>3 DEF IsReach
      <3> QED BY <3>1, <3>2 DEF Leads
    <2>2. CASE /\ file'[b]["full"] = Absent
               /\ \E x \in Leads(Reach, ReadEnds) \intersect Leads(Reach, Stops) : file'[b]["pfx"] = Delta(x)
      <3>1. PICK x \in Leads(Reach, ReadEnds) \intersect Leads(Reach, Stops) : file'[b]["pfx"] = Delta(x)
        BY <2>2
      <3>2. RefersIn(file', b) /\ file'[b]["pfx"].base = x
        BY <2>2, <3>1, Kinds DEF RefersIn
      <3>3. x \in Leads(Reach', ReadEnds') /\ x \in Leads(Reach', Stops')
        BY <1>4, <1>5
      <3> QED BY <1>3, <3>2, <3>3, LeadsByBase
    <2> QED BY <2>1, <2>2
  <1> QED BY <1>4, <1>5, <1>6 DEF StillLeads, Leads

\* A rename: of what was staged for the block, or, when it was raced for, of anything.
LEMMA RenameLeads ==
  ASSUME Inv, TypeOK, Alone, Sound, ReachOK, ReachOK', NEW p \in Processes, Rename(p),
         NEW b \in Blocks, call[p].block = b
  PROVE  StillLeads /\ b \in Leads(Reach, ReadEnds)' /\ b \in Leads(Reach, Stops)'
  <1> DEFINE e == call[p].encoding
  <1>1. HistoryGrows /\ raced' = raced /\ call[p].step = "renaming"
    BY DEF Rename, HistoryGrows
  <1>2. e \in Encodings /\ Target(e) \in {"full", "pfx"}
    BY <1>1 DEF TypeOK, CallsOK, Target
  <1>3. \A x \in Blocks \ {b} : SamePublished(x)
    BY DEF Rename, Return, Staging, SamePublished, TypeOK, CallsOK
  <1>4. CASE b \in raced
    <2>1. b \in ReadEnds' /\ b \in Stops' /\ b \in Reach'[b]
      BY <1>1, <1>4 DEF ReadEnds, Stops, ReachOK, IsReach
    <2>2. StillLeads
      BY <1>1, <1>3, <2>1, EndedLeads
    <2> QED BY <2>1, <2>2 DEF Leads
  <1>5. CASE b \notin raced
    <2>1. ~ Exists(b, "full") /\ ~ Exists(b, "pfx") /\ file[b]["staging"] = e
      BY <1>1, <1>5 DEF Alone
    <2>2. Exists(b, "staging")
      BY <1>2, <2>1, Present DEF Exists
    <2>3. file' = [file EXCEPT ![b] = [place \in Places |->
             IF place = Target(e) THEN file[b]["staging"]
             ELSE IF place = "staging" THEN Absent ELSE file[b][place]]]
      BY <2>2 DEF Rename, Staging, TypeOK, CallsOK
    <2>4. \A place \in {"full", "pfx"} :
            file'[b][place] = IF place = Target(e) THEN e ELSE Absent
      BY <2>1, <2>3 DEF TypeOK, CallsOK, Places, Exists
    <2>5. CASE e = Whole
      <3>1. file'[b]["full"] = Whole
        BY <2>4, <2>5 DEF Target
      <3> QED BY <1>1, <1>3, <2>1, <3>1, PublishedLeads
    <2>6. CASE e # Whole
      <3>1. PICK x \in Blocks : e = Delta(x)
        BY <1>2, <2>6 DEF Encodings
      <3>2. file'[b]["full"] = Absent /\ file'[b]["pfx"] = Delta(x)
        BY <2>4, <2>6, <3>1 DEF Target
      <3>3. x \in Relied
        BY <3>1 DEF Relied
      <3>4. x \in Leads(Reach, ReadEnds) \intersect Leads(Reach, Stops)
        BY <3>3 DEF Sound
      <3> QED BY <1>1, <1>3, <2>1, <3>2, <3>4, PublishedLeads
    <2> QED BY <2>5, <2>6
  <1> QED BY <1>4, <1>5

LEMMA NextLeads ==
  ASSUME Inv, TypeOK, Alone, Sound, ReachOK, ReachOK', [Next]_vars
  PROVE  StillLeads
  <1>0. \A p \in Processes : call[p].step # "idle" => call[p].block \in Blocks
    BY DEF TypeOK, CallsOK
  <1>1. ASSUME UNCHANGED <<file, torn, lost>>, raced \subseteq raced' PROVE StillLeads
    BY <1>1, UnpublishedLeads DEF HistoryGrows, SamePublished
  <1>2. ASSUME NEW p \in Processes, Open(p) PROVE StillLeads
    <2>1. \A x \in Blocks : SamePublished(x)
      BY <1>2 DEF Open, Staging, SamePublished, TypeOK, CallsOK
    <2> QED BY <1>2, <2>1, UnpublishedLeads DEF Open, HistoryGrows
  <1>3. ASSUME NEW p \in Processes, Write(p) PROVE StillLeads
    <2>0. PICK b \in Blocks : b = call[p].block
      BY <1>0, <1>3 DEF Write
    <2>1. HistoryGrows /\ raced' = raced
      BY <1>3 DEF Write, HistoryGrows
    <2>2. \A x \in Blocks \ {b} : SamePublished(x)
      BY <1>3, <2>0 DEF Write, SamePublished, TypeOK, CallsOK
    <2>3. CASE b \in raced
      <3>1. b \in ReadEnds' /\ b \in Stops'
        BY <2>1, <2>3 DEF ReadEnds, Stops
      <3> QED BY <2>1, <2>2, <3>1, EndedLeads
    <2>4. CASE b \notin raced
      <3>1. call[p].handle = "staging"
        BY <1>3, <2>0, <2>4 DEF Write, Alone
      <3>2. SamePublished(b)
        <4>1. PICK content : file' = [file EXCEPT ![b]["staging"] = content]
          BY <1>3, <2>0, <3>1 DEF Write
        <4> QED BY <4>1 DEF SamePublished, TypeOK, CallsOK, Places
      <3> QED BY <2>1, <2>2, <3>2, UnpublishedLeads
    <2> QED BY <2>3, <2>4
  <1>12. ASSUME NEW p \in Processes, Refused(p) PROVE StillLeads
    <2>0. PICK b \in Blocks : b = call[p].block
      BY <1>0, <1>12 DEF Refused
    <2>1. HistoryGrows /\ raced' = raced
      BY <1>12 DEF Refused, HistoryGrows
    <2>2. \A x \in Blocks \ {b} : SamePublished(x)
      BY <1>12, <2>0 DEF Refused, SamePublished, TypeOK, CallsOK
    <2>3. CASE b \in raced
      <3>1. b \in ReadEnds' /\ b \in Stops'
        BY <2>1, <2>3 DEF ReadEnds, Stops
      <3> QED BY <2>1, <2>2, <3>1, EndedLeads
    <2>4. CASE b \notin raced
      <3>1. call[p].step = "writing" => call[p].handle = "staging"
        BY <2>0, <2>4 DEF Alone
      <3>2. SamePublished(b)
        <4>1. file' = file \/ file' = [file EXCEPT ![b]["staging"] = Torn]
          BY <1>12, <2>0, <3>1 DEF Refused
        <4> QED BY <4>1 DEF SamePublished, TypeOK, CallsOK, Places
      <3> QED BY <2>1, <2>2, <3>2, UnpublishedLeads
    <2> QED BY <2>3, <2>4
  <1>4. ASSUME PowerLoss PROVE StillLeads
    <2>1. PICK b \in Blocks, place \in {"full", "pfx"}, left \in {Torn, Absent} :
            /\ file' = [file EXCEPT ![b][place] = left]
            /\ torn' = torn \union {x \in {b} : left = Torn}
            /\ lost' = lost \union {x \in {b} : left = Absent}
      BY <1>4 DEF PowerLoss
    <2>2. raced' = raced /\ HistoryGrows
      BY <1>4, <2>1 DEF PowerLoss, HistoryGrows
    <2>3. \A x \in Blocks \ {b} : SamePublished(x)
      BY <2>1 DEF SamePublished, TypeOK, CallsOK
    <2>4. b \in ReadEnds'
      BY <2>1 DEF ReadEnds
    <2>5. b \in Stops'
      <3>1. CASE left = Absent
        BY <2>1, <3>1 DEF Stops
      <3>2. CASE left = Torn
        <4>1. file'[b][place] = Torn
          BY <2>1, <3>2 DEF TypeOK, CallsOK, Places
        <4> QED BY <4>1, Kinds DEF Stops, Exists
      <3> QED BY <3>1, <3>2
    <2> QED BY <2>2, <2>3, <2>4, <2>5, EndedLeads
  <1>5. ASSUME NEW p \in Processes, Rename(p) PROVE StillLeads
    <2>1. PICK b \in Blocks : call[p].block = b
      BY <1>0, <1>5 DEF Rename
    <2> QED BY <1>5, <2>1, RenameLeads
  <1>6. ASSUME NEW p \in Processes, Dies(p) PROVE StillLeads
    BY <1>1, <1>6 DEF Dies
  <1>7. ASSUME NEW p \in Processes, NEW b \in Blocks, Get(p, b) PROVE StillLeads
    BY <1>1, <1>6, <1>7 DEF Get
  <1>8. ASSUME NEW p \in Processes, NEW b \in Blocks, NEW base \in Blocks \union {NoBlock},
               BeginPut(p, b, base)
        PROVE  StillLeads
    BY <1>1, <1>8 DEF BeginPut
  <1>9. ASSUME NEW p \in Processes, Encode(p) PROVE StillLeads
    BY <1>1, <1>6, <1>9 DEF Encode
  <1>10. ASSUME NEW p \in Processes, PutStep(p) \/ Evict(p) \/ Crash(p) PROVE StillLeads
    BY <1>1, <1>2, <1>3, <1>5, <1>6, <1>9, <1>10, <1>12 DEF PutStep, Evict, Crash
  <1>11. ASSUME UNCHANGED vars PROVE StillLeads
    BY <1>1, <1>11 DEF vars
  <1> QED BY <1>4, <1>7, <1>8, <1>10, <1>11 DEF Next

LEMMA NextSound ==
  ASSUME Inv, TypeOK, Alone, Sound, ReachOK, ReachOK', [Next]_vars, raced' \subseteq Blocks
  PROVE  Sound'
  <1>1. StillLeads
    BY NextLeads
  <1>2. Relied' \subseteq Relied \union raced \union Renamed
    BY NextRelies
  <1>3. raced \subseteq raced'
    BY DEF Next, PutStep, Evict, Crash, Dies, Get, BeginPut, Encode, Open, Write, Rename, Refused,
           PowerLoss, vars
  <1>4. raced \subseteq Leads(Reach, ReadEnds)' /\ raced \subseteq Leads(Reach, Stops)'
    BY <1>3 DEF Leads, ReadEnds, Stops, ReachOK, IsReach
  <1>5. Renamed \subseteq Leads(Reach, ReadEnds)' /\ Renamed \subseteq Leads(Reach, Stops)'
    BY RenameLeads DEF Renamed
  <1> QED BY <1>1, <1>2, <1>4, <1>5 DEF Sound, StillLeads

\* The type invariant.
THEOREM TypeCorrect == Spec => []TypeOK
  <1>1. Init => TypeOK
    BY InitInv, CasAssumption DEF Init, TypeOK, Inv
  <1>2. TypeOK /\ Inv' /\ [Next]_vars => TypeOK'
    BY NextTyped DEF Inv
  <1> QED BY <1>1, <1>2, Invariance, PTL DEF Spec

\* A put that no other put of its block races with finds no file of the block, and
\* renames exactly what it has encoded.
THEOREM UnracedPutsAreAlone == Spec => []Alone
  <1>1. Init => Alone
    BY IdleCall DEF Init, Alone
  <1>2. Inv /\ Alone /\ [Next]_vars => Alone'
    BY NextAlone
  <1> QED BY <1>1, <1>2, Invariance, PTL DEF Spec

\* Whatever is confirmed, cached, in a file, or the base of one leads a read to an
\* end and to a stop.
THEOREM Soundness == Spec => []Sound
  <1>1. Init => Sound
    <2> SUFFICES ASSUME Init PROVE Relied = {}
      BY DEF Sound
    <2>1. \A b \in Blocks, place \in Places : file[b][place] = Absent
      BY DEF Init
    <2> QED BY <2>1, Kinds DEF Init, Relied, Exists, Places
  <1>2. TypeOK => ReachOK /\ raced \subseteq Blocks
    BY ReachIs DEF TypeOK, CallsOK, FilesOK
  <1>3. Inv /\ TypeOK /\ Alone /\ Sound /\ ReachOK /\ ReachOK' /\ (raced \subseteq Blocks)'
          /\ [Next]_vars => Sound'
    BY NextSound
  <1> QED BY <1>1, <1>2, <1>3, Invariance, TypeCorrect, UnracedPutsAreAlone, PTL DEF Spec

\* A block that put_block has reported stored can be read from the files alone, but
\* for blocks raced for or damaged on its way.
THEOREM StoredStaysReadable == Spec => []StoredIsReadable
  <1>1. TypeOK /\ Sound => StoredIsReadable
    <2> SUFFICES ASSUME TypeOK, Sound, NEW b \in confirmed
                 PROVE  Readable(b, {}) \/ Chain(b, {}) \intersect (raced \union torn \union lost) # {}
      BY DEF StoredIsReadable
    <2>1. b \in Relied
      BY DEF Relied, TypeOK
    <2>2. b \in Blocks /\ Chain(b, {}) \intersect ReadEnds # {}
      BY <2>1 DEF Sound, Leads, Reach
    <2> QED BY <2>2 DEF ReadEnds, Readable
  <1> QED BY <1>1, TypeCorrect, Soundness, PTL

\* No read goes in circles, but through a block raced for or lost.
THEOREM ReadsEnd == Spec => []ReadsTerminate
  <1>1. TypeOK /\ Sound => ReadsTerminate
    <2> SUFFICES ASSUME TypeOK, Sound, NEW b \in Blocks, Endless(b, {})
                 PROVE  Chain(b, {}) \intersect (raced \union lost) # {}
      BY DEF ReadsTerminate
    <2>1. b \in Chain(b, {}) /\ \A x \in Chain(b, {}) : Refers(x, {})
      BY ChainBegins, CasAssumption, FS_CardinalityType DEF Endless
    <2>2. Exists(b, "pfx")
      BY <2>1, Kinds DEF Refers, Exists
    <2>3. b \in Relied
      BY <2>2 DEF Relied
    <2>4. PICK x \in Chain(b, {}) : x \in Stops
      BY <2>3 DEF Sound, Leads, Reach
    <2> QED BY <2>1, <2>4 DEF Stops, Refers
  <1> QED BY <1>1, TypeCorrect, Soundness, PTL
=============================================================================

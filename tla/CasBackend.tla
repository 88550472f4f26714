----------------------------- MODULE CasBackend -----------------------------
(***************************************************************************)
(* The content-addressed block store of fractal-git                        *)
(* (fg-storage/src/cas_backend.rs, with the choice of the encoding from    *)
(* delta_codec.rs): several processes store and read blocks in one         *)
(* directory, each with a cache of its own.                                *)
(*                                                                         *)
(* A block is its payload, hence its hash.  It is stored whole or as a     *)
(* delta on another block, in a file of its own name or with "pfx".  Both  *)
(* are written to one staging file, name.tmp, and renamed.  A file that is *)
(* neither what its place says nor whole is rejected by the reader: by the *)
(* header, by the decoder or by the hash.  A process makes one call at a   *)
(* time; a read is one step, for files only ever change under racing puts, *)
(* and the system refuses no read.                                         *)
(***************************************************************************)
EXTENDS Integers, FiniteSets

CONSTANTS
  Blocks,     \* the payloads
  Processes,  \* each with one CasBackend
  MaxDepth,   \* MAX_DELTA_CHAIN_DEPTH, 8 in the code
  MaxLosses   \* bounds the losses of power
ASSUME CasAssumption == IsFiniteSet(Blocks) /\ MaxDepth \in Nat \ {0} /\ MaxLosses \in Nat

VARIABLES
  file,       \* per block and place: what the file there holds
  cache,      \* per process: the blocks in its cache
  call,       \* per process: the put it is in
  confirmed,  \* history: the blocks a put has reported stored
  failed,     \* history: the errors that puts have reported
  raced,      \* history: the blocks that two puts in progress had both found absent
  torn,       \* history: the blocks of which a loss of power has torn a file
  lost,       \* history: those of which it has undone a rename
  losses

vars == <<file, cache, call, confirmed, failed, raced, torn, lost, losses>>

NoBlock == "none"
Content(kind, base) == [kind |-> kind, base |-> base]
Absent == Content("absent", NoBlock)
Empty == Content("empty", NoBlock)
Torn == Content("torn", NoBlock)
Whole == Content("whole", NoBlock)
Delta(base) == Content("delta", base)

Places == {"staging", "full", "pfx"}
Encodings == {Whole} \union {Delta(b) : b \in Blocks}
Target(encoding) == IF encoding = Whole THEN "full" ELSE "pfx"
Exists(b, place) == file[b][place] # Absent

\* handle is where the file that the put has opened is by now.
Call(step, block, base, encoding, handle) ==
  [step |-> step, block |-> block, base |-> base, encoding |-> encoding, handle |-> handle]
Idle == Call("idle", NoBlock, NoBlock, Absent, "none")
\* An error is that of a block, of a put that the system has refused something or not.
Failure(b, refused) == [block |-> b, refused |-> refused]
Storing(p, b) == call[p].step # "idle" /\ call[p].block = b

-----------------------------------------------------------------------------
(* get_block.                                                               *)

\* What a read of b reads next: its base, when neither the cache nor a whole file has b.
Refers(b, cached) == b \notin cached /\ ~ Exists(b, "full") /\ file[b]["pfx"].kind = "delta"
\* The blocks a read of b comes to within n steps.
Trail(b, cached) ==
  LET after[n \in 0 .. Cardinality(Blocks)] ==
        IF n = 0 THEN {b}
        ELSE {file[x]["pfx"].base : x \in {y \in after[n - 1] : Refers(y, cached)}}
  IN after
Chain(b, cached) == UNION {Trail(b, cached)[n] : n \in 0 .. Cardinality(Blocks)}

\* The read recurses for ever, which ends the process: its stack overflows.
Endless(b, cached) == \A x \in Chain(b, cached) : Refers(x, cached)
Readable(b, cached) ==
  \E x \in Chain(b, cached) :
    x \in cached \/ file[x]["full"] = Whole

Init ==
  /\ file = [b \in Blocks |-> [place \in Places |-> Absent]]
  /\ cache = [p \in Processes |-> {}]
  /\ call = [p \in Processes |-> Idle]
  /\ confirmed = {} /\ failed = {} /\ raced = {} /\ torn = {} /\ lost = {} /\ losses = 0

\* The end of a process: its cache and its open file go with it.
Dies(p) ==
  /\ cache' = [cache EXCEPT ![p] = {}]
  /\ call' = [call EXCEPT ![p] = Idle]
  /\ UNCHANGED <<file, confirmed, failed, raced, torn, lost, losses>>

\* get_block: what is read on the way is cached.
Get(p, b) ==
  /\ call[p] = Idle
  /\ IF Endless(b, cache[p])
       THEN Dies(p)
       ELSE /\ Readable(b, cache[p])
            /\ cache' = [cache EXCEPT ![p] = @ \union Chain(b, @)]
            /\ UNCHANGED <<file, call, confirmed, failed, raced, torn, lost, losses>>

\* The least recently used entry makes room; with no budget nothing is ever cached.
Evict(p) == \E b \in cache[p] :
  /\ cache' = [cache EXCEPT ![p] = @ \ {b}]
  /\ UNCHANGED <<file, call, confirmed, failed, raced, torn, lost, losses>>

-----------------------------------------------------------------------------
(* put_block_with_base.                                                     *)

\* Mutant: the block is written whether it exists or not.
BeginPutUnchecked(p, b, base) ==
  /\ call[p] = Idle
  /\ call' = [call EXCEPT ![p] = Call("encoding", b, base, Absent, "none")]
  /\ raced' = raced \union {x \in {b} : \E q \in Processes : Storing(q, b)}
  /\ UNCHANGED <<file, cache, confirmed, failed, torn, lost, losses>>

\* A block of which there is a file is not written again, whatever is in the file.
BeginPut(p, b, base) ==
  /\ call[p] = Idle
  /\ IF Exists(b, "full") \/ Exists(b, "pfx")
       THEN /\ cache' = [cache EXCEPT ![p] = @ \union {b}]
            /\ confirmed' = confirmed \union {b}
            /\ UNCHANGED <<call, raced>>
       ELSE /\ call' = [call EXCEPT ![p] = Call("encoding", b, base, Absent, "none")]
            /\ raced' = raced \union {x \in {b} : \E q \in Processes : Storing(q, b)}
            /\ UNCHANGED <<cache, confirmed>>
  /\ UNCHANGED <<file, failed, torn, lost, losses>>

\* The depth of the base that the store passes to select_block_encoding.
CandidateDepth == 0

\* resolve_candidate_base and select_block_encoding.  A base that cannot be
\* read is none; whether the delta is the smaller one depends on the payloads.
Encode(p) == LET c == call[p]
                 resolved == c.base # NoBlock /\ Readable(c.base, cache[p]) IN
  /\ c.step = "encoding"
  /\ IF c.base # NoBlock /\ Endless(c.base, cache[p])
       THEN Dies(p)
       ELSE /\ \E e \in {Whole} \union {Delta(x) : x \in {y \in {c.base} : resolved /\ CandidateDepth < MaxDepth}} :
                 call' = [call EXCEPT ![p].encoding = e, ![p].step = "opening"]
            /\ cache' = IF resolved
                          THEN [cache EXCEPT ![p] = @ \union Chain(c.base, @)]
                          ELSE cache
            /\ UNCHANGED <<file, confirmed, failed, raced, torn, lost, losses>>

Return(p, b, result) ==
  /\ call' = [call EXCEPT ![p] = Idle]
  /\ confirmed' = confirmed \union {x \in {b} : result = "ok"}
  /\ failed' = failed \union {Failure(x, FALSE) : x \in {y \in {b} : result = "error"}}
  /\ cache' = [cache EXCEPT ![p] = @ \union {x \in {b} : result = "ok"}]

\* Mutant: the block is written in its place.
Unstaged(encoding) == Target(encoding)

\* with_extension("tmp") replaces "pfx", so both encodings share a staging file.
Staging(encoding) == "staging"

\* Mutant: the staging file must be new.
OpenNew(p) == LET c == call[p] IN
  /\ c.step = "opening"
  /\ IF Exists(c.block, Staging(c.encoding))
       THEN Return(p, c.block, "error") /\ UNCHANGED file
       ELSE /\ file' = [file EXCEPT ![c.block][Staging(c.encoding)] = Empty]
            /\ call' = [call EXCEPT ![p].step = "writing", ![p].handle = Staging(c.encoding)]
            /\ UNCHANGED <<cache, confirmed, failed>>
  /\ UNCHANGED <<raced, torn, lost, losses>>

\* fs::write opens the staging file, which truncates what is there ...
Open(p) == LET c == call[p] IN
  /\ c.step = "opening"
  /\ file' = [file EXCEPT ![c.block][Staging(c.encoding)] = Empty]
  /\ call' = [call EXCEPT ![p].step = "writing", ![p].handle = Staging(c.encoding)]
  /\ UNCHANGED <<cache, confirmed, failed, raced, torn, lost, losses>>

\* ... and writes from its start.  A delta is chosen only when it is shorter
\* than the block, so it leaves a tail of a whole block written before.
Overwritten(old, new) == IF old = Empty \/ old = new \/ new = Whole THEN {new} ELSE {new, Torn}

Write(p) == LET c == call[p] IN
  /\ c.step = "writing"
  /\ IF c.handle = "none"
       THEN UNCHANGED file
       ELSE \E content \in Overwritten(file[c.block][c.handle], c.encoding) :
              file' = [file EXCEPT ![c.block][c.handle] = content]
  /\ call' = [call EXCEPT ![p].step = "renaming"]
  /\ UNCHANGED <<cache, confirmed, failed, raced, torn, lost, losses>>

\* A rename takes the open handles along, and replaces the file at its target.
Moved(b, from, to) == [q \in Processes |->
  IF from = to \/ ~ Storing(q, b) THEN call[q]
  ELSE IF call[q].handle = to THEN [call[q] EXCEPT !.handle = "none"]
  ELSE IF call[q].handle = from THEN [call[q] EXCEPT !.handle = to]
  ELSE call[q]]

\* Whatever is in the staging file by then is published; when nothing is, the put fails.
Rename(p) == LET c == call[p]
                 from == Staging(c.encoding)
                 to == Target(c.encoding) IN
  /\ c.step = "renaming"
  /\ IF Exists(c.block, from)
       THEN /\ file' = [file EXCEPT ![c.block] = [place \in Places |->
                          IF place = to THEN @[from] ELSE IF place = from THEN Absent ELSE @[place]]]
            /\ call' = [Moved(c.block, from, to) EXCEPT ![p] = Idle]
            /\ confirmed' = confirmed \union {c.block}
            /\ cache' = [cache EXCEPT ![p] = @ \union {c.block}]
            /\ UNCHANGED failed
       ELSE Return(p, c.block, "error") /\ UNCHANGED file
  /\ UNCHANGED <<raced, torn, lost, losses>>

-----------------------------------------------------------------------------
(* What may go wrong.                                                       *)

Crash(p) == call[p] # Idle /\ Dies(p)

\* Nothing is synced: a file may be torn, or its rename undone, and no process survives.
PowerLoss ==
  /\ losses < MaxLosses
  /\ losses' = losses + 1
  /\ \E b \in Blocks, place \in {"full", "pfx"}, left \in {Torn, Absent} :
       /\ Exists(b, place)
       /\ file' = [file EXCEPT ![b][place] = left]
       /\ torn' = torn \union {x \in {b} : left = Torn}
       /\ lost' = lost \union {x \in {b} : left = Absent}
  /\ cache' = [p \in Processes |-> {}]
  /\ call' = [p \in Processes |-> Idle]
  /\ UNCHANGED <<confirmed, failed, raced>>

\* The system refuses the directory, the staging file, the writing, which has
\* then written a part, or the renaming: the error is returned, and nothing undone.
Refused(p) == LET c == call[p] IN
  /\ c.step # "idle"
  /\ call' = [call EXCEPT ![p] = Idle]
  /\ failed' = failed \union {Failure(c.block, TRUE)}
  /\ \/ UNCHANGED file
     \/ /\ c.step = "writing" /\ c.handle # "none"
        /\ file' = [file EXCEPT ![c.block][c.handle] = Torn]
  /\ UNCHANGED <<cache, confirmed, raced, torn, lost, losses>>

PutStep(p) == Encode(p) \/ Open(p) \/ Write(p) \/ Rename(p) \/ Refused(p)

Next ==
  \/ \E p \in Processes :
       \/ PutStep(p) \/ Evict(p) \/ Crash(p)
       \/ \E b \in Blocks : Get(p, b)
       \/ \E b \in Blocks, base \in Blocks \union {NoBlock} : BeginPut(p, b, base)
  \/ PowerLoss

Spec == Init /\ [][Next]_vars

-----------------------------------------------------------------------------
(* Properties.                                                              *)

Contents == Encodings \union {Absent, Empty, Torn}

Calls == [step : {"idle", "encoding", "opening", "writing", "renaming"},
          block : Blocks \union {NoBlock}, base : Blocks \union {NoBlock},
          encoding : Contents, handle : Places \union {"none"}]

\* Files hold contents; a put in progress knows its block and then its encoding.
CallsOK ==
  /\ file \in [Blocks -> [Places -> Contents]]
  /\ call \in [Processes -> Calls]
  /\ \A p \in Processes :
       /\ call[p].step # "idle" => call[p].block \in Blocks
       /\ call[p].step \notin {"idle", "encoding"} => call[p].encoding \in Encodings

\* The type invariant.
TypeOK ==
  /\ CallsOK
  /\ cache \in [Processes -> SUBSET Blocks]
  /\ {confirmed, raced, torn, lost} \subseteq SUBSET Blocks
  /\ failed \subseteq [block : Blocks, refused : BOOLEAN]
  /\ losses \in 0 .. MaxLosses

\* What keeps puts from failing, inductively: of two puts of a block in progress
\* the later found the earlier, and what an unraced put has staged stays staged.
Discipline ==
  /\ \A p, q \in Processes : \A b \in Blocks :
       p # q /\ Storing(p, b) /\ Storing(q, b) => b \in raced
  /\ \A p \in Processes :
       call[p].step \in {"writing", "renaming"} =>
         call[p].block \in raced \/ file[call[p].block]["staging"] # Absent

\* A block that a put has reported stored can be read from the files alone,
\* without any cache, unless two puts have raced for it or for a block its delta
\* rests on, or a loss of power has damaged one of them.  A put that finds a file
\* reports success without reading it, and bases are taken from caches: both rest
\* on a file being published only when it is complete and what it rests on is.
StoredIsReadable == \A b \in confirmed :
  Readable(b, {}) \/ Chain(b, {}) \intersect (raced \union torn \union lost) # {}

\* No read goes in circles, whatever bases the callers name and whatever the
\* caches hold, unless two puts have raced for a block on the circle or the file
\* of one was lost: then a block that rests on it may be cached unread, and become
\* its base.
ReadsTerminate == \A b \in Blocks :
  Endless(b, {}) => Chain(b, {}) \intersect (raced \union lost) # {}

\* A put to which the system refuses nothing reports an error only when another put
\* of the same block was in progress with it: what a crash or a refused put has
\* left in the staging file makes no later put fail.
PutFailsForACause == \A f \in failed : f.refused \/ f.block \in raced

\* A read comes to a whole block within MaxDepth steps, as delta_codec.rs has it:
\* "dependency depth cap <= 8 to prevent logical read amplification".
ChainsAreShort == \A b \in Blocks : Cardinality(Chain(b, {})) <= MaxDepth + 1
=============================================================================

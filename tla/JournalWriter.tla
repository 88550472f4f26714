--------------------------- MODULE JournalWriter ---------------------------
(***************************************************************************)
(* workspace-timing/src/cache/JournalWriter.ts over the journal file of    *)
(* persistence/JournalStorageProvider.ts.                                  *)
(*                                                                         *)
(* The heartbeat pushes one time slice at a time into the ring buffer.     *)
(* flushNow and truncate are asynchronous: each takes the promise mutex,   *)
(* and while its file operation is in flight the heartbeat goes on pushing.*)
(* A slice is identified by its position in the order of the pushes.       *)
(*                                                                         *)
(* Callers are the asynchronous calls that can be in flight together: the  *)
(* scheduler's flush, the flushAll of an ending session, the truncate of   *)
(* an idle pause.                                                          *)
(***************************************************************************)
EXTENDS Integers, Sequences, FiniteSets

CONSTANTS
  Callers,
  Capacity,     \* of the ring buffer
  MaxPushed,    \* bounds the slices pushed
  MaxFailures,  \* bounds the file operations that fail
  NoOne,        \* the mutex is free
  Torn          \* a journal line that does not parse

ASSUME CapacityAssumption == Capacity \in Nat \ {0}
ASSUME BoundsAssumption == MaxPushed \in Nat /\ MaxFailures \in Nat
ASSUME NoOneAssumption == NoOne \notin Callers
ASSUME TornAssumption == Torn \notin Nat

VARIABLES
  queue,      \* the ring buffer, see EvictingQueue
  pushed,     \* slices pushed so far: slices are 1 .. pushed
  file,       \* lines of the journal file
  openLine,   \* the file ends in a line without its newline
  mutex,      \* the caller that holds _flushingMutex
  pc,         \* where each call is
  batch,      \* what the holder of the mutex read with peekAll
  cleared,    \* slices pushed when the holder of the mutex cleared the buffer
  \* history
  evictions,  \* pushes that overwrote a slice
  glued,      \* appends that continued a torn line
  failures,   \* file operations that failed
  forgotten,  \* slices a truncate removed from the buffer or the file
  erased      \* slices that existed when the last successful truncate began

memory  == <<queue, pushed, evictions>>
journal == <<file, openLine, glued, forgotten, erased>>
lock    == <<mutex, pc, batch, cleared>>
vars    == <<memory, journal, lock, failures>>

Buffer == INSTANCE EvictingQueue WITH Items <- Nat

RangeOf(s) == {s[i] : i \in 1 .. Len(s)}

\* The slices readJournal returns: lines that do not parse are skipped.
Readable == RangeOf(file) \ {Torn}

Waiting == {"wantsFlush", "wantsTruncate"}
Holding == {"appending", "truncating"}

-----------------------------------------------------------------------------
Init ==
  /\ queue = << >>
  /\ pushed = 0
  /\ file = << >>
  /\ openLine = FALSE
  /\ mutex = NoOne
  /\ pc = [c \in Callers |-> "idle"]
  /\ batch = << >>
  /\ cleared = 0
  /\ evictions = 0
  /\ glued = 0
  /\ failures = 0
  /\ forgotten = {}
  /\ erased = 0

\* push(slice): synchronous, never waits for the mutex.
PushSlice ==
  /\ pushed < MaxPushed
  /\ pushed' = pushed + 1
  /\ queue' = Buffer!Pushed(queue, pushed + 1)
  /\ evictions' = evictions + Cardinality(Buffer!EvictedBy(queue))
  /\ UNCHANGED <<journal, lock, failures>>

Goto(c, label) == pc' = [pc EXCEPT ![c] = label]

\* flushNow behind the mutex: reads the batch; an empty one returns at once.
BeginFlush(c) ==
  /\ IF queue = << >>
       THEN Goto(c, "idle") /\ UNCHANGED <<mutex, batch>>
       ELSE Goto(c, "appending") /\ mutex' = c /\ batch' = queue
  /\ UNCHANGED <<memory, journal, cleared, failures>>

\* Mutant: a truncate that leaves the buffer to be flushed again.
BeginTruncateKeepingBuffer(c) ==
  /\ Goto(c, "truncating")
  /\ mutex' = c
  /\ cleared' = pushed
  /\ forgotten' = forgotten \union RangeOf(queue)
  /\ UNCHANGED <<memory, batch, file, openLine, glued, erased, failures>>

\* truncate behind the mutex: clears the buffer before the file.
BeginTruncate(c) ==
  /\ Goto(c, "truncating")
  /\ mutex' = c
  /\ cleared' = pushed
  /\ queue' = << >>
  /\ forgotten' = forgotten \union RangeOf(queue)
  /\ UNCHANGED <<pushed, evictions, batch, file, openLine, glued, erased, failures>>

Begin(c, label) ==
  \/ label = "wantsFlush" /\ BeginFlush(c)
  \/ label = "wantsTruncate" /\ BeginTruncate(c)

\* A caller calls flushNow (tryFlush whose strategy agreed, or flushAll) or
\* truncate.  It runs up to its first await: the file operation if the mutex
\* is free, the mutex otherwise.
Call(c, label) ==
  /\ pc[c] = "idle"
  /\ IF mutex = NoOne
       THEN Begin(c, label)
       ELSE Goto(c, label) /\ UNCHANGED <<memory, journal, failures, mutex, batch, cleared>>

\* Mutant: a waiting call does not test the mutex again when it resumes.
ResumeUnchecked(c) == pc[c] \in Waiting /\ Begin(c, pc[c])

\* Mutant: a waiting flush lets every waiting truncation go first.
ResumeAfterTruncates(c) ==
  /\ pc[c] \in Waiting
  /\ mutex = NoOne
  /\ pc[c] = "wantsFlush" => \A d \in Callers : pc[d] # "wantsTruncate"
  /\ Begin(c, pc[c])

\* The while loop: a waiting call tests the mutex again when it resumes.
Resume(c) ==
  /\ pc[c] \in Waiting
  /\ mutex = NoOne
  /\ Begin(c, pc[c])

\* finally: the mutex is released whatever the outcome.
Release(c) == Goto(c, "idle") /\ mutex' = NoOne

\* What an append of the lines b leaves in the file: the first of them
\* continues a line that has no newline, and the joined line does not parse.
Appended(b) ==
  IF openLine THEN [file EXCEPT ![Len(file)] = Torn] \o Tail(b) ELSE file \o b

\* Mutant: advances by what the buffer holds now instead of by the batch.
AdvancedPastBatch == Buffer!AdvanceBy(queue, Len(queue))

\* ringBuffer.advance(slices.length)
AdvancedByBatch == Buffer!AdvanceBy(queue, Len(batch))

\* appendBatch resolved: the batch is confirmed and leaves the buffer.
AppendSucceeds(c) ==
  /\ pc[c] = "appending"
  /\ file' = Appended(batch)
  /\ openLine' = FALSE
  /\ glued' = IF openLine THEN glued + 1 ELSE glued
  /\ queue' = AdvancedByBatch
  /\ Release(c)
  /\ UNCHANGED <<pushed, evictions, failures, batch, cleared, forgotten, erased>>

\* appendBatch rejected after n lines, and perhaps a fragment of the next one,
\* reached the file: the buffer keeps the whole batch for a retry.
AppendFails(c) ==
  /\ pc[c] = "appending"
  /\ failures < MaxFailures
  /\ failures' = failures + 1
  /\ \E n \in 0 .. Len(batch), fragment \in BOOLEAN :
       LET whole   == SubSeq(batch, 1, n)
           written == IF fragment THEN Append(whole, Torn) ELSE whole
       IN  /\ fragment => n < Len(batch)
           /\ IF written = << >>
                THEN UNCHANGED <<file, openLine, glued>>
                ELSE /\ file' = Appended(written)
                     /\ openLine' \in IF fragment THEN {TRUE} ELSE BOOLEAN
                     /\ glued' = IF openLine /\ n > 0 THEN glued + 1 ELSE glued
  /\ Release(c)
  /\ UNCHANGED <<memory, batch, cleared, forgotten, erased>>

\* The file is now empty.
Emptied ==
  /\ file' = << >>
  /\ openLine' = FALSE
  /\ forgotten' = forgotten \union Readable

TruncateSucceeds(c) ==
  /\ pc[c] = "truncating"
  /\ Emptied
  /\ erased' = cleared
  /\ Release(c)
  /\ UNCHANGED <<memory, failures, glued, batch, cleared>>

\* A failed writeFile may or may not have emptied the file.
TruncateFails(c) ==
  /\ pc[c] = "truncating"
  /\ failures < MaxFailures
  /\ failures' = failures + 1
  /\ Emptied \/ UNCHANGED <<file, openLine, forgotten>>
  /\ Release(c)
  /\ UNCHANGED <<memory, glued, erased, batch, cleared>>

IOCompletes(c) ==
  \/ AppendSucceeds(c)
  \/ AppendFails(c)
  \/ TruncateSucceeds(c)
  \/ TruncateFails(c)

Next ==
  \/ PushSlice
  \/ \E c \in Callers :
       \/ \E label \in Waiting : Call(c, label)
       \/ Resume(c)
       \/ IOCompletes(c)

Spec == Init /\ [][Next]_vars

\* File operations end, and a waiting call is resumed in its turn: promise
\* reactions run in the order they were registered, so no call is overtaken
\* for ever by calls that came later.
Fairness ==
  \A c \in Callers : WF_vars(IOCompletes(c)) /\ SF_vars(Resume(c))

FairSpec == Spec /\ Fairness

-----------------------------------------------------------------------------
(* Properties.                                                             *)

Slices == 1 .. pushed

TypeOK ==
  /\ queue \in Seq(Nat) /\ Len(queue) <= Capacity
  /\ pushed \in 0 .. MaxPushed
  /\ file \in Seq(Nat \union {Torn})
  /\ openLine \in BOOLEAN
  /\ mutex \in Callers \union {NoOne}
  /\ pc \in [Callers -> Waiting \union Holding \union {"idle"}]
  /\ batch \in Seq(Nat)
  /\ cleared \in Nat
  /\ evictions \in Nat /\ glued \in Nat
  /\ failures \in 0 .. MaxFailures
  /\ forgotten \subseteq Nat
  /\ erased \in Nat

\* "Asynchronous mutual exclusion": the file operations of flushNow and
\* truncate never overlap, also when several calls wait for one release.
FileOperationsExclusive ==
  \A c \in Callers : pc[c] \in Holding <=> mutex = c

\* Slices that are nowhere and that no truncate was asked to discard.
Lost == Slices \ (RangeOf(queue) \union Readable \union forgotten)

\* The two-phase commit of JournalWriter: as long as nothing was overwritten
\* and no append continued a torn line, no slice is lost, in particular not
\* by a failed append or by pushes during an append.
NothingLostWithoutCause == evictions = 0 /\ glued = 0 => Lost = {}

\* Without failures a slice is written once, in push order: replay adds up the
\* lines, so a line written twice would be time counted twice.
WrittenOnceInOrder ==
  failures = 0 => \A i, j \in 1 .. Len(file) : i < j => file[i] < file[j]

\* Only the retry of a failed append writes a slice again, and each failure costs
\* one repetition at most, so that time counted twice can be told from the failures.
RepeatedOnlyByRetry ==
  \A s \in Slices : Cardinality({i \in 1 .. Len(file) : file[i] = s}) <= 1 + failures

\* truncate clears the buffer with the file "to rule out resurrection": what
\* existed when a successful truncate began never comes back to either.
NoResurrection == \A s \in RangeOf(queue) \union Readable : s > erased

\* Every call of flushNow and truncate settles, whether its file operation
\* succeeded or not and whoever held the mutex when it was made.
CallsSettle == \A c \in Callers : pc[c] # "idle" ~> pc[c] = "idle"

\* RingBuffer.advance "clears the slots whose consumption was confirmed": a
\* successful append removes from the buffer only slices that are in the file.
AdvanceRemovesOnlyConfirmed ==
  [][\A c \in Callers :
       AppendSucceeds(c) => RangeOf(queue) \ RangeOf(queue') \subseteq Readable']_vars
=============================================================================

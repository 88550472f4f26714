------------------------- MODULE MCSessionRecovery -------------------------
EXTENDS SessionRecovery

\* A process that does not tick has no use for the time of its last checkpoint, nor
\* one whose next is due; one that has not counted anything has none for that of a
\* heartbeat.
Before(at, used) == IF used THEN at ELSE 0
NotDue == ticking /\ now - lastSave < SaveEvery

\* The properties ask for these alone.
Excused == incidents \intersect {"earlyPause", "lateSave", "primary", "truncate"}

\* A watermark tells the slices before it from those after it, of which the next may be
\* that of now, and the last save is only asked for when a session is open.
Between(mark) == Max({0} \union {t \in Slices \union {now} : t <= mark})
Relevant(d) ==
  IF d = Missing THEN d
  ELSE [d EXCEPT !.watermark = Between(@), !.saved = IF d.start = 0 THEN 0 ELSE @]

\* A pause asks whether idleness began before the watermark of a paused session, too.
MemView == IF mem.running THEN [mem EXCEPT !.data = Relevant(@)] ELSE mem

\* load does not read the backup once the primary is there, and what a call saves
\* there then matters to a start alone, which goes on with it.
DiskView ==
  [primary |-> Relevant(disk.primary),
   backup  |-> IF disk.primary # Missing THEN Missing ELSE Relevant(disk.backup)]
UsedData(call) ==
  IF call.kind = "start" \/ (Head(call.todo) = "primary" \/ disk.primary = Missing)
  THEN [call EXCEPT !.data = Relevant(@)] ELSE [call EXCEPT !.data = EmptyData]
CallsView == [i \in DOMAIN calls |-> UsedData(calls[i])]

WithoutStaleTimes ==
  <<now, Before(lastTick, mem # NewMem),
    Before(lastSave, NotDue), beatDue, state, ticking, MemView, journal, DiskView, backupCount,
    CallsView, crashes, happened, Excused>>
=============================================================================

------------------------ MODULE MCActivityTracking ------------------------
EXTENDS ActivityTracking

\* At most this many handlers wait for the disk at a time.
MaxInFlight == 2
FewInFlight == InFlight <= MaxInFlight

\* Of the watcher's times, a step reads only these: a beat if it is of this moment, and
\* the others in the mode whose idleness they date.  Every action that enters a mode
\* sets its times.
Read(w) ==
  [w EXCEPT !.manualBeat = IF @ = now THEN @ ELSE 0,
            !.aiBeat = IF @ = now THEN @ ELSE 0,
            !.lastManual = IF w.mode = "manual" THEN @ ELSE 0,
            !.lastAi = IF w.mode = "ai" THEN @ ELSE 0,
            !.lastActivity = IF w.mode = "ai" THEN @ ELSE 0]

\* What the watcher told in the last step influences no step, nor does its history.
WithoutReports ==
  <<now, Read(watcher), tickDue, timer, state, pausing, resuming, wait, lastTick, day, beatDue,
    slept, mishaps>>
=============================================================================

--------------------------- MODULE MCTimerEngine ---------------------------
EXTENDS TimerEngine

\* The sums grow without bound while the clock stands still (a session can be
\* rotated back again and again); they are checked up to this bound.
SumBound == 7
SumsBounded == timer.manual + timer.ai <= SumBound

\* The recorded intervals and the idle sum do not influence any step.
WithoutRecords == <<now, [timer EXCEPT !.sessions = {}, !.idles = {}, !.idle = 0]>>
=============================================================================

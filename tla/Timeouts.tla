-------------------------------- MODULE Timeouts --------------------------------
(***************************************************************************)
(* OOBase::Timeout and Clock (src/Timeout.cpp, POSIX): a deadline, and     *)
(* what is left of it at any later moment; and Mutex::acquire(timeout)     *)
(* (src/Mutex.cpp), which gives the deadline to pthread_mutex_timedlock(). *)
(*                                                                         *)
(* Times are [sec, nsec].  A second has Second nanoseconds, a millisecond  *)
(* Milli and a microsecond Micro of them.                                  *)
(***************************************************************************)
EXTENDS Integers

CONSTANTS
  Second, Milli, Micro,
  LastSecond,    \* bound: the clock stops then
  SinceEpoch     \* what CLOCK_REALTIME is ahead of CLOCK_MONOTONIC, in seconds

VARIABLES
  now,           \* CLOCK_MONOTONIC
  end,           \* m_end
  null,          \* m_null
  start,         \* m_start of a Clock
  gaveUp         \* history: acquire(timeout) returned FALSE, at this time or never

timeoutsVars == <<now, end, null, start, gaveUp>>

Time == [sec : 0 .. LastSecond, nsec : 0 .. Second - 1]
Never == [sec |-> -1, nsec |-> 0]

Init ==
  /\ now = [sec |-> 0, nsec |-> 0] /\ end = now /\ start = now
  /\ null = TRUE /\ gaveUp = Never

Total(t) == t.sec * Second + t.nsec

Ticks ==
  /\ now.sec < LastSecond
  /\ now' = IF now.nsec + 1 < Second THEN [now EXCEPT !.nsec = @ + 1] ELSE [sec |-> now.sec + 1, nsec |-> 0]
  /\ UNCHANGED <<end, null, start, gaveUp>>

\* Mutant: nothing is carried.
CarriedNothing(x, y) == y

\* timespec_subtract(), by carrying into y first.
Carried(x, y) ==
  LET up   == (y.nsec - x.nsec) \div Second + 1
      y1   == IF x.nsec < y.nsec THEN [sec |-> y.sec + up, nsec |-> y.nsec - Second * up] ELSE y
      down == (x.nsec - y1.nsec) \div Second
  IN  IF x.nsec - y1.nsec > Second THEN [sec |-> y1.sec - down, nsec |-> y1.nsec + Second * down] ELSE y1

Subtract(x, y) == LET c == Carried(x, y) IN [sec |-> x.sec - c.sec, nsec |-> x.nsec - c.nsec]

\* reset(seconds, microseconds) adds to the time there is, and carries.
Added(t, seconds, micros) ==
  LET nsec == t.nsec + micros * Micro
  IN  IF nsec >= Second THEN [sec |-> t.sec + seconds + nsec \div Second, nsec |-> nsec % Second]
      ELSE [sec |-> t.sec + seconds, nsec |-> nsec]

Reset(seconds, micros) ==
  /\ end' = Added(now, seconds, micros) /\ null' = FALSE
  /\ gaveUp' = Never
  /\ UNCHANGED <<now, start>>

ResetToInfinite == null' = TRUE /\ gaveUp' = Never /\ UNCHANGED <<now, end, start>>
ClockReset == start' = now /\ UNCHANGED <<now, end, null, gaveUp>>

HasExpired == ~null /\ ~(now.sec < end.sec \/ (now.sec = end.sec /\ now.nsec < end.nsec))

\* What is left: get_timespec(), get_timeval() and millisecs(), and the time a
\* Clock has measured.  Only the first does not stop at 0.
TimespecLeft == Subtract(end, now)
AtLeast0(d) == IF d.sec < 0 THEN [sec |-> 0, usec |-> 0] ELSE [sec |-> d.sec, usec |-> d.nsec \div Micro]
TimevalLeft == AtLeast0(Subtract(end, now))
MillisLeft ==
  LET d == Subtract(end, now)
  IN  IF d.sec < 0 THEN 0 ELSE d.sec * (Second \div Milli) + d.nsec \div Milli
Measured == AtLeast0(Subtract(now, start))

\* operator < of two timeouts that end at a and b.
Less(a, b) == a.sec < b.sec \/ (a.sec = b.sec /\ a.nsec < b.nsec)

\* acquire(timeout) of a mutex that another thread has all along: the lock is
\* given up when CLOCK_REALTIME is past the deadline.
GivesUp ==
  /\ ~null /\ gaveUp = Never
  /\ Total(now) + SinceEpoch * Second >= Total(end)
  /\ gaveUp' = now
  /\ UNCHANGED <<now, end, null, start>>

Next ==
  \/ Ticks \/ ResetToInfinite \/ ClockReset \/ GivesUp
  \/ \E seconds \in 0 .. 1, micros \in 0 .. 2 * (Second \div Micro) : Reset(seconds, micros)

Spec == Init /\ [][Next]_timeoutsVars

-----------------------------------------------------------------------------
\* At every moment before and after the deadline the forms in which the time
\* left is given agree with it, rounded down: none is longer, none is shorter by
\* a unit, all are 0 once has_expired() says so, and the nanoseconds are in range
\* also when get_timespec() is below 0; as does what a Clock has measured.
TimeLeftAgrees ==
  LET left == Total(end) - Total(now)
      In(unit, v) == v * unit <= left /\ left < (v + 1) * unit
      used == Total(now) - Total(start)
  IN  /\ end.nsec \in 0 .. Second - 1
      /\ HasExpired <=> ~null /\ left <= 0
      /\ Total(TimespecLeft) = left /\ TimespecLeft.nsec \in 0 .. Second - 1
      /\ IF left >= 0 THEN In(Milli, MillisLeft) /\ In(Micro, TimevalLeft.sec * (Second \div Micro) + TimevalLeft.usec)
         ELSE MillisLeft = 0 /\ TimevalLeft = [sec |-> 0, usec |-> 0]
      /\ Measured.sec * Second + Measured.usec * Micro = used - (used % Micro)
      /\ Less(now, end) <=> left > 0

\* A Mutex "can be acquired with a timeout": acquire(timeout) does not give up
\* before the timeout has expired.
TimedAcquireWaits == gaveUp # Never => Total(gaveUp) >= Total(end)
=============================================================================

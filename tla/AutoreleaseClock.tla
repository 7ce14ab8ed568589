-------------------------- MODULE AutoreleaseClock --------------------------
(***************************************************************************)
(* The tick arithmetic of the autorelease queue                            *)
(* (object/autorelease_queue.h): a counter that wraps at TimeMax, the      *)
(* largest value of time_point (2^32 - 1 in the program), so that it takes *)
(* the values 0 .. TimeMax - 1.                                            *)
(***************************************************************************)
EXTENDS Integers

CONSTANTS TimeMax,          \* numeric_limits<time_point>::max()
          ObjLifeInTicks    \* obj_lifetime / tick_duration: 5 in the program

ASSUME ClockAssumption ==
  /\ TimeMax \in Nat
  /\ ObjLifeInTicks \in Nat
  /\ 1 < ObjLifeInTicks
  /\ ObjLifeInTicks < TimeMax

Times == 0 .. TimeMax - 1

\* A wrong variant: the wrapped difference forgets that TimeMax itself is not a
\* time.
TimeSubtractWide(minuend, subtrahend) ==
  IF minuend >= subtrahend
  THEN minuend - subtrahend
  ELSE (TimeMax + 1) - (subtrahend - minuend)

TimeSubtract(minuend, subtrahend) ==
  IF minuend >= subtrahend
  THEN minuend - subtrahend
  ELSE TimeMax - (subtrahend - minuend)

TimeAdd(a, b) ==
  IF TimeMax - a > b THEN a + b ELSE b - (TimeMax - a)

\* A wrong variant: what expires at once is never seen to have expired.
IsExpiredLate(now, pushed) == TimeSubtract(now, pushed) > ObjLifeInTicks

\* The +1 of tick(): the ticks 0, 1, 2, 3, 4 are a lifetime of five.
IsExpired(now, pushed) == TimeSubtract(now, pushed) + 1 >= ObjLifeInTicks

\* The push time of an object nobody outside can see: it expires at once.
ExpiredTime(now) == TimeSubtract(now, ObjLifeInTicks)
=============================================================================

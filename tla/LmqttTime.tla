----------------------------- MODULE LmqttTime -----------------------------
(***************************************************************************)
(* lmqtt_time_t: a moment in seconds and nanoseconds, and the time that is *)
(* left until some seconds after it.                                       *)
(***************************************************************************)
EXTENDS Integers

CONSTANT Second   \* the nanoseconds of a second: 10^9 in the code

ASSUME SecondAssumption == Second \in Nat \ {0}

Times == [secs : Nat, nsecs : 0 .. Second - 1]
Zero == [secs |-> 0, nsecs |-> 0]

(* A moment, or a span, in nanoseconds.                                    *)
Total(t) == t.secs * Second + t.nsecs

(* The clock, one nanosecond later (clock_gettime).                        *)
Later(t) ==
  IF t.nsecs + 1 < Second THEN [t EXCEPT !.nsecs = @ + 1]
  ELSE [secs |-> t.secs + 1, nsecs |-> 0]

(* The slip of borrowing nanoseconds without giving back a second.         *)
TimeoutTo_NoBorrow(tm, when, cur) ==
  LET nsecs == IF tm.nsecs < cur.nsecs THEN tm.nsecs + Second ELSE tm.nsecs
  IN IF cur.secs <= tm.secs + when
       THEN [secs |-> tm.secs + when - cur.secs, nsecs |-> nsecs - cur.nsecs]
       ELSE Zero

(* What is left at cur of when seconds after tm, and Zero if nothing is.   *)
TimeoutTo(tm, when, cur) ==
  LET borrow == tm.nsecs < cur.nsecs
      secs == tm.secs + when - (IF borrow THEN 1 ELSE 0)
      nsecs == tm.nsecs + (IF borrow THEN Second ELSE 0)
  IN IF cur.secs <= secs
       THEN [secs |-> secs - cur.secs, nsecs |-> nsecs - cur.nsecs]
       ELSE Zero
=============================================================================

------------------------------- MODULE TimeOps ------------------------------
(***************************************************************************)
(* Arithmetic on struct timespec, time_ops.h: seconds of a signed integer  *)
(* type and a part of a second.  Sums and differences carry and borrow,    *)
(* products are rounded toward zero, and what does not fit is clamped to   *)
(* the ends of the range.  A rate, a double in the code, is a fraction     *)
(* num / den.                                                              *)
(***************************************************************************)
EXTENDS Integers

CONSTANTS
  SubSec,      \* SEC_TO_nSEC: parts of a second
  MaxSec       \* FT_TIME_MAX: the largest number of seconds

ASSUME TimeAssumption ==
  /\ SubSec \in Nat \ {0}
  /\ MaxSec \in Nat

MinSec == -MaxSec - 1                            \* FT_TIME_MIN

Timespec == [sec : MinSec..MaxSec, nsec : 0..SubSec - 1]

\* The number of parts of a second since the epoch.
Value(t) == t.sec * SubSec + t.nsec
MaxTime == [sec |-> MaxSec, nsec |-> SubSec - 1]
MinTime == [sec |-> MinSec, nsec |-> 0]

timespeccmp_ge(a, b) ==
  IF a.sec = b.sec THEN a.nsec >= b.nsec ELSE a.sec >= b.sec

\* Mutant: nothing is clamped.
InRange_unclamped(sec, nsec) == [sec |-> sec, nsec |-> nsec]

\* The end of timeradd2 and timersub2: what is out of range is clamped.
InRange(sec, nsec) ==
  IF sec > MaxSec THEN MaxTime
  ELSE IF sec < MinSec THEN MinTime
  ELSE [sec |-> sec, nsec |-> nsec]

Carried(sec, nsec) ==
  IF nsec >= SubSec THEN InRange(sec + 1, nsec - SubSec)
  ELSE IF nsec < 0 THEN InRange(sec - 1, nsec + SubSec)
  ELSE InRange(sec, nsec)

timespecadd(a, b) == Carried(a.sec + b.sec, a.nsec + b.nsec)
timespecsub(a, b) == Carried(a.sec - b.sec, a.nsec - b.nsec)

\* Division and remainder of C, which round toward zero.
Quot(a, b) == IF a >= 0 THEN a \div b ELSE -((-a) \div b)
Rem(a, b) == a - b * Quot(a, b)

\* The end of timermul2: parts of a second to a normalised timespec.
Split(t) ==
  IF Rem(t, SubSec) < 0
  THEN [sec |-> Quot(t - Rem(t, SubSec), SubSec) - 1, nsec |-> Rem(t, SubSec) + SubSec]
  ELSE [sec |-> Quot(t - Rem(t, SubSec), SubSec), nsec |-> Rem(t, SubSec)]

timespecmul(t, num, den) ==
  IF Value(t) * num > Value(MaxTime) * den THEN Split(Value(MaxTime))
  ELSE IF Value(t) * num < Value(MinTime) * den THEN Split(Value(MinTime))
  ELSE Split(Quot(Value(t) * num, den))

\* normalize_timespec_value: nsec may be anything.
normalize_timespec_value(t) ==
  IF 0 <= t.nsec /\ t.nsec < SubSec THEN t
  ELSE IF Rem(t.nsec, SubSec) < 0
  THEN [sec |-> t.sec + Quot(t.nsec, SubSec) - 1, nsec |-> Rem(t.nsec, SubSec) + SubSec]
  ELSE [sec |-> t.sec + Quot(t.nsec, SubSec), nsec |-> Rem(t.nsec, SubSec)]
=============================================================================

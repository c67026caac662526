-------------------------- MODULE WaitCalls_proofs --------------------------
(***************************************************************************)
(* Proofs about the conversions of times and the calls that block, for any *)
(* width of time_t, rates, start times, lengths and deadlines within       *)
(* RangeAssumption: WaitInv says what the call under way was given and how *)
(* far that is from what the program asked.  Every call that blocks, but   *)
(* for pthread_cond_timedwait, establishes it; Waits_proofs goes on.       *)
(***************************************************************************)
EXTENDS Waits, TLAPS
-----------------------------------------------------------------------------
(* What timespecadd, timespecsub and timespecmul return, for every width.  *)

\* The number x, or the end of the range it lies beyond.
Clamped(x) ==
  IF x > Value(MaxTime) THEN Value(MaxTime)
  ELSE IF x < Value(MinTime) THEN Value(MinTime) ELSE x

\* Distribution, for the products the provers do not multiply out.
LEMMA Distribute ==
  ASSUME NEW x \in Int, NEW y \in Int, NEW z \in Int
  PROVE  /\ (x + y) * z = x * z + y * z
         /\ (x - y) * z = x * z - y * z
  OBVIOUS

\* More seconds are more.
LEMMA Monotone ==
  ASSUME NEW x \in Int, NEW y \in Int, NEW z \in Nat, x <= y
  PROVE  x * z <= y * z
  OBVIOUS

\* One carry or one borrow is enough for two normalised operands.
LEMMA CarriedValue ==
  ASSUME NEW sec \in Int, NEW nsec \in Int, -SubSec < nsec, nsec < 2 * SubSec
  PROVE  /\ Carried(sec, nsec) \in Timespec
         /\ Value(Carried(sec, nsec)) = Clamped(sec * SubSec + nsec)
\* InRange clamps the value of what it is given.
<1>range. ASSUME NEW s \in Int, NEW n \in 0..SubSec - 1
          PROVE  /\ InRange(s, n) \in Timespec
                 /\ Value(InRange(s, n)) = Clamped(s * SubSec + n)
  <2> USE TimeAssumption
  <2> DEFINE v == s * SubSec + n
  <2>0. /\ s * SubSec \in Int /\ MaxSec * SubSec \in Int /\ MinSec * SubSec \in Int
        /\ SubSec \in Nat /\ SubSec > 0 /\ MaxSec \in Int /\ MinSec \in Int /\ MinSec < MaxSec
    BY DEF MinSec
  <2>1. /\ Value(MaxTime) = MaxSec * SubSec + (SubSec - 1)
        /\ Value(MinTime) = MinSec * SubSec
    BY <2>0 DEF Value, MaxTime, MinTime
  <2>2. MinSec * SubSec <= MaxSec * SubSec
    BY <2>0, Monotone
  <2>3. CASE s > MaxSec
    <3>1. (MaxSec + 1) * SubSec <= s * SubSec
      BY <2>0, <2>3, Monotone
    <3>2. (MaxSec + 1) * SubSec = MaxSec * SubSec + SubSec
      BY <2>0, Distribute
    <3>3. v > Value(MaxTime)
      BY <2>0, <2>1, <3>1, <3>2
    <3>4. InRange(s, n) = MaxTime
      BY <2>3 DEF InRange
    <3>5. MaxTime \in Timespec
      BY <2>0 DEF MaxTime, Timespec
    <3> QED  BY <3>3, <3>4, <3>5 DEF Clamped
  <2>4. CASE s < MinSec
    <3>1. (s + 1) * SubSec <= MinSec * SubSec
      BY <2>0, <2>4, Monotone
    <3>2. (s + 1) * SubSec = s * SubSec + SubSec
      BY <2>0, Distribute
    <3>3. v < Value(MinTime) /\ v <= Value(MaxTime)
      BY <2>0, <2>1, <2>2, <3>1, <3>2
    <3>4. InRange(s, n) = MinTime
      BY <2>0, <2>4 DEF InRange
    <3>5. MinTime \in Timespec
      BY <2>0 DEF MinTime, Timespec
    <3>6. Value(MaxTime) \in Int /\ Value(MinTime) \in Int /\ v \in Int
      BY <2>0, <2>1
    <3> QED  BY <3>3, <3>4, <3>5, <3>6 DEF Clamped
  <2>5. CASE MinSec <= s /\ s <= MaxSec
    <3>1. MinSec * SubSec <= s * SubSec /\ s * SubSec <= MaxSec * SubSec
      BY <2>0, <2>5, Monotone
    <3>2. v >= Value(MinTime) /\ v <= Value(MaxTime)
      BY <2>0, <2>1, <3>1
    <3>3. InRange(s, n) = [sec |-> s, nsec |-> n]
      BY <2>0, <2>5 DEF InRange
    <3>4. [sec |-> s, nsec |-> n] \in Timespec
      BY <2>0, <2>5 DEF Timespec
    <3>5. Value([sec |-> s, nsec |-> n]) = v
      BY DEF Value
    <3>6. Value(MaxTime) \in Int /\ Value(MinTime) \in Int /\ v \in Int
      BY <2>0, <2>1
    <3>7. Clamped(v) = v
      BY <3>2, <3>6 DEF Clamped
    <3> QED  BY <3>3, <3>4, <3>5, <3>7
  <2> QED  BY <2>0, <2>3, <2>4, <2>5
<1> USE TimeAssumption
<1>0. SubSec \in Nat /\ SubSec > 0 /\ sec * SubSec \in Int
  OBVIOUS
<1>1. CASE nsec >= SubSec
  <2>1. nsec - SubSec \in 0..SubSec - 1 /\ sec + 1 \in Int
    BY <1>0, <1>1
  <2>2. Carried(sec, nsec) = InRange(sec + 1, nsec - SubSec)
    BY <1>1 DEF Carried
  <2>3. (sec + 1) * SubSec = sec * SubSec + SubSec
    BY <1>0, Distribute
  <2>4. (sec + 1) * SubSec + (nsec - SubSec) = sec * SubSec + nsec
    BY <1>0, <2>3
  <2> QED  BY <2>1, <2>2, <2>4, <1>range
<1>2. CASE nsec < 0
  <2>1. nsec + SubSec \in 0..SubSec - 1 /\ sec - 1 \in Int
    BY <1>0, <1>2
  <2>2. Carried(sec, nsec) = InRange(sec - 1, nsec + SubSec)
    BY <1>0, <1>2 DEF Carried
  <2>3. (sec - 1) * SubSec = sec * SubSec - SubSec
    BY <1>0, Distribute
  <2>4. (sec - 1) * SubSec + (nsec + SubSec) = sec * SubSec + nsec
    BY <1>0, <2>3
  <2> QED  BY <2>1, <2>2, <2>4, <1>range
<1>3. CASE 0 <= nsec /\ nsec < SubSec
  <2>1. nsec \in 0..SubSec - 1
    BY <1>0, <1>3
  <2>2. Carried(sec, nsec) = InRange(sec, nsec)
    BY <1>0, <1>3 DEF Carried
  <2> QED  BY <2>1, <2>2, <1>range
<1> QED  BY <1>0, <1>1, <1>2, <1>3

\* timespecadd returns the normalised sum, clamped to the range of time_t:
\* a deadline far away stays far away and never wraps around.
THEOREM AddClamped ==
  ASSUME NEW a \in Timespec, NEW b \in Timespec
  PROVE  /\ timespecadd(a, b) \in Timespec
         /\ Value(timespecadd(a, b)) = Clamped(Value(a) + Value(b))
<1> USE TimeAssumption
<1>1. /\ a.sec \in Int /\ b.sec \in Int /\ a.nsec \in Int /\ b.nsec \in Int
      /\ 0 <= a.nsec /\ a.nsec < SubSec /\ 0 <= b.nsec /\ b.nsec < SubSec
      /\ a.sec * SubSec \in Int /\ b.sec * SubSec \in Int /\ SubSec \in Int
  BY DEF Timespec, MinSec
<1>2. (a.sec + b.sec) * SubSec = a.sec * SubSec + b.sec * SubSec
  BY <1>1, Distribute
<1>3. (a.sec + b.sec) * SubSec + (a.nsec + b.nsec) = Value(a) + Value(b)
  BY <1>1, <1>2 DEF Value
<1>4. -SubSec < a.nsec + b.nsec /\ a.nsec + b.nsec < 2 * SubSec
  BY <1>1
<1>5. a.sec + b.sec \in Int /\ a.nsec + b.nsec \in Int
  BY <1>1
<1>6. /\ Carried(a.sec + b.sec, a.nsec + b.nsec) \in Timespec
      /\ Value(Carried(a.sec + b.sec, a.nsec + b.nsec))
           = Clamped((a.sec + b.sec) * SubSec + (a.nsec + b.nsec))
  BY <1>4, <1>5, CarriedValue
<1> QED  BY <1>3, <1>6, Zenon DEF timespecadd

\* timespecsub returns the normalised difference, clamped likewise, for
\* times in any order.
THEOREM SubClamped ==
  ASSUME NEW a \in Timespec, NEW b \in Timespec
  PROVE  /\ timespecsub(a, b) \in Timespec
         /\ Value(timespecsub(a, b)) = Clamped(Value(a) - Value(b))
<1> USE TimeAssumption
<1>1. /\ a.sec \in Int /\ b.sec \in Int /\ a.nsec \in Int /\ b.nsec \in Int
      /\ 0 <= a.nsec /\ a.nsec < SubSec /\ 0 <= b.nsec /\ b.nsec < SubSec
      /\ a.sec * SubSec \in Int /\ b.sec * SubSec \in Int /\ SubSec \in Int
  BY DEF Timespec, MinSec
<1>2. (a.sec - b.sec) * SubSec = a.sec * SubSec - b.sec * SubSec
  BY <1>1, Distribute
<1>3. (a.sec - b.sec) * SubSec + (a.nsec - b.nsec) = Value(a) - Value(b)
  BY <1>1, <1>2 DEF Value
<1>4. -SubSec < a.nsec - b.nsec /\ a.nsec - b.nsec < 2 * SubSec
  BY <1>1
<1>5. a.sec - b.sec \in Int /\ a.nsec - b.nsec \in Int
  BY <1>1
<1>6. /\ Carried(a.sec - b.sec, a.nsec - b.nsec) \in Timespec
      /\ Value(Carried(a.sec - b.sec, a.nsec - b.nsec))
           = Clamped((a.sec - b.sec) * SubSec + (a.nsec - b.nsec))
  BY <1>4, <1>5, CarriedValue
<1> QED  BY <1>3, <1>6, Zenon DEF timespecsub
\* Division rounds toward zero.
LEMMA QuotRem ==
  ASSUME NEW x \in Int, NEW z \in Nat \ {0}
  PROVE  /\ Quot(x, z) \in Int /\ Rem(x, z) \in Int
         /\ x = z * Quot(x, z) + Rem(x, z)
         /\ x >= 0 => Quot(x, z) >= 0 /\ 0 <= Rem(x, z) /\ Rem(x, z) < z
         /\ x < 0 => Quot(x, z) <= 0 /\ -z < Rem(x, z) /\ Rem(x, z) <= 0
<1>1. ASSUME NEW y \in Nat
      PROVE  /\ y \div z \in Nat
             /\ 0 <= y - z * (y \div z) /\ y - z * (y \div z) < z
  OBVIOUS
<1>2. CASE x >= 0
  BY <1>1, <1>2 DEF Quot, Rem
<1>3. CASE x < 0
  <2>1. -x \in Nat
    BY <1>3
  <2>2. Quot(x, z) = -((-x) \div z)
    BY <1>3 DEF Quot
  <2>3. Rem(x, z) = x + z * ((-x) \div z)
    BY <1>1, <2>1, <2>2 DEF Rem
  <2> QED  BY <1>1, <1>3, <2>1, <2>2, <2>3
<1> QED  BY <1>2, <1>3

\* Split normalises and loses nothing.
LEMMA SplitValue ==
  ASSUME NEW t \in Int
  PROVE  /\ Split(t).sec \in Int /\ Split(t).nsec \in 0..SubSec - 1
         /\ Value(Split(t)) = t
         /\ Value(MinTime) <= t /\ t <= Value(MaxTime) => Split(t) \in Timespec
\* Division of a multiple is exact.
<1>exact. ASSUME NEW q \in Int, NEW z \in Nat \ {0}
          PROVE  Quot(z * q, z) = q
  <2> DEFINE d == q - Quot(z * q, z)
  <2>1. z * q \in Int /\ z \in Nat /\ z > 0
    OBVIOUS
  <2>2. /\ Quot(z * q, z) \in Int /\ Rem(z * q, z) \in Int
        /\ z * q = z * Quot(z * q, z) + Rem(z * q, z)
        /\ -z < Rem(z * q, z) /\ Rem(z * q, z) < z
    BY <2>1, QuotRem
  <2>3. d \in Int
    BY <2>2
  <2>4. d * z = q * z - Quot(z * q, z) * z
    BY <2>1, <2>2, Distribute
  <2>5. d * z = Rem(z * q, z)
    BY <2>1, <2>2, <2>4
  <2>6. ~(d >= 1)
    BY <2>1, <2>2, <2>3, <2>5, Monotone, 1 * z = z
  <2>7. ~(d <= -1)
    BY <2>1, <2>2, <2>3, <2>5, Monotone, (-1) * z = -z
  <2> QED  BY <2>2, <2>3, <2>6, <2>7
<1> USE TimeAssumption
<1> DEFINE q == Quot(t, SubSec)
           r == Rem(t, SubSec)
<1>0. SubSec \in Nat \ {0} /\ SubSec \in Nat /\ SubSec > 0
  OBVIOUS
<1>1. /\ q \in Int /\ r \in Int /\ t = SubSec * q + r
      /\ -SubSec < r /\ r < SubSec
  BY <1>0, QuotRem
<1> HIDE DEF q, r
<1>2. t - r = SubSec * q
  BY <1>0, <1>1
<1>3. Quot(t - r, SubSec) = q
  BY <1>0, <1>1, <1>2, <1>exact
<1>4. Split(t) = IF r < 0 THEN [sec |-> q - 1, nsec |-> r + SubSec] ELSE [sec |-> q, nsec |-> r]
  BY <1>3 DEF Split, r
<1>5. (q - 1) * SubSec = q * SubSec - SubSec /\ q * SubSec = SubSec * q
  BY <1>0, <1>1, Distribute
<1>6. /\ Split(t).sec \in Int /\ Split(t).nsec \in 0..SubSec - 1
      /\ Value(Split(t)) = t
  <2>1. CASE r < 0
    <3>1. Split(t).sec = q - 1 /\ Split(t).nsec = r + SubSec
      BY <1>4, <2>1
    <3>2. Value(Split(t)) = (q - 1) * SubSec + (r + SubSec)
      BY <3>1 DEF Value
    <3>3. q * SubSec \in Int /\ SubSec * q \in Int
      BY <1>0, <1>1
    <3>4. (q - 1) * SubSec + (r + SubSec) = t
      BY <1>0, <1>1, <1>5, <3>3
    <3> QED  BY <1>0, <1>1, <2>1, <3>1, <3>2, <3>4
  <2>2. CASE ~(r < 0)
    BY <1>0, <1>1, <1>4, <1>5, <2>2 DEF Value
  <2> QED  BY <2>1, <2>2
<1>7. ASSUME Value(MinTime) <= t, t <= Value(MaxTime)
      PROVE  Split(t) \in Timespec
  <2> DEFINE s == Split(t).sec
             n == Split(t).nsec
  <2>1. s \in Int /\ n \in 0..SubSec - 1 /\ t = s * SubSec + n /\ Split(t) = [sec |-> s, nsec |-> n]
    BY <1>4, <1>6 DEF Value
  <2> HIDE DEF s, n
  <2>2. /\ MinSec * SubSec <= s * SubSec + n
        /\ s * SubSec + n <= MaxSec * SubSec + (SubSec - 1)
    <3>1. Value(MinTime) = MinSec * SubSec + 0 /\ Value(MaxTime) = MaxSec * SubSec + (SubSec - 1)
      BY DEF Value, MinTime, MaxTime
    <3>2. MinSec * SubSec \in Int
      BY <1>0 DEF MinSec
    <3> QED  BY <1>7, <2>1, <3>1, <3>2
  <2>3. MinSec \in Int /\ MaxSec \in Int /\ MinSec * SubSec \in Int /\ MaxSec * SubSec \in Int /\ s * SubSec \in Int
    BY <1>0, <2>1 DEF MinSec
  <2>4. ~(s + 1 <= MinSec)
    BY <1>0, <2>1, <2>2, <2>3, Monotone, Distribute
  <2>5. ~(MaxSec + 1 <= s)
    <3>1. (MaxSec + 1) * SubSec = MaxSec * SubSec + SubSec
      BY <1>0, <2>3, Distribute
    <3>2. SUFFICES ASSUME MaxSec + 1 <= s PROVE FALSE
      OBVIOUS
    <3>3. (MaxSec + 1) * SubSec <= s * SubSec
      BY <1>0, <2>1, <2>3, <3>2, Monotone
    <3> QED  BY <1>0, <2>1, <2>2, <2>3, <3>1, <3>3
  <2>6. s \in MinSec..MaxSec
    BY <2>1, <2>3, <2>4, <2>5
  <2> QED  BY <2>1, <2>6 DEF Timespec
<1> QED  BY <1>6, <1>7

\* timespecmul by a rate num / den is the exact product rounded toward zero
\* to a whole part of a second, and clamped: a scaled wait is never longer
\* than the exact one, and shorter by less than one part of a second.
THEOREM MulRounds ==
  ASSUME NEW t \in Timespec, NEW num \in Nat, NEW den \in Nat \ {0}
  PROVE  LET r == timespecmul(t, num, den)
             x == Value(t) * num
         IN  /\ r \in Timespec
             /\ x > Value(MaxTime) * den => Value(r) = Value(MaxTime)
             /\ x < Value(MinTime) * den => Value(r) = Value(MinTime)
             /\ 0 <= x /\ x <= Value(MaxTime) * den => den * Value(r) <= x /\ x < den * Value(r) + den
             /\ x < 0 /\ Value(MinTime) * den <= x => x <= den * Value(r) /\ den * Value(r) - den < x
<1> USE TimeAssumption
<1> DEFINE x == Value(t) * num
           lo == Value(MinTime)
           hi == Value(MaxTime)
<1>1. /\ lo \in Int /\ hi \in Int /\ Value(t) \in Int /\ lo <= hi /\ lo <= 0 /\ 0 <= hi
      /\ SubSec \in Nat
  <2>1. MinSec \in Int /\ MinSec <= 0 /\ 0 <= MaxSec /\ SubSec \in Nat /\ SubSec > 0
    BY DEF MinSec
  <2>2. MinSec * SubSec <= 0 * SubSec /\ 0 * SubSec <= MaxSec * SubSec /\ 0 * SubSec = 0
    BY <2>1, Monotone
  <2>3. lo = MinSec * SubSec /\ hi = MaxSec * SubSec + (SubSec - 1)
    BY <2>1 DEF Value, MinTime, MaxTime
  <2>4. Value(t) \in Int
    BY DEF Value, Timespec, MinSec
  <2> QED  BY <2>1, <2>2, <2>3, <2>4
<1> HIDE DEF lo, hi
<1>2. x \in Int /\ lo * den \in Int /\ hi * den \in Int /\ den \in Nat /\ den > 0 /\ lo * den <= hi * den
  BY <1>1, Monotone
<1> HIDE DEF x
<1>3. CASE x > hi * den
  <2>1. timespecmul(t, num, den) = Split(hi)
    BY <1>3 DEF timespecmul, x, hi
  <2>2. Split(hi) \in Timespec /\ Value(Split(hi)) = hi
    BY <1>1, SplitValue DEF lo, hi
  <2>3. ~(x <= hi * den) /\ ~(x < lo * den)
    BY <1>2, <1>3
  <2>4. 0 <= hi * den
    BY <1>1, <1>2
  <2>5. ~(x < 0)
    BY <1>2, <1>3, <2>4
  <2> QED  BY <2>1, <2>2, <2>3, <2>5 DEF x, lo, hi
<1>4. CASE x < lo * den
  <2>0. ~(x > hi * den)
    BY <1>2, <1>4
  <2>1. timespecmul(t, num, den) = Split(lo)
    BY <1>4, <2>0 DEF timespecmul, x, lo, hi
  <2>2. Split(lo) \in Timespec /\ Value(Split(lo)) = lo
    BY <1>1, SplitValue DEF lo, hi
  <2>3. lo * den <= 0 * den /\ 0 * den = 0
    BY <1>1, <1>2, Monotone
  <2>4. ~(0 <= x) /\ ~(lo * den <= x)
    BY <1>2, <1>4, <2>3
  <2> QED  BY <2>0, <2>1, <2>2, <2>4 DEF x, lo, hi
<1>5. CASE lo * den <= x /\ x <= hi * den
  <2> DEFINE q == Quot(x, den)
             r == Rem(x, den)
  <2>1. /\ q \in Int /\ r \in Int /\ x = den * q + r
        /\ x >= 0 => 0 <= r /\ r < den
        /\ x < 0 => -den < r /\ r <= 0
    BY <1>2, QuotRem
  <2>2. timespecmul(t, num, den) = Split(q)
    <3>1. ~(x > hi * den) /\ ~(x < lo * den)
      BY <1>2, <1>5
    <3> QED  BY <3>1 DEF timespecmul, x, lo, hi
  <2> HIDE DEF q, r
  <2>3. ~(q >= hi + 1)
    <3>1. SUFFICES ASSUME q >= hi + 1 PROVE FALSE
      OBVIOUS
    <3>2. (hi + 1) * den <= q * den /\ (hi + 1) * den = hi * den + den /\ q * den = den * q
      BY <1>1, <1>2, <2>1, <3>1, Monotone, Distribute
    <3> QED  BY <1>1, <1>2, <1>5, <2>1, <3>2
  <2>4. ~(q <= lo - 1)
    <3>1. SUFFICES ASSUME q <= lo - 1 PROVE FALSE
      OBVIOUS
    <3>2. q * den <= (lo - 1) * den /\ (lo - 1) * den = lo * den - den /\ q * den = den * q
      BY <1>1, <1>2, <2>1, <3>1, Monotone, Distribute
    <3> QED  BY <1>1, <1>2, <1>5, <2>1, <3>2
  <2>5. lo <= q /\ q <= hi
    BY <1>1, <2>1, <2>3, <2>4
  <2>6. Split(q) \in Timespec /\ Value(Split(q)) = q
    BY <2>1, <2>5, SplitValue DEF lo, hi
  <2>7. /\ 0 <= x => den * q <= x /\ x < den * q + den
        /\ x < 0 => x <= den * q /\ den * q - den < x
    BY <1>2, <2>1
  <2>8. ~(x > hi * den) /\ ~(x < lo * den)
    BY <1>2, <1>5
  <2> QED  BY <2>2, <2>6, <2>7, <2>8 DEF x, lo, hi
<1> QED  BY <1>2, <1>3, <1>4, <1>5

-----------------------------------------------------------------------------
(* The blocking calls *)

\* The clocks a deadline can be on.
Kind == {"real", "mono"}

\* The elapsed real time at which clock c reaches u, times num.
End(u, c) == (Value(u) - Value(Start[c])) * conf.num

\* What a call that blocks, a timer and a condition variable whose clock has
\* been read keep in the slot.
WaitCall ==
  {"nanosleep", "usleep", "sleep", "alarm", "ppoll", "pselect", "poll", "epoll_wait",
   "epoll_pwait", "select", "clock_nanosleep", "clock_nanosleep_abs", "syscall",
   "syscall_abs", "sem_timedwait", "sem_clockwait", "cond", "futex_bitset",
   "futex_other", "futex_again", "futex_wait"}
WaitSlot ==
  [call : WaitCall, clk : Clock, until : Timespec \cup {Never}, due : Int \cup {Never},
   unit : Nat \ {0}, sat : BOOLEAN, resumes : Nat, lag : Nat]
TimerSlot ==
  [call : {"timer", "timerfd"}, clk : Kind, until : Timespec \cup {Never},
   due : Int \cup {Never}, unit : {1}, sat : BOOLEAN, resumes : Nat, lag : {0},
   interval : Timespec, period : Nat, abs : BOOLEAN]
ReadSlot ==
  [call : {"cond_read"}, clk : Kind, abstime : Timespec, realtime : Timespec,
   faketime : Timespec]

\* r is t times a / b, rounded toward zero, or the largest time when that is
\* beyond it.
Rounded(t, r, a, b) ==
  /\ r \in Timespec
  /\ 0 <= Value(t) => 0 <= Value(r) /\ Value(r) * b <= Value(t) * a
  /\ Value(t) < 0 => Value(t) * a <= Value(r) * b
  /\ Value(r) * b < Value(t) * a + b
  /\ \/ Value(t) * a < Value(r) * b + b
     \/ Value(r) = Value(MaxTime) /\ Value(t) * a > Value(MaxTime) * b

\* The parts of the fake clock in one part of the real clock, times num.
Rate == IF conf.dont_fake THEN conf.num ELSE conf.den

\* What DeadlineKept says of a slot.
Kept(s) ==
  \/ Exempt(s)
  \/ s.until = Never /\ s.due = Never
  \/ s.until # Never /\ s.due # Never /\ OnTime(s)
  \/ /\ s.call \in {"timer", "timerfd"} /\ s.until = Never /\ s.due # Never
     /\ s.due <= now * conf.num + Slack(s)

\* A call that reports what is left has an end, and what is left fits time_t
\* on the fake clock too.
WaitGood(s) ==
  /\ Kept(s)
  /\ s.call \in {"nanosleep", "syscall", "clock_nanosleep", "select"} =>
       /\ s.until # Never /\ s.due # Never
       /\ s.call = "select" => s.unit = Micro /\ s.clk = "real"
       /\ Faking /\ s.clk # "cpu" =>
            End(s.until, s.clk) - now * conf.num <= Value(MaxTime) * conf.den

\* A timer that is armed is due, after the epoch, and its interval is the
\* period the program asked for.
TimerGood(s) ==
  /\ Kept(s)
  /\ s.until # Never => s.due # Never /\ (~Exempt(s) => 0 <= Value(s.until))
  /\ s.sat <=> s.until = MaxTime
  /\ 0 <= Value(s.interval) /\ Value(s.interval) * conf.num <= s.period * Rate
  /\ \/ s.period * Rate < Value(s.interval) * conf.num + conf.num
     \/ Value(s.interval) = Value(MaxTime)

\* The two readings are of one moment, not later than now.
ReadGood(s) ==
  /\ s.abstime \in Deadline(s.clk)
  /\ \E n \in 0..now : Value(s.realtime) = Value(Start[s.clk]) + n
  /\ s.faketime = IF s.clk = "mono" /\ ~conf.fake_monotonic THEN s.realtime
                  ELSE fake_clock_gettime(s.clk, s.realtime)

WaitInv ==
  /\ conf \in Conf
  /\ now \in 0..MaxNow
  /\ \/ slot = Idle
     \/ slot \in WaitSlot /\ WaitGood(slot)
     \/ slot \in TimerSlot /\ TimerGood(slot)
     \/ slot \in ReadSlot /\ ReadGood(slot)

\* The calls that report what is left of a wait.
Resumed == {"nanosleep", "syscall", "clock_nanosleep", "select"}

\* The slot of a call that has just blocked.
Begun(call, c, u, due, unit, sat, lag) ==
  [call |-> call, clk |-> c, until |-> u, due |-> due, unit |-> unit,
   sat |-> sat, resumes |-> 0, lag |-> lag]

\* A reading f of the fake clock n parts after the start: k parts after its
\* own, n scaled and rounded down.
FakeRead(f, n, k) ==
  /\ Value(f) = Value(Base) + k /\ k * conf.den <= n * conf.num
  /\ n * conf.num < k * conf.den + conf.den
  /\ Value(Base) + k <= Value(MaxTime) /\ (~conf.set => k = n)

\* What the settings and the clocks of a process can be.
LEMMA Settings ==
  ASSUME conf \in Conf, now \in 0..MaxNow
  PROVE  /\ conf.num \in Nat \ {0} /\ conf.den \in Nat \ {0}
         /\ conf.set \in BOOLEAN /\ conf.fake_monotonic \in BOOLEAN /\ conf.dont_fake \in BOOLEAN
         /\ ~conf.set => conf.num = conf.den
         /\ conf.wait_ms # Unset => conf.wait_ms \in Nat
         /\ Value(Base) * conf.den + MaxNow * conf.num <= Value(MaxTime) * conf.den
         /\ \A c \in Kind : /\ (Value(Start[c]) + MaxNow) * conf.num <= Value(MaxTime) * conf.den
                            /\ \A o \in Offsets : 0 <= Value(Start[c]) * conf.num + o * conf.den
         /\ now \in Nat /\ now <= MaxNow /\ MaxNow \in Nat
         /\ \A c \in Clock : /\ Real(c) \in Timespec /\ Value(Real(c)) = Value(Start[c]) + now
                             /\ Value(Start[c]) \in Nat /\ Value(Start[c]) + MaxNow < Value(MaxTime)
                             /\ Start[c] \in Timespec
         /\ Value(MinTime) \in Int /\ Value(MaxTime) \in Int /\ Value(MinTime) = -Value(MaxTime) - 1
         /\ Value(Base) \in Nat /\ Base \in Timespec /\ Value(Base) <= Value(MaxTime)
         /\ MaxTime \in Timespec
         /\ conf.num \in Int /\ conf.den \in Int /\ conf.num > 0 /\ conf.den > 0
         /\ now * conf.num \in Int /\ 0 <= Value(MaxTime)
         /\ Value(MaxTime) * conf.den \in Int /\ Value(MaxTime) * conf.num \in Int
         /\ Value(Base) * conf.den \in Nat /\ MaxNow * conf.num \in Nat
         /\ \A u \in Timespec : Value(u) = Value(MaxTime) => u = MaxTime
<1>1. PICK r \in Rates, m \in BOOLEAN, d \in BOOLEAN, w \in WaitMs :
        conf = [set |-> r.set, num |-> r.num, den |-> r.den, fake_monotonic |-> m,
                dont_fake |-> d, wait_ms |-> w]
  BY DEF Conf
<1> USE TimeAssumption, WaitAssumption, RangeAssumption
<1>2. /\ conf.set = r.set /\ conf.num = r.num /\ conf.den = r.den
      /\ conf.fake_monotonic = m /\ conf.dont_fake = d /\ conf.wait_ms = w
  BY <1>1
<1>3. /\ r.num \in Nat \ {0} /\ r.den \in Nat \ {0} /\ r.set \in BOOLEAN
      /\ ~r.set => r.num = r.den
      /\ Value(Base) * r.den + MaxNow * r.num <= Value(MaxTime) * r.den
      /\ \A c \in Kind : /\ (Value(Start[c]) + MaxNow) * r.num <= Value(MaxTime) * r.den
                         /\ \A o \in Offsets : 0 <= Value(Start[c]) * r.num + o * r.den
  <2>1. r.num \in Nat \ {0} /\ r.den \in Nat \ {0}
    BY Zenon
  <2>2. r.set \in BOOLEAN /\ (~r.set => r.num = r.den)
    BY Zenon
  <2>3. Value(Base) * r.den + MaxNow * r.num <= Value(MaxTime) * r.den
    BY Zenon
  <2>4. \A c \in {"real", "mono"} :
          /\ (Value(Start[c]) + MaxNow) * r.num <= Value(MaxTime) * r.den
          /\ \A o \in Offsets : 0 <= Value(Start[c]) * r.num + o * r.den
    BY Zenon
  <2> QED
    BY <2>1, <2>2, <2>3, <2>4, Zenon DEF Kind
<1>4. w # Unset => w \in Nat
  BY Zenon
<1>5. /\ Value(MinTime) \in Int /\ Value(MaxTime) \in Int /\ Value(MinTime) = -Value(MaxTime) - 1
      /\ MaxTime \in Timespec
  <2>1. MinSec \in Int /\ MinSec = -(MaxSec + 1) /\ MaxSec \in Nat /\ SubSec \in Nat /\ SubSec > 0
    BY DEF MinSec
  <2>2. MinSec * SubSec = -(MaxSec * SubSec + SubSec)
    BY <2>1
  <2>3. MaxSec * SubSec \in Int
    BY <2>1
  <2> QED
    BY <2>1, <2>2, <2>3 DEF Value, MinTime, MaxTime, Timespec
<1>6. ASSUME NEW t \in Timespec PROVE Value(t) \in Int
  BY DEF Value, Timespec, MinSec
<1>7. \A c \in Clock : /\ Start[c] \in Timespec /\ 0 <= Value(Start[c])
                       /\ Value(Start[c]) + MaxNow < Value(MaxTime)
  BY Zenon DEF Clock
<1>8. now \in Nat /\ now <= MaxNow /\ MaxNow \in Nat
  OBVIOUS
<1>9. ASSUME NEW c \in Clock
      PROVE  /\ Real(c) \in Timespec /\ Value(Real(c)) = Value(Start[c]) + now
             /\ Value(Start[c]) \in Nat /\ Value(Start[c]) + MaxNow < Value(MaxTime)
  <2>1. Value(Start[c]) \in Int /\ 0 <= Value(Start[c]) /\ Value(Start[c]) + MaxNow < Value(MaxTime)
    BY <1>6, <1>7, Zenon
  <2>2. /\ Value(Start[c]) + now \in Int /\ Value(MinTime) <= Value(Start[c]) + now
        /\ Value(Start[c]) + now <= Value(MaxTime) /\ Value(Start[c]) \in Nat
    BY <1>5, <1>8, <2>1
  <2> QED
    BY <2>1, <2>2, SplitValue, Zenon DEF Real
<1>10. Value(Base) \in Nat /\ Base \in Timespec /\ Value(Base) <= Value(MaxTime)
  <2>1. Base \in Timespec /\ 0 <= Value(Base) /\ Value(Base) \in Int
    BY <1>6, Zenon
  <2>2. Base.sec \in Int /\ Base.sec <= MaxSec /\ Base.nsec \in Int /\ Base.nsec <= SubSec - 1
        /\ MaxSec \in Int /\ SubSec \in Nat
    BY <2>1 DEF Timespec, MinSec
  <2>3. Base.sec * SubSec <= MaxSec * SubSec
    BY <2>2, Monotone
  <2>4. Base.sec * SubSec \in Int /\ MaxSec * SubSec \in Int
    BY <2>2
  <2> QED
    BY <2>1, <2>2, <2>3, <2>4 DEF Value, MaxTime
<1>11. ASSUME NEW u \in Timespec, Value(u) = Value(MaxTime) PROVE u = MaxTime
  <2> DEFINE s == u.sec
             k == u.nsec
  <2>1. /\ u = [sec |-> s, nsec |-> k] /\ s \in Int /\ k \in Int /\ s <= MaxSec /\ k <= SubSec - 1
        /\ MaxSec \in Int /\ SubSec \in Nat /\ SubSec > 0
    BY DEF Timespec, MinSec
  <2>2. s * SubSec + k = MaxSec * SubSec + (SubSec - 1)
    BY <1>11 DEF Value, MaxTime
  <2> HIDE DEF s, k
  <2>3. s * SubSec \in Int /\ MaxSec * SubSec \in Int
    BY <2>1
  <2>4. ~(s + 1 <= MaxSec)
    <3>1. SUFFICES ASSUME s + 1 <= MaxSec PROVE FALSE
      OBVIOUS
    <3>2. (s + 1) * SubSec <= MaxSec * SubSec /\ (s + 1) * SubSec = s * SubSec + SubSec
      BY <2>1, <3>1, Monotone, Distribute
    <3> QED  BY <2>1, <2>2, <2>3, <3>2
  <2>5. s = MaxSec
    BY <2>1, <2>4
  <2>6. k = SubSec - 1
    BY <2>1, <2>2, <2>3, <2>5
  <2> QED  BY <2>1, <2>5, <2>6 DEF MaxTime
<1>12. /\ conf.num \in Nat \ {0} /\ conf.den \in Nat \ {0} /\ Value(MaxTime) \in Int
       /\ Value(Base) \in Nat /\ Value(Base) <= Value(MaxTime) /\ now \in Nat /\ MaxNow \in Nat
  BY <1>2, <1>3, <1>5, <1>8, <1>10, Zenon
<1>13. /\ conf.num \in Int /\ conf.den \in Int /\ conf.num > 0 /\ conf.den > 0
       /\ now * conf.num \in Int /\ 0 <= Value(MaxTime)
       /\ Value(MaxTime) * conf.den \in Int /\ Value(MaxTime) * conf.num \in Int
       /\ Value(Base) * conf.den \in Nat /\ MaxNow * conf.num \in Nat
  BY <1>12
<1> QED
  BY <1>2, <1>3, <1>4, <1>5, <1>7, <1>8, <1>9, <1>10, <1>11, <1>13, Zenon

\* The end of the wait that is handed to the real function.
LEMMA Landing ==
  ASSUME conf \in Conf, now \in 0..MaxNow, NEW c \in Clock, NEW n \in Int,
         NEW from \in Timespec, Value(from) = Value(Start[c]) + n,
         NEW h, h.sec \in Int, h.nsec \in 0..SubSec - 1,
         Value(MinTime) <= Value(from) + Value(h)
  PROVE  LET u == timespecadd(from, h)
         IN  /\ u \in Timespec /\ Value(u) \in Int /\ End(u, c) \in Int /\ Value(h) \in Int
             /\ Value(u) = IF Value(from) + Value(h) > Value(MaxTime) THEN Value(MaxTime)
                           ELSE Value(from) + Value(h)
             /\ End(u, c) <= n * conf.num + Value(h) * conf.num
             /\ u = MaxTime \/ End(u, c) = n * conf.num + Value(h) * conf.num
             /\ Value(u) = Value(MaxTime) => u = MaxTime
<1> DEFINE u == timespecadd(from, h)
           hi == Value(MaxTime)
           N == conf.num
           S == Value(Start[c])
<1> USE TimeAssumption
<1>1. /\ N \in Nat \ {0} /\ N \in Nat /\ S \in Nat /\ hi \in Int /\ Value(MinTime) \in Int
      /\ \A t \in Timespec : Value(t) = hi => t = MaxTime
  BY Settings, Zenon
<1> HIDE DEF N, S, hi
<1>2. /\ from.sec \in Int /\ from.nsec \in 0..SubSec - 1 /\ SubSec \in Nat /\ SubSec > 0
  BY DEF Timespec, MinSec
<1>3. Value(from) \in Int /\ Value(h) \in Int
  BY <1>2 DEF Value
<1>4. u \in Timespec /\ Value(u) = Clamped(Value(from) + Value(h))
  <2>1. /\ from.sec + h.sec \in Int /\ from.nsec + h.nsec \in Int
        /\ -SubSec < from.nsec + h.nsec /\ from.nsec + h.nsec < 2 * SubSec
    BY <1>2
  <2>2. from.sec * SubSec \in Int /\ h.sec * SubSec \in Int /\ from.nsec \in Int /\ h.nsec \in Int
    BY <1>2
  <2>3. (from.sec + h.sec) * SubSec = from.sec * SubSec + h.sec * SubSec
    BY <1>2, Distribute
  <2>4. (from.sec + h.sec) * SubSec + (from.nsec + h.nsec) = Value(from) + Value(h)
    BY <2>2, <2>3 DEF Value
  <2> QED  BY <2>1, <2>4, CarriedValue, ZenonT(60) DEF timespecadd
<1> HIDE DEF u
<1>5. Value(u) = IF Value(from) + Value(h) > hi THEN hi ELSE Value(from) + Value(h)
  BY <1>1, <1>3, <1>4 DEF Clamped, hi
<1>6. Value(u) \in Int /\ Value(u) <= S + n + Value(h)
      /\ (Value(u) = hi \/ Value(u) = S + n + Value(h))
  BY <1>1, <1>3, <1>5 DEF S
<1>7. Value(u) - S \in Int /\ n + Value(h) \in Int /\ Value(u) - S <= n + Value(h)
      /\ (Value(u) = hi \/ Value(u) - S = n + Value(h))
  BY <1>1, <1>3, <1>6
<1>8. (Value(u) - S) * N <= (n + Value(h)) * N /\ (Value(u) - S) * N \in Int
  BY <1>1, <1>7, Monotone
<1>9. (n + Value(h)) * N = n * N + Value(h) * N
  BY <1>1, <1>3, Distribute
<1> QED
  BY <1>1, <1>3, <1>4, <1>5, <1>6, <1>7, <1>8, <1>9, Zenon DEF u, hi, N, S, End

\* The three conversions round; one that is not made is one at the rate 1.
LEMMA Conversions ==
  ASSUME conf \in Conf, now \in 0..MaxNow, NEW t \in Timespec
  PROVE  /\ Value(t) \in Int /\ Rate \in Nat \ {0}
         /\ 0 <= Value(t) => /\ Rounded(t, ToReal(t), conf.den, conf.num)
                             /\ Rounded(t, ToFake(t), conf.num, conf.den)
                             /\ Rounded(t, Scaled(t), Rate, conf.num)
         /\ Value(MinTime) * conf.num <= Value(t) * conf.den => Rounded(t, ToReal(t), conf.den, conf.num)
         /\ Value(MinTime) * conf.den <= Value(t) * conf.num => Rounded(t, ToFake(t), conf.num, conf.den)
\* timespecmul rounds, and leaves a time alone at the rate 1.
<1>rescale. ASSUME NEW v \in Timespec, NEW a \in Nat \ {0}, NEW b \in Nat \ {0}
            PROVE  /\ Value(MinTime) * b <= Value(v) * a => Rounded(v, timespecmul(v, a, b), a, b)
                   /\ 0 <= Value(v) => Rounded(v, timespecmul(v, a, b), a, b)
                   /\ Rounded(v, v, a, a)
  <2> DEFINE r == timespecmul(v, a, b)
             x == Value(v) * a
             lo == Value(MinTime)
             hi == Value(MaxTime)
  <2> USE TimeAssumption
  <2>1. /\ Value(v) \in Int /\ lo \in Int /\ hi \in Int /\ lo <= 0 /\ 0 <= hi
    <3>1. MinSec \in Int /\ MinSec <= 0 /\ 0 <= MaxSec /\ MaxSec \in Int /\ SubSec \in Nat /\ SubSec > 0
      BY DEF MinSec
    <3>2. MinSec * SubSec <= 0 * SubSec /\ 0 * SubSec <= MaxSec * SubSec /\ 0 * SubSec = 0
      BY <3>1, Monotone
    <3>3. lo = MinSec * SubSec /\ hi = MaxSec * SubSec + (SubSec - 1)
      BY <3>1 DEF Value, MinTime, MaxTime
    <3>4. Value(v) \in Int
      BY DEF Value, Timespec, MinSec
    <3> QED  BY <3>1, <3>2, <3>3, <3>4
  <2>2. /\ r \in Timespec
        /\ x > hi * b => Value(r) = hi
        /\ 0 <= x /\ x <= hi * b => b * Value(r) <= x /\ x < b * Value(r) + b
        /\ x < 0 /\ lo * b <= x => x <= b * Value(r) /\ b * Value(r) - b < x
    <3>1. a \in Nat
      OBVIOUS
    <3> QED  BY <3>1, MulRounds, Zenon
  <2>3. Value(r) \in Int
    BY <2>2 DEF Value, Timespec, MinSec
  <2> HIDE DEF r, lo, hi
  <2>4. x \in Int /\ lo * b \in Int /\ hi * b \in Int /\ b \in Nat /\ b > 0
        /\ b * Value(r) = Value(r) * b /\ Value(r) * b \in Int
    BY <2>1, <2>3
  <2>5. lo * b <= 0
    <3>1. lo * b <= 0 * b /\ 0 * b = 0
      BY <2>1, <2>4, Monotone
    <3> QED  BY <2>4, <3>1
  <2>6. (0 <= Value(v) => 0 <= x) /\ (Value(v) < 0 => x < 0)
    <3>1. a \in Nat /\ a > 0 /\ 0 * a = 0 /\ (-1) * a = -a
      OBVIOUS
    <3>2. 0 <= Value(v) => 0 * a <= x
      BY <2>1, <3>1, Monotone
    <3>3. Value(v) < 0 => x <= (-1) * a
      BY <2>1, <3>1, Monotone
    <3> QED  BY <2>1, <2>4, <3>1, <3>2, <3>3
  <2>7. 0 <= x => 0 <= Value(r)
    <3>1. SUFFICES ASSUME 0 <= x, Value(r) <= -1 PROVE FALSE
      BY <2>3
    <3>2. Value(r) * b <= (-1) * b /\ (-1) * b = -b
      BY <2>3, <2>4, <3>1, Monotone
    <3>3. CASE x <= hi * b
      BY <2>2, <2>4, <3>1, <3>2, <3>3
    <3>4. CASE x > hi * b
      BY <2>1, <2>2, <3>1, <3>4
    <3> QED  BY <2>4, <3>3, <3>4
  <2>8. ASSUME lo * b <= x PROVE Rounded(v, r, a, b)
    <3>1. CASE x > hi * b
      <4>1. Value(r) = hi /\ Value(r) * b = hi * b
        BY <2>2, <3>1
      <4>2. 0 <= hi * b
        BY <2>1, <2>4
      <4>3. ~(Value(v) < 0)
        BY <2>1, <2>4, <2>6, <3>1, <4>2
      <4>4. 0 <= Value(r) /\ Value(r) * b <= x /\ Value(r) * b < x + b
        BY <2>1, <2>4, <3>1, <4>1
      <4> QED  BY <2>2, <3>1, <4>1, <4>3, <4>4, Zenon DEF Rounded, hi
    <3>2. CASE x <= hi * b /\ 0 <= x
      <4>1. Value(r) * b <= x /\ x < Value(r) * b + b /\ Value(r) * b < x + b /\ ~(Value(v) < 0)
        BY <2>1, <2>2, <2>4, <2>6, <3>2
      <4> QED  BY <2>2, <2>7, <3>2, <4>1, Zenon DEF Rounded
    <3>3. CASE x < 0
      <4>1. x <= Value(r) * b /\ Value(r) * b < x + b /\ x < Value(r) * b + b /\ ~(0 <= Value(v))
        BY <2>1, <2>2, <2>4, <2>6, <2>8, <3>3
      <4> QED  BY <2>2, <4>1, Zenon DEF Rounded
    <3> QED  BY <2>4, <3>1, <3>2, <3>3
  <2>9. 0 <= Value(v) => lo * b <= x
    BY <2>4, <2>5, <2>6
  <2>10. Rounded(v, v, a, a)
    <3>1. Value(v) * a \in Int /\ a > 0 /\ a \in Int
      BY <2>1
    <3>2. Value(v) * a <= Value(v) * a /\ Value(v) * a < Value(v) * a + a
      BY <3>1
    <3> QED  BY <3>2, Zenon DEF Rounded
  <2> QED  BY <2>8, <2>9, <2>10, Zenon DEF r, lo
<1>1. /\ conf.num \in Nat \ {0} /\ conf.den \in Nat \ {0}
      /\ conf.set \in BOOLEAN /\ conf.dont_fake \in BOOLEAN /\ (~conf.set => conf.num = conf.den)
  BY Settings, Zenon
<1>2. Value(t) \in Int
  BY TimeAssumption DEF Value, Timespec, MinSec
<1>3. CASE conf.set
  <2>1. ToReal(t) = timespecmul(t, conf.den, conf.num) /\ ToFake(t) = timespecmul(t, conf.num, conf.den)
    BY <1>3, Zenon DEF ToReal, ToFake
  <2>2. 0 <= Value(t) => Rounded(t, Scaled(t), Rate, conf.num)
    BY <1>1, <1>3, <1>rescale, Zenon DEF Scaled, Faking, Rate
  <2> QED  BY <1>1, <1>2, <2>1, <2>2, <1>rescale, Zenon DEF Rate
<1>4. CASE ~conf.set
  <2>1. ToReal(t) = t /\ ToFake(t) = t /\ Scaled(t) = t /\ Rate = conf.num /\ conf.den = conf.num
    BY <1>1, <1>4, Zenon DEF ToReal, ToFake, Scaled, Faking, Rate
  <2> QED  BY <1>1, <1>2, <2>1, <1>rescale, Zenon
<1> QED  BY <1>3, <1>4, Zenon

\* A length h handed on for x, a length on the fake clock times num, with an
\* error of at most e.
LEMMA LengthKept ==
  ASSUME conf \in Conf, now \in 0..MaxNow, NEW c \in Clock,
         NEW h, h.sec \in Int, h.nsec \in 0..SubSec - 1, 0 <= Value(h),
         NEW x \in Int, NEW e \in Int, Value(h) * conf.num <= x + e,
         x <= Value(h) * conf.num + e \/ Value(Real(c)) + Value(h) >= Value(MaxTime)
  PROVE  LET u == timespecadd(Real(c), h)
         IN  /\ u \in Timespec /\ Value(u) \in Int /\ End(u, c) \in Int /\ 0 <= Value(u)
             /\ End(u, c) <= now * conf.num + x + e
             /\ now * conf.num + x <= End(u, c) + e \/ u = MaxTime
             /\ End(u, c) <= now * conf.num + Value(h) * conf.num
             /\ now * conf.num \in Int
<1> DEFINE u == timespecadd(Real(c), h)
           N == conf.num
           S == Value(Start[c])
           hi == Value(MaxTime)
<1>1. /\ N \in Nat \ {0} /\ S \in Nat /\ now \in Nat /\ hi \in Int /\ Value(MinTime) = -hi - 1
      /\ Real(c) \in Timespec /\ Value(Real(c)) = S + now /\ S + MaxNow < hi /\ MaxNow \in Nat /\ now <= MaxNow
  BY Settings, Zenon
<1>2. Value(h) \in Int
  BY TimeAssumption DEF Value
<1> HIDE DEF N, S, hi
<1>3. Value(MinTime) <= Value(Real(c)) + Value(h) /\ now \in Int
  BY <1>1, <1>2
<1>4. /\ u \in Timespec /\ Value(u) \in Int /\ End(u, c) \in Int
      /\ Value(u) = IF Value(Real(c)) + Value(h) > hi THEN hi ELSE Value(Real(c)) + Value(h)
      /\ End(u, c) <= now * N + Value(h) * N
      /\ u = MaxTime \/ End(u, c) = now * N + Value(h) * N
      /\ Value(u) = hi => u = MaxTime
  BY <1>1, <1>3, Landing DEF N, S, hi
<1> HIDE DEF u
<1>5. now * N \in Int /\ Value(h) * N \in Int
  BY <1>1, <1>2
<1>6. Value(h) * N <= x + e /\ (x <= Value(h) * N + e \/ Value(Real(c)) + Value(h) >= hi)
  BY Zenon DEF N, hi
<1>7. Value(Real(c)) + Value(h) >= hi => u = MaxTime
  BY <1>1, <1>2, <1>4
<1>8. 0 <= Value(u)
  BY <1>1, <1>2, <1>4
<1>9. End(u, c) <= now * N + x + e /\ (now * N + x <= End(u, c) + e \/ u = MaxTime)
  BY <1>4, <1>5, <1>6, <1>7
<1> QED  BY <1>4, <1>5, <1>8, <1>9, Zenon DEF u, N

\* The deadlines a program computes are times after the epoch (those on a
\* CPU clock may be any), on the fake clock and converted to the real one.
LEMMA Deadlines ==
  ASSUME conf \in Conf, now \in 0..MaxNow, NEW c \in Clock, NEW t \in Deadline(c)
  PROVE  /\ t \in Timespec /\ Value(t) \in Int /\ Due(c, t) \in Int
         /\ c \in Kind => 0 <= Value(t) /\ Value(t) <= Value(MaxTime)
         /\ Faked(c) => /\ 0 <= Value(Start[c]) * conf.num + (Value(t) - Value(Base)) * conf.den
                        /\ 0 <= Value(Start[c]) + (Value(t) - Value(Base))
<1> DEFINE N == conf.num
           D == conf.den
           S == Value(Start[c])
           B == Value(Base)
           hi == Value(MaxTime)
<1>1. /\ N \in Nat \ {0} /\ D \in Nat \ {0} /\ S \in Nat /\ B \in Nat /\ B <= hi /\ hi \in Int
      /\ Value(MinTime) = -hi - 1 /\ S <= hi /\ Value(MinTime) \in Int /\ MaxTime \in Timespec
      /\ \A o \in Offsets : c \in Kind => 0 <= S * N + o * D
  <2>1. /\ N \in Nat \ {0} /\ D \in Nat \ {0} /\ S \in Nat /\ B \in Nat /\ B <= hi /\ hi \in Int
        /\ Value(MinTime) = -hi - 1 /\ Value(MinTime) \in Int /\ MaxTime \in Timespec
        /\ S + MaxNow < hi /\ MaxNow \in Nat
    BY Settings, Zenon
  <2>2. \A o \in Offsets : c \in Kind => 0 <= S * N + o * D
    BY Settings, Zenon
  <2>3. S <= hi
    BY <2>1
  <2> QED  BY <2>1, <2>2, <2>3, Zenon
<1>2. Faked(c) => c \in Kind
  BY Zenon DEF Faked, Kind
<1>3. \A o \in Offsets : /\ o \in Int /\ 0 <= B + o /\ B + o <= hi
                         /\ Value(MinTime) <= S + o /\ S + o <= hi
                         /\ c \in Kind => 0 <= S + o
  <2>1. \A o \in Offsets : o \in Int /\ 0 <= B + o /\ B + o <= hi
    BY RangeAssumption, Zenon
  <2>2. \A o \in Offsets : Value(MinTime) <= S + o /\ S + o <= hi
    BY RangeAssumption, Zenon DEF Clock
  <2>3. \A o \in Offsets : 0 <= Value(Start["real"]) + o /\ 0 <= Value(Start["mono"]) + o
    BY RangeAssumption, Zenon
  <2> QED  BY <2>1, <2>2, <2>3, Zenon DEF Kind
<1> DEFINE from == IF Faked(c) THEN B ELSE S
<1>4. t = MaxTime \/ \E o \in Offsets : t = Split(from + o)
  <2>1. Value(IF Faked(c) THEN Base ELSE Start[c]) = from
    BY Zenon
  <2> QED  BY <2>1, Zenon DEF Deadline
<1> HIDE DEF N, D, S, B, hi
<1> DEFINE Fit == /\ t \in Timespec /\ Value(t) \in Int
                  /\ c \in Kind => 0 <= Value(t) /\ Value(t) <= hi
                  /\ Faked(c) => 0 <= S * N + (Value(t) - B) * D /\ 0 <= S + (Value(t) - B)
<1>5. Fit
  <2>1. CASE t = MaxTime
    <3>1. Value(t) = hi
      BY <2>1, Zenon DEF hi
    <3>2. hi - B \in Nat /\ S * N \in Nat /\ 0 <= hi
      BY <1>1
    <3>3. (hi - B) * D \in Nat
      BY <1>1, <3>2
    <3> QED  BY <1>1, <2>1, <3>1, <3>2, <3>3
  <2>2. ASSUME NEW o \in Offsets, t = Split(from + o) PROVE Fit
    <3>1. o \in Int /\ from + o \in Int /\ Value(MinTime) <= from + o /\ from + o <= hi
      <4>1. CASE Faked(c)
        BY <1>1, <1>3, <4>1
      <4>2. CASE ~Faked(c)
        BY <1>1, <1>3, <4>2
      <4> QED  BY <4>1, <4>2, Zenon
    <3>2. t \in Timespec /\ Value(t) = from + o
      BY <2>2, <3>1, SplitValue, Zenon DEF hi
    <3>3. c \in Kind => 0 <= from + o
      BY <1>3, Zenon
    <3>4. ASSUME Faked(c) PROVE 0 <= S * N + (Value(t) - B) * D /\ 0 <= S + (Value(t) - B)
      <4>1. Value(t) - B = o
        BY <1>1, <3>1, <3>2, <3>4
      <4> QED  BY <1>1, <1>2, <1>3, <3>4, <4>1, Zenon
    <3> QED  BY <3>1, <3>2, <3>3, <3>4, Zenon
  <2> QED  BY <1>4, <2>1, <2>2, Zenon
<1>6. Due(c, t) \in Int
  <2>1. Due(c, t) = IF Faked(c) THEN (Value(t) - B) * D ELSE (Value(t) - S) * N
    BY Zenon DEF Due, B, D, S, N
  <2>2. (Value(t) - B) * D \in Int /\ (Value(t) - S) * N \in Int
    BY <1>1, <1>5
  <2> QED  BY <2>1, <2>2, Zenon
<1> QED  BY <1>5, <1>6, Zenon DEF N, D, S, B, hi

\* A deadline on the fake clock, put on the real one: clock_nanosleep,
\* sem_clockwait and the timers.
LEMMA DeadlineMoved ==
  ASSUME conf \in Conf, now \in 0..MaxNow, NEW c \in Clock, Faked(c), NEW t \in Deadline(c)
  PROVE  LET u == timespecadd(Start[c], ToReal(timespecsub(t, Base)))
         IN  /\ u \in Timespec /\ Value(u) \in Int /\ End(u, c) \in Int /\ 0 <= Value(u)
             /\ End(u, c) <= Due(c, t) + conf.num
             /\ Due(c, t) <= End(u, c) + conf.num \/ u = MaxTime
<1> DEFINE N == conf.num
           D == conf.den
           S == Value(Start[c])
           B == Value(Base)
           hi == Value(MaxTime)
           d == timespecsub(t, Base)
           h == ToReal(d)
           u == timespecadd(Start[c], h)
<1>1. /\ N \in Nat \ {0} /\ D \in Nat \ {0} /\ S \in Nat /\ B \in Nat /\ B <= hi /\ hi \in Int
      /\ Value(MinTime) = -hi - 1 /\ Value(MinTime) \in Int /\ Base \in Timespec /\ Start[c] \in Timespec
      /\ S + MaxNow < hi /\ MaxNow \in Nat
  BY Settings, Zenon
<1>2. c \in Kind
  BY Zenon DEF Faked, Kind
<1>3. /\ t \in Timespec /\ Value(t) \in Int /\ 0 <= Value(t) /\ Value(t) <= hi
      /\ 0 <= S * N + (Value(t) - B) * D /\ Due(c, t) = (Value(t) - B) * D
      /\ 0 <= S + (Value(t) - B)
  BY <1>2, Deadlines, Zenon DEF Due
<1>4. d \in Timespec /\ Value(d) = Clamped(Value(t) - B)
  BY <1>1, <1>3, SubClamped, Zenon
<1> HIDE DEF N, D, S, B, hi, d
<1>5. Value(d) = Value(t) - B
  BY <1>1, <1>3, <1>4 DEF Clamped, hi
<1> DEFINE x == Value(d) * D
<1>6. x \in Int /\ S * N \in Int /\ hi * N \in Int /\ Value(d) \in Int /\ x = Due(c, t) /\ 0 <= S * N + x
      /\ Value(MinTime) * N \in Int
  BY <1>1, <1>3, <1>5
<1>7. Value(MinTime) * N <= x
  <2>1. Value(MinTime) <= -S /\ -S \in Int /\ N \in Nat
    BY <1>1
  <2>2. Value(MinTime) * N <= (-S) * N /\ (-S) * N = -(S * N)
    BY <1>1, <2>1, Monotone
  <2> QED  BY <1>1, <1>6, <2>2
<1>8. Rounded(d, h, D, N)
  BY <1>4, <1>7, Conversions, Zenon DEF D, N
<1> HIDE DEF h, x
<1>9. /\ h \in Timespec
      /\ 0 <= Value(d) => 0 <= Value(h) /\ Value(h) * N <= x
      /\ Value(d) < 0 => x <= Value(h) * N
      /\ Value(h) * N < x + N
      /\ x < Value(h) * N + N \/ Value(h) = hi
  BY <1>8, Zenon DEF Rounded, hi, x
<1>10. h.sec \in Int /\ h.nsec \in 0..SubSec - 1 /\ Value(h) \in Int
  BY <1>9, TimeAssumption DEF Timespec, MinSec, Value
<1>11. 0 <= S + Value(h)
  <2>1. CASE 0 <= Value(d)
    BY <1>1, <1>9, <1>10, <2>1
  <2>2. CASE Value(d) < 0
    <3>1. SUFFICES ASSUME Value(h) <= -S - 1 PROVE FALSE
      BY <1>1, <1>10
    <3>2. -S - 1 \in Int /\ N \in Nat
      BY <1>1
    <3>3. Value(h) * N <= (-S - 1) * N /\ (-S - 1) * N = -(S * N) - N
      BY <1>1, <1>10, <3>1, <3>2, Monotone
    <3>4. Value(h) * N \in Int
      BY <1>1, <1>10
    <3> QED  BY <1>1, <1>6, <1>9, <2>2, <3>3, <3>4
  <2> QED  BY <1>6, <2>1, <2>2
<1>12. S = S + 0 /\ 0 \in Int /\ Value(MinTime) <= S + Value(h)
  BY <1>1, <1>10, <1>11, SMTT(60)
<1>13. /\ u \in Timespec /\ Value(u) \in Int /\ End(u, c) \in Int
       /\ Value(u) = IF S + Value(h) > hi THEN hi ELSE S + Value(h)
       /\ End(u, c) <= 0 * N + Value(h) * N
       /\ u = MaxTime \/ End(u, c) = 0 * N + Value(h) * N
       /\ Value(u) = hi => u = MaxTime
  BY <1>1, <1>10, <1>12, Landing DEF N, S, hi
<1> HIDE DEF u
<1>14. 0 * N = 0 /\ Value(h) * N \in Int
  BY <1>1, <1>10
<1>15. Value(h) = hi => u = MaxTime
  BY <1>1, <1>10, <1>13
<1>16. 0 <= Value(u)
  BY <1>1, <1>10, <1>11, <1>13
<1>17. End(u, c) <= x + N /\ (x <= End(u, c) + N \/ u = MaxTime)
  BY <1>1, <1>6, <1>9, <1>13, <1>14, <1>15
<1> QED  BY <1>6, <1>13, <1>16, <1>17, Zenon DEF u, h, d, N

\* What becomes of a time: it fits, and scaled or in whole microseconds it
\* is off by less than a unit.
LEMMA Times ==
  ASSUME conf \in Conf, now \in 0..MaxNow, NEW t \in Timespec
  PROVE  /\ Value(t) \in Int /\ t.sec \in Int /\ t.nsec \in 0..SubSec - 1
         /\ Value(t) <= Value(MaxTime) /\ Value(MinTime) <= Value(t)
         /\ (0 <= Value(t) => 0 <= t.sec) /\ (Value(t) = Value(MaxTime) => t = MaxTime)
         /\ ToReal(t) \in Timespec /\ ToFake(t) \in Timespec /\ Scaled(t) \in Timespec
         /\ 0 <= Value(t) =>
              LET h == Scaled(t)
                  x == Value(t) * Rate
                  m == ToMicro(t)
              IN  /\ h.sec \in Int /\ h.nsec \in 0..SubSec - 1 /\ 0 <= Value(h) /\ Value(h) \in Int
                  /\ h \in Timespec /\ x \in Int /\ Value(h) * conf.num \in Int
                  /\ Value(h) * conf.num <= x /\ Value(h) * conf.num <= x + conf.num
                  /\ \A c \in Clock : \/ x <= Value(h) * conf.num + conf.num
                                       \/ Value(Real(c)) + Value(h) >= Value(MaxTime)
                  /\ x < Value(h) * conf.num + conf.num \/ Value(h) = Value(MaxTime)
                  /\ Faking => Value(h) * conf.num <= Value(MaxTime) * conf.den
                  /\ m \in Timespec /\ Value(m) \in Int /\ 0 <= Value(m) /\ Value(m) <= Value(t)
                  /\ Value(t) <= Value(m) + Micro - 1 /\ Micro \in Nat \ {0}
                  /\ Value(t) * conf.num <= Value(m) * conf.num + (Micro * conf.num - conf.num)
                  /\ Value(m) * conf.num <= Value(t) * conf.num
                  /\ Value(t) * conf.den <= Value(m) * conf.den + (Micro * conf.den - conf.den)
                  /\ Value(m) * conf.den <= Value(t) * conf.den
<1> DEFINE N == conf.num
           D == conf.den
           hi == Value(MaxTime)
<1>c. conf \in Conf /\ now \in 0..MaxNow
  OBVIOUS
<1>t. /\ N \in Nat \ {0} /\ D \in Nat \ {0} /\ N \in Int /\ D \in Int /\ N > 0 /\ D > 0
      /\ conf.set \in BOOLEAN /\ conf.fake_monotonic \in BOOLEAN /\ conf.dont_fake \in BOOLEAN
      /\ ~conf.set => N = D
      /\ Rate \in Nat \ {0} /\ Rate \in {N, D} /\ (~conf.dont_fake => Rate = D)
      /\ (conf.dont_fake => Rate = N)
  BY <1>c, Settings, Zenon DEF Rate
<1>n. /\ now \in Nat /\ now <= MaxNow /\ MaxNow \in Nat /\ now * N \in Int
      /\ hi \in Int /\ Value(MinTime) = -hi - 1 /\ Value(MinTime) \in Int /\ MaxTime \in Timespec
      /\ hi * D \in Int /\ hi * N \in Int /\ 0 <= hi
      /\ \A c \in Clock : /\ Value(Start[c]) \in Nat /\ Value(Start[c]) + MaxNow < hi
                          /\ Real(c) \in Timespec /\ Value(Real(c)) = Value(Start[c]) + now
                          /\ Start[c] \in Timespec
  BY <1>c, Settings, Zenon
<1> HIDE DEF N, D, hi
<1>v. ASSUME NEW s \in Timespec PROVE /\ Value(s) \in Int /\ s.sec \in Int /\ s.nsec \in 0..SubSec - 1
                                      /\ Value(s) <= hi /\ Value(MinTime) <= Value(s)
                                      /\ (0 <= Value(s) => 0 <= s.sec) /\ (Value(s) = hi => s = MaxTime)
  <2>1. /\ s.sec \in Int /\ s.nsec \in 0..SubSec - 1 /\ s.nsec \in Int /\ SubSec \in Nat /\ SubSec > 0
        /\ s.sec <= MaxSec /\ MaxSec \in Int /\ MinSec <= s.sec /\ MinSec \in Int
    BY TimeAssumption DEF Timespec, MinSec
  <2>2. s.sec * SubSec <= MaxSec * SubSec /\ MinSec * SubSec <= s.sec * SubSec
    BY <2>1, Monotone
  <2>3. s.sec * SubSec \in Int /\ MaxSec * SubSec \in Int /\ MinSec * SubSec \in Int
    BY <2>1
  <2>4. Value(s) \in Int /\ Value(s) <= hi /\ Value(MinTime) <= Value(s)
    BY <2>1, <2>2, <2>3 DEF Value, hi, MaxTime, MinTime
  <2>6. Value(s) = hi => s = MaxTime
    BY <1>c, Settings, Zenon DEF hi
  <2>5. ASSUME 0 <= Value(s) PROVE 0 <= s.sec
    <3>1. SUFFICES ASSUME s.sec <= -1 PROVE FALSE
      BY <2>1
    <3>2. s.sec * SubSec <= (-1) * SubSec /\ (-1) * SubSec = -SubSec
      BY <2>1, <3>1, Monotone
    <3> QED  BY <2>1, <2>3, <2>5, <3>2 DEF Value
  <2> QED  BY <2>1, <2>4, <2>5, <2>6, Zenon
<1>ty. ASSUME NEW s \in Timespec
       PROVE  ToReal(s) \in Timespec /\ ToFake(s) \in Timespec /\ Scaled(s) \in Timespec
  <2>1. N \in Nat /\ D \in Nat
    BY <1>t
  <2>2. timespecmul(s, D, N) \in Timespec /\ timespecmul(s, N, D) \in Timespec
    BY <1>t, <2>1, MulRounds, Zenon
  <2> QED  BY <2>2, Zenon DEF ToReal, ToFake, Scaled, N, D
<1>r. ASSUME NEW s \in Timespec, 0 <= Value(s), NEW c \in Clock
      PROVE  LET h == Scaled(s)
                 x == Value(s) * Rate
             IN  /\ h.sec \in Int /\ h.nsec \in 0..SubSec - 1 /\ 0 <= Value(h) /\ Value(h) \in Int
                 /\ h \in Timespec /\ x \in Int /\ Value(h) * N \in Int
                 /\ N \in Int /\ N <= (N + D) * 1 /\ Value(h) * N <= x /\ Value(h) * N <= x + N
                 /\ x <= Value(h) * N + N \/ Value(Real(c)) + Value(h) >= hi
                 /\ x < Value(h) * N + N \/ Value(h) = hi
                 /\ Faking => Value(h) * N <= hi * D
  <2> DEFINE h == Scaled(s)
             x == Value(s) * Rate
  <2>1. Rounded(s, h, Rate, N)
    BY <1>c, <1>r, Conversions, Zenon DEF N
  <2> HIDE DEF h
  <2>2. h \in Timespec /\ 0 <= Value(h) /\ Value(h) * N <= x /\ (x < Value(h) * N + N \/ Value(h) = hi)
    BY <1>r, <2>1, Zenon DEF Rounded, hi
  <2>3. h.sec \in Int /\ h.nsec \in 0..SubSec - 1 /\ Value(h) \in Int /\ Value(s) \in Int /\ Value(s) <= hi
    BY <1>v, <2>2, Zenon
  <2>4. x \in Int /\ Value(h) * N \in Int /\ Value(s) * D \in Int
    BY <1>t, <2>3
  <2>5. Value(s) * D <= hi * D /\ D \in Nat
    BY <1>t, <1>n, <2>3, Monotone
  <2>6. Faking => x = Value(s) * D
    BY <1>t, Zenon DEF Faking
  <2>7. N \in Int /\ N <= (N + D) * 1
    BY <1>t
  <2>8. Faking => Value(h) * N <= hi * D
    BY <1>n, <2>2, <2>4, <2>5, <2>6, SMTT(60)
  <2> HIDE DEF x
  <2>9. Value(h) * N <= x + N /\ (x <= Value(h) * N + N \/ Value(Real(c)) + Value(h) >= hi)
    BY <1>n, <1>t, <2>2, <2>3, <2>4
  <2> QED  BY <2>2, <2>3, <2>4, <2>7, <2>8, <2>9, Zenon DEF h, x
<1>mi. ASSUME NEW s \in Timespec, 0 <= Value(s)
       PROVE  LET m == ToMicro(s)
              IN  /\ m \in Timespec /\ Value(m) \in Int /\ 0 <= Value(m) /\ Value(m) <= Value(s)
                  /\ Value(s) <= Value(m) + Micro - 1 /\ Micro \in Nat \ {0}
                  /\ Value(s) * N <= Value(m) * N + (Micro * N - N) /\ Value(m) * N <= Value(s) * N
                  /\ Value(s) * D <= Value(m) * D + (Micro * D - D) /\ Value(m) * D <= Value(s) * D
  <2> DEFINE m == ToMicro(s)
             k == (s.nsec \div Micro) * Micro
  <2>1. Micro \in Nat \ {0} /\ SubSec \in Nat \ {0}
    BY RangeAssumption, TimeAssumption, Zenon
  <2>2. s.nsec \in Nat /\ s.nsec < SubSec /\ s.sec \in Int /\ 0 <= s.sec /\ s.sec \in MinSec..MaxSec
    <3>1. s.sec \in MinSec..MaxSec /\ s.nsec \in 0..SubSec - 1
      BY DEF Timespec
    <3>2. 0 <= s.sec /\ s.sec \in Int
      BY <1>mi, <1>v, Zenon
    <3> QED  BY <2>1, <3>1, <3>2
  <2>3. k \in Nat /\ k <= s.nsec /\ s.nsec < k + Micro
    BY <2>1, <2>2
  <2>4. m = [sec |-> s.sec, nsec |-> k]
    BY Zenon DEF ToMicro
  <2> HIDE DEF k, m
  <2>5. m \in Timespec
    BY <2>1, <2>2, <2>3, <2>4 DEF Timespec
  <2>6. Value(m) = s.sec * SubSec + k /\ Value(s) = s.sec * SubSec + s.nsec /\ s.sec * SubSec \in Nat
    BY <2>1, <2>2, <2>4 DEF Value
  <2>7. /\ Value(m) \in Int /\ 0 <= Value(m) /\ Value(m) <= Value(s) /\ Value(s) <= Value(m) + (Micro - 1)
        /\ Value(s) \in Int /\ Micro - 1 \in Nat
    BY <2>1, <2>2, <2>3, <2>6
  <2>8. ASSUME NEW z \in Nat
        PROVE  Value(s) * z <= Value(m) * z + (Micro * z - z) /\ Value(m) * z <= Value(s) * z
    <3>1. Value(m) * z <= Value(s) * z /\ Value(s) * z <= (Value(m) + (Micro - 1)) * z
      BY <2>7, Monotone
    <3>2. (Value(m) + (Micro - 1)) * z = Value(m) * z + (Micro - 1) * z /\ (Micro - 1) * z = Micro * z - z
      BY <2>1, <2>7, Distribute
    <3> QED  BY <3>1, <3>2
  <2>9. Value(s) <= Value(m) + Micro - 1 /\ N \in Nat /\ D \in Nat
    BY <1>t, <2>1, <2>7
  <2> QED  BY <2>1, <2>5, <2>7, <2>8, <2>9, Zenon DEF m
<1>f. ASSUME 0 <= Value(t)
      PROVE  \A c \in Clock : \/ Value(t) * Rate <= Value(Scaled(t)) * N + N
                              \/ Value(Real(c)) + Value(Scaled(t)) >= hi
  BY <1>f, <1>r, Zenon
<1>k. "real" \in Clock
  BY Zenon DEF Clock
<1> HIDE DEF hi
<1> QED  BY <1>v, <1>ty, <1>r, <1>mi, <1>f, <1>k, ZenonT(60) DEF N, D, hi

\* A reading of the fake clock is the elapsed time, scaled.
LEMMA Reading ==
  ASSUME conf \in Conf, now \in 0..MaxNow, NEW c \in Clock, Faked(c), NEW n \in 0..now,
         NEW t \in Timespec, Value(t) = Value(Start[c]) + n
  PROVE  \E k \in Nat : FakeRead(fake_clock_gettime(c, t), n, k)
<1> DEFINE N == conf.num
           D == conf.den
           hi == Value(MaxTime)
<1>c. conf \in Conf /\ now \in 0..MaxNow
  OBVIOUS
<1>t. /\ N \in Nat \ {0} /\ D \in Nat \ {0} /\ N \in Int /\ D \in Int /\ N > 0 /\ D > 0
      /\ conf.set \in BOOLEAN /\ conf.fake_monotonic \in BOOLEAN /\ conf.dont_fake \in BOOLEAN
      /\ ~conf.set => N = D
      /\ Rate \in Nat \ {0} /\ Rate \in {N, D} /\ (~conf.dont_fake => Rate = D)
      /\ (conf.dont_fake => Rate = N)
  BY <1>c, Settings, Zenon DEF Rate
<1>n. /\ now \in Nat /\ now <= MaxNow /\ MaxNow \in Nat /\ now * N \in Int
      /\ hi \in Int /\ Value(MinTime) = -hi - 1 /\ Value(MinTime) \in Int /\ MaxTime \in Timespec
      /\ hi * D \in Int /\ hi * N \in Int /\ 0 <= hi
      /\ \A b \in Clock : /\ Value(Start[b]) \in Nat /\ Value(Start[b]) + MaxNow < hi
                          /\ Real(b) \in Timespec /\ Value(Real(b)) = Value(Start[b]) + now
                          /\ Start[b] \in Timespec
  BY <1>c, Settings, Zenon
<1>v. ASSUME NEW s \in Timespec PROVE Value(s) \in Int
  BY <1>c, Times, Zenon
<1>b. /\ Value(Base) \in Nat /\ Base \in Timespec /\ Value(Base) <= hi
      /\ Value(Base) * D + MaxNow * N <= hi * D /\ Value(Base) * D \in Nat /\ MaxNow * N \in Nat
  BY <1>c, Settings, Zenon
<1>fk. Value(t) = Value(Start[c]) + n /\ Faked(c)
  OBVIOUS
<1> HIDE DEF N, D, hi
<1> DEFINE d == timespecsub(t, Start[c])
           g == ToFake(d)
           k == Value(g)
<1>1. n \in Nat /\ n <= MaxNow /\ Value(Start[c]) \in Nat /\ Start[c] \in Timespec /\ n <= hi
  BY <1>n
<1>2. d \in Timespec /\ Value(d) = Clamped(Value(t) - Value(Start[c]))
  BY <1>1, SubClamped, ZenonT(60)
<1>3. Value(t) - Value(Start[c]) = n /\ Clamped(n) = n
  BY <1>fk, <1>n, <1>1 DEF Clamped, hi
<1>4. Value(d) = n /\ 0 <= Value(d)
  BY <1>1, <1>2, <1>3
<1>5. Rounded(d, g, N, D)
  BY <1>c, <1>2, <1>4, Conversions, Zenon DEF N, D
<1> HIDE DEF g
<1>6. /\ g \in Timespec /\ 0 <= k /\ k * D <= n * N
      /\ n * N < k * D + D \/ n * N > hi * D
  BY <1>4, <1>5, Zenon DEF Rounded, hi
<1>7. k \in Nat
  BY <1>v, <1>6, SMTT(60)
<1> HIDE DEF k
<1>8. n * N <= MaxNow * N /\ n * N \in Int /\ k * D \in Int
  BY <1>t, <1>n, <1>1, <1>7, Monotone, SMTT(60)
<1>9. n * N < k * D + D
  BY <1>n, <1>b, <1>6, <1>8
<1>10. Value(Base) + k <= hi
  <2>1. SUFFICES ASSUME hi + 1 <= Value(Base) + k PROVE FALSE
    BY <1>n, <1>b, <1>7, SMTT(60)
  <2>2. (hi + 1) * D <= (Value(Base) + k) * D
    BY <1>t, <1>n, <1>b, <1>7, <2>1, Monotone, SMTT(60)
  <2>3. (hi + 1) * D = hi * D + D /\ (Value(Base) + k) * D = Value(Base) * D + k * D
    BY <1>t, <1>n, <1>b, <1>7, Distribute
  <2>4. hi * D + D <= Value(Base) * D + k * D /\ hi * D \in Int /\ D > 0 /\ D \in Int
    BY <1>t, <1>n, <2>2, <2>3, Zenon
  <2>5. /\ Value(Base) * D + MaxNow * N <= hi * D /\ Value(Base) * D \in Nat /\ MaxNow * N \in Nat
        /\ k * D <= n * N
    BY <1>b, <1>6, Zenon
  <2> DEFINE a1 == hi * D
             a2 == Value(Base) * D
             a3 == k * D
             a4 == MaxNow * N
             a5 == n * N
  <2>6. /\ a1 + D <= a2 + a3 /\ a1 \in Int /\ D > 0 /\ D \in Int /\ a2 + a4 <= a1
        /\ a2 \in Nat /\ a4 \in Nat /\ a3 <= a5 /\ a5 <= a4 /\ a5 \in Int /\ a3 \in Int
    BY <1>8, <2>4, <2>5, ZenonT(60)
  <2> HIDE DEF a1, a2, a3, a4, a5
  <2> QED  BY <2>6
<1>11. Value(Base) + k \in Int /\ Clamped(Value(Base) + k) = Value(Base) + k
  BY <1>n, <1>b, <1>7, <1>10 DEF Clamped, hi
<1>12. fake_clock_gettime(c, t) = timespecadd(Base, g)
  BY <1>fk, Zenon DEF fake_clock_gettime, Faked, g
<1>13. Value(timespecadd(Base, g)) = Clamped(Value(Base) + k)
  BY <1>b, <1>6, AddClamped, Zenon DEF k
<1>14. ~conf.set => k = n
  BY <1>4, Zenon DEF ToFake, g, k
<1> QED  BY <1>6, <1>7, <1>9, <1>10, <1>11, <1>12, <1>13, <1>14, ZenonT(60) DEF FakeRead, N, D, hi

\* A step that only fills the slot, with what WaitInv allows there.
LEMMA Entering ==
  ASSUME WaitInv, NEW w, slot' = w, UNCHANGED <<conf, now>>,
         \/ w \in WaitSlot /\ WaitGood(w)
         \/ w \in TimerSlot /\ TimerGood(w)
         \/ w \in ReadSlot /\ ReadGood(w)
         \/ w = Idle
  PROVE  WaitInv'
<1>1. conf' = conf /\ now' = now /\ slot' = w
  BY Zenon
<1>2. (Faking <=> Faking') /\ (\A c : Faked(c) <=> Faked(c)') /\ Rate' = Rate
  BY <1>1, Zenon DEF Faking, Faked, Rate
<1>3. Slack(w)' = Slack(w) /\ (OnTime(w)' <=> OnTime(w)) /\ (\A u, c : End(u, c)' = End(u, c))
  BY <1>1, Zenon DEF Slack, OnTime, End
<1>4. Exempt(w)' <=> Exempt(w)
  BY <1>1, <1>2, ZenonT(60) DEF Exempt
<1>5. Kept(w) => Kept(w)'
  BY <1>1, <1>3, <1>4, Zenon DEF Kept, IsTimer
<1>6. WaitGood(w) => WaitGood(w)'
  BY <1>1, <1>2, <1>3, <1>5, Zenon DEF WaitGood
<1>7. TimerGood(w) => TimerGood(w)'
  BY <1>1, <1>2, <1>4, <1>5, Zenon DEF TimerGood
<1>8. ReadGood(w) => ReadGood(w)'
  BY <1>1, <1>2, Zenon DEF ReadGood, Deadline, fake_clock_gettime, ToFake
<1>9. Conf' = Conf /\ WaitSlot' = WaitSlot
  BY DEF Conf, WaitSlot
<1> QED  BY <1>1, <1>6, <1>7, <1>8, Zenon DEF WaitInv

\* A call that has just blocked until u, for an end at due.
LEMMA Fresh ==
  ASSUME conf \in Conf, now \in 0..MaxNow,
         NEW call \in WaitCall, NEW c \in Clock, NEW u \in Timespec, NEW due \in Int,
         NEW unit \in Nat \ {0}, NEW sat \in BOOLEAN, NEW lag \in Nat, NEW e \in Int,
         e <= (conf.num + conf.den) * unit + lag * conf.num,
         \/ Exempt(Begun(call, c, u, due, unit, sat, lag))
         \/ End(u, c) <= due + e /\ (due <= End(u, c) + e \/ sat),
         call = "select" => unit = Micro /\ c = "real",
         call \in Resumed /\ Faking /\ c # "cpu" =>
           End(u, c) - now * conf.num <= Value(MaxTime) * conf.den
  PROVE  /\ Begun(call, c, u, due, unit, sat, lag) \in WaitSlot
         /\ WaitGood(Begun(call, c, u, due, unit, sat, lag))
<1> USE DEF Begun, Resumed
<1> DEFINE N == conf.num
           D == conf.den
           hi == Value(MaxTime)
<1>c. conf \in Conf /\ now \in 0..MaxNow
  OBVIOUS
<1>t. /\ N \in Nat \ {0} /\ D \in Nat \ {0} /\ N \in Int /\ D \in Int /\ N > 0 /\ D > 0
      /\ conf.set \in BOOLEAN /\ conf.fake_monotonic \in BOOLEAN /\ conf.dont_fake \in BOOLEAN
      /\ ~conf.set => N = D
      /\ Rate \in Nat \ {0} /\ Rate \in {N, D} /\ (~conf.dont_fake => Rate = D)
      /\ (conf.dont_fake => Rate = N)
  BY <1>c, Settings, Zenon DEF Rate
<1>n. /\ now \in Nat /\ now <= MaxNow /\ MaxNow \in Nat /\ now * N \in Int
      /\ hi \in Int /\ Value(MinTime) = -hi - 1 /\ Value(MinTime) \in Int /\ MaxTime \in Timespec
      /\ hi * D \in Int /\ hi * N \in Int /\ 0 <= hi
      /\ \A b \in Clock : /\ Value(Start[b]) \in Nat /\ Value(Start[b]) + MaxNow < hi
                          /\ Real(b) \in Timespec /\ Value(Real(b)) = Value(Start[b]) + now
                          /\ Start[b] \in Timespec
  BY <1>c, Settings, Zenon
<1>v. ASSUME NEW s \in Timespec PROVE Value(s) \in Int
  BY <1>c, Times, Zenon
<1>g. /\ e <= (N + D) * unit + lag * N
      /\ \/ Exempt(Begun(call, c, u, due, unit, sat, lag))
         \/ End(u, c) <= due + e /\ (due <= End(u, c) + e \/ sat)
      /\ call = "select" => unit = Micro /\ c = "real"
      /\ call \in Resumed /\ Faking /\ c # "cpu" => End(u, c) - now * N <= hi * D
  BY Zenon
<1> HIDE DEF N, D, hi
<1> DEFINE w == Begun(call, c, u, due, unit, sat, lag)
<1>1. w \in WaitSlot
  BY DEF WaitSlot
<1>2. /\ w.call = call /\ w.clk = c /\ w.until = u /\ w.due = due /\ w.unit = unit
      /\ w.sat = sat /\ w.resumes = 0 /\ w.lag = lag
  OBVIOUS
<1> HIDE DEF w
<1>3. Slack(w) = (N + D) * unit + lag * N
  <2>1. N * unit * 0 = 0 /\ (N + D) * unit * (1 + 0) = (N + D) * unit
        /\ (N + D) * unit \in Int /\ lag * N \in Int
    BY <1>t
  <2>2. Slack(w) = (N + D) * unit * (1 + 0) + lag * N + (IF call = "select" THEN N * unit * 0 ELSE 0)
    BY <1>2, Zenon DEF Slack, N, D
  <2> QED  BY <2>1, <2>2
<1>4. End(u, c) \in Int
  BY <1>n, <1>v, <1>t DEF End, N
<1>5. u # Never /\ due # Never
  BY RangeAssumption, Zenon
<1>6. Kept(w)
  <2>1. CASE Exempt(w)
    BY <2>1, Zenon DEF Kept
  <2>2. CASE End(u, c) <= due + e /\ (due <= End(u, c) + e \/ sat)
    <3>1. Slack(w) \in Int /\ e <= Slack(w)
      BY <1>t, <1>g, <1>3
    <3>2. End(u, c) - due <= Slack(w) /\ (-(End(u, c) - due) <= Slack(w) \/ sat)
      BY <1>4, <2>2, <3>1
    <3>3. OnTime(w)
      BY <1>2, <3>2, Zenon DEF OnTime, End
    <3> QED  BY <1>2, <1>5, <3>3, Zenon DEF Kept
  <2> QED  BY <1>g, <2>1, <2>2, Zenon DEF w
<1> QED  BY <1>g, <1>1, <1>2, <1>5, <1>6, ZenonT(60) DEF WaitGood, N, D, hi, w

\* Every call that blocks keeps what WaitInv says, whatever the rate and the
\* width of time_t.
LEMMA CallStep ==
  ASSUME WaitInv,
         \/ nanosleep \/ usleep \/ sleep \/ alarm \/ ppoll \/ pselect \/ epoll_wait
         \/ epoll_pwait \/ poll \/ select \/ clock_nanosleep \/ syscall_clock_nanosleep
         \/ sem_timedwait \/ sem_clockwait \/ CondRead \/ futex
  PROVE  WaitInv'
<1> USE DEF Begun, Resumed
<1> DEFINE N == conf.num
           D == conf.den
           hi == Value(MaxTime)
<1>c. conf \in Conf /\ now \in 0..MaxNow
  BY Zenon DEF WaitInv
<1>t. /\ N \in Nat \ {0} /\ D \in Nat \ {0} /\ N \in Int /\ D \in Int /\ N > 0 /\ D > 0
      /\ conf.set \in BOOLEAN /\ conf.fake_monotonic \in BOOLEAN /\ conf.dont_fake \in BOOLEAN
      /\ ~conf.set => N = D
      /\ Rate \in Nat \ {0} /\ Rate \in {N, D} /\ (~conf.dont_fake => Rate = D)
      /\ (conf.dont_fake => Rate = N)
  BY <1>c, Settings, Zenon DEF Rate
<1>n. /\ now \in Nat /\ now <= MaxNow /\ MaxNow \in Nat /\ now * N \in Int
      /\ hi \in Int /\ Value(MinTime) = -hi - 1 /\ Value(MinTime) \in Int /\ MaxTime \in Timespec
      /\ hi * D \in Int /\ hi * N \in Int /\ 0 <= hi
      /\ \A c \in Clock : /\ Value(Start[c]) \in Nat /\ Value(Start[c]) + MaxNow < hi
                          /\ Real(c) \in Timespec /\ Value(Real(c)) = Value(Start[c]) + now
                          /\ Start[c] \in Timespec
  BY <1>c, Settings, Zenon
<1> HIDE DEF N, D, hi
<1>v. ASSUME NEW t \in Timespec PROVE /\ Value(t) \in Int /\ t.sec \in Int /\ t.nsec \in 0..SubSec - 1
                                      /\ Value(t) <= hi /\ Value(MinTime) <= Value(t)
                                      /\ (0 <= Value(t) => 0 <= t.sec) /\ (Value(t) = hi => t = MaxTime)
  BY <1>c, Times, Zenon DEF hi
<1>w. ASSUME NEW call \in WaitCall, NEW c \in Clock, NEW u \in Timespec, NEW due \in Int,
             NEW unit \in Nat \ {0}, NEW e \in Int, e <= (N + D) * unit,
             \/ Exempt(Begun(call, c, u, due, unit, u = MaxTime, 0))
             \/ End(u, c) <= due + e /\ (due <= End(u, c) + e \/ u = MaxTime),
             call = "select" => unit = Micro /\ c = "real",
             call \in Resumed /\ Faking /\ c # "cpu" => End(u, c) - now * N <= hi * D,
             Block(Wait(call, c, u, due, unit))
      PROVE  WaitInv'
  <2> DEFINE sat == u = MaxTime
             w == Begun(call, c, u, due, unit, sat, 0)
  <2>1. 0 \in Nat /\ sat \in BOOLEAN /\ e <= (N + D) * unit + 0 * N
    BY <1>t, <1>w
  <2>2. w = Wait(call, c, u, due, unit)
    BY Zenon DEF Wait
  <2>3. Exempt(w) \/ (End(u, c) <= due + e /\ (due <= End(u, c) + e \/ sat))
    BY <1>w, Zenon
  <2> HIDE DEF sat
  <2>4. w \in WaitSlot /\ WaitGood(w)
    BY Fresh, <1>c, <1>w, <2>1, <2>3, ZenonT(60) DEF N, D, hi
  <2> QED  BY Entering, <1>w, <2>2, <2>4, ZenonT(60) DEF Block
<1>l. ASSUME NEW call \in WaitCall, NEW c \in Clock, NEW x \in Int, NEW unit \in Nat \ {0},
             NEW h, h.sec \in Int, h.nsec \in 0..SubSec - 1, 0 <= Value(h), Value(h) \in Int,
             NEW e \in Int, e <= (N + D) * unit, Value(h) * N <= x + e,
             x <= Value(h) * N + e \/ Value(Real(c)) + Value(h) >= hi,
             call = "select" => unit = Micro /\ c = "real",
             call \in Resumed /\ Faking /\ c # "cpu" => Value(h) * N <= hi * D,
             Block(Wait(call, c, timespecadd(Real(c), h), now * N + x, unit))
      PROVE  WaitInv'
  <2> DEFINE u == timespecadd(Real(c), h)
  <2>1. /\ u \in Timespec /\ End(u, c) \in Int
        /\ End(u, c) <= now * N + x + e
        /\ now * N + x <= End(u, c) + e \/ u = MaxTime
        /\ End(u, c) <= now * N + Value(h) * N
    BY <1>c, <1>l, LengthKept, Zenon DEF N, hi
  <2> HIDE DEF u
  <2>2. now * N + x \in Int /\ Value(h) * N \in Int
    BY <1>n, <1>t, <1>l
  <2>3. Value(h) * N <= hi * D => End(u, c) - now * N <= hi * D
    BY <1>n, <2>1, <2>2
  <2>4. call \in Resumed /\ Faking /\ c # "cpu" => End(u, c) - now * N <= hi * D
    BY <1>l, <2>3, Zenon
  <2>5. Block(Wait(call, c, u, now * N + x, unit))
    BY <1>l, Zenon DEF u
  <2> QED  BY <1>l, <1>w, <2>1, <2>2, <2>4, <2>5, Zenon
<1>s. ASSUME NEW call \in WaitCall, NEW v \in Int, NEW unit \in Nat \ {0},
             NEW h, h.sec \in Int, h.nsec \in 0..SubSec - 1, 0 <= Value(h), Value(h) \in Int,
             NEW e \in Int, e <= (N + D) * unit, Value(h) * N <= v * Rate + e,
             v * Rate <= Value(h) * N + e \/ Value(Real("real")) + Value(h) >= hi,
             call = "select" => unit = Micro,
             call \in Resumed /\ Faking => Value(h) * N <= hi * D,
             Block(Sleep(call, v, h, unit))
      PROVE  WaitInv'
  <2>1. "real" \in Clock /\ DueIn(v) = now * N + v * Rate
    BY Zenon DEF Clock, DueIn, Rate, N
  <2>2. v * Rate \in Int
    BY <1>t
  <2>3. Block(Wait(call, "real", timespecadd(Real("real"), h), now * N + v * Rate, unit))
    BY <1>s, <2>1, Zenon DEF Sleep
  <2> QED  BY <1>l, <1>s, <2>1, <2>2, <2>3, Zenon
<1>r. ASSUME NEW t \in Timespec, 0 <= Value(t), NEW c \in Clock
      PROVE  LET h == Scaled(t)
                 x == Value(t) * Rate
             IN  /\ h.sec \in Int /\ h.nsec \in 0..SubSec - 1 /\ 0 <= Value(h) /\ Value(h) \in Int
                 /\ h \in Timespec /\ x \in Int /\ Value(h) * N \in Int
                 /\ N \in Int /\ N <= (N + D) * 1 /\ Value(h) * N <= x /\ Value(h) * N <= x + N
                 /\ x <= Value(h) * N + N \/ Value(Real(c)) + Value(h) >= hi
                 /\ x < Value(h) * N + N \/ Value(h) = hi
                 /\ Faking => Value(h) * N <= hi * D
  <2>1. N \in Int /\ N <= (N + D) * 1
    BY <1>t
  <2> QED  BY <1>c, <1>r, <2>1, Times, ZenonT(60) DEF N, D, hi
<1>sc. ASSUME NEW call \in WaitCall \ {"select"}, NEW t \in Timespec, 0 <= Value(t),
              Block(Sleep(call, Value(t), Scaled(t), 1))
       PROVE  WaitInv'
  <2>1. "real" \in Clock /\ Value(t) \in Int /\ 1 \in Nat \ {0}
    BY <1>v DEF Clock
  <2> DEFINE h == Scaled(t)
  <2>2. /\ h.sec \in Int /\ h.nsec \in 0..SubSec - 1 /\ 0 <= Value(h) /\ Value(h) \in Int
        /\ N \in Int /\ N <= (N + D) * 1 /\ Value(h) * N <= Value(t) * Rate + N
        /\ Value(t) * Rate <= Value(h) * N + N \/ Value(Real("real")) + Value(h) >= hi
        /\ Faking => Value(h) * N <= hi * D
    BY <1>r, <1>sc, <2>1, Zenon
  <2> QED  BY <1>s, <1>sc, <2>1, <2>2, Zenon
<1>len. ASSUME NEW v \in Lengths
        PROVE  v \in Int /\ 0 <= v /\ v <= hi /\ Split(v) \in Timespec /\ Value(Split(v)) = v
               /\ Split(v).sec \in Int /\ Split(v).nsec \in 0..SubSec - 1
  <2>1. v \in 0..hi
    BY RangeAssumption, Zenon DEF hi
  <2>2. v \in Int /\ 0 <= v /\ v <= hi /\ Value(MinTime) <= v
    BY <1>n, <2>1
  <2> QED  BY <2>2, SplitValue, Zenon DEF hi
<1>tm. ASSUME NEW u \in Timeouts
       PROVE  u \in Int /\ u <= IntMax /\ u <= MaxSec /\ IntMax \in Nat \ {0} /\ Micro \in Nat \ {0}
              /\ Milli \in Nat \ {0} /\ MaxSec \in Nat /\ SubSec \in Nat \ {0}
  BY RangeAssumption, TimeAssumption, Zenon
<1>1. ASSUME nanosleep PROVE WaitInv'
  <2>1. PICK v \in Lengths : Block(Sleep("nanosleep", v, Scaled(Split(v)), 1))
    BY <1>1, Zenon DEF nanosleep
  <2>2. "nanosleep" \in WaitCall \ {"select"}
    BY DEF WaitCall
  <2> QED  BY <1>len, <1>sc, <2>1, <2>2
<1>2. ASSUME usleep PROVE WaitInv'
  <2> DEFINE perSec == SubSec \div Micro
             req(u) == [sec |-> u \div perSec, nsec |-> (u % perSec) * Micro]
  <2>1. PICK u \in Timeouts : u >= 0 /\ Block(Sleep("usleep", u * Micro, Scaled(req(u)), 1))
    BY <1>2, Zenon DEF usleep
  <2>2. u \in Nat /\ u <= MaxSec /\ Micro \in Nat \ {0} /\ MaxSec \in Nat /\ SubSec \in Nat \ {0}
    BY <1>tm, <2>1
  <2>3. perSec * Micro = SubSec /\ perSec \in Nat
    <3>1. perSec * Micro = SubSec
      BY RangeAssumption, Zenon
    <3> QED  BY <2>2, <3>1
  <2>4. perSec \in Nat \ {0}
    BY <2>2, <2>3
  <2> HIDE DEF perSec
  <2> DEFINE q == u \div perSec
             r == u % perSec
  <2>5. /\ q \in Nat /\ r \in Nat /\ u = perSec * q + r /\ r < perSec
    BY <2>2, <2>4
  <2> HIDE DEF q, r
  <2>6. q <= u
    <3>1. 1 * q <= perSec * q /\ 1 * q = q /\ perSec * q \in Int
      BY <2>4, <2>5, Monotone
    <3> QED  BY <2>5, <3>1
  <2>7. r * Micro \in 0..SubSec - 1
    <3>1. r * Micro <= (perSec - 1) * Micro /\ (perSec - 1) * Micro = perSec * Micro - Micro /\ r * Micro \in Nat
      BY <2>2, <2>4, <2>5, Monotone
    <3> QED  BY <2>2, <2>3, <3>1
  <2>8. q * SubSec + r * Micro = u * Micro
    <3>1. q * SubSec = q * (perSec * Micro)
      BY <2>3
    <3>2. q * (perSec * Micro) = (perSec * q) * Micro
      BY <2>2, <2>4, <2>5
    <3>3. (perSec * q + r) * Micro = (perSec * q) * Micro + r * Micro
      BY <2>2, <2>4, <2>5, perSec * q \in Int, Distribute
    <3> QED  BY <2>5, <3>1, <3>2, <3>3
  <2>9. req(u) \in Timespec /\ Value(req(u)) = u * Micro
    <3>1. req(u) = [sec |-> q, nsec |-> r * Micro]
      BY Zenon DEF q, r
    <3>2. q \in MinSec..MaxSec
      BY <2>2, <2>5, <2>6 DEF MinSec
    <3>3. Value(req(u)) = q * SubSec + r * Micro
      BY <3>1 DEF Value
    <3> QED  BY <2>7, <2>8, <3>1, <3>2, <3>3 DEF Timespec
  <2>10. 0 <= u * Micro
    BY <2>2
  <2>11. "usleep" \in WaitCall \ {"select"}
    BY DEF WaitCall
  <2> HIDE DEF req
  <2> QED  BY <1>sc, <2>1, <2>9, <2>10, <2>11
<1>3. ASSUME sleep PROVE WaitInv'
  <2>1. PICK u \in Timeouts : u >= 0 /\ Block(Sleep("sleep", u * SubSec, Scaled([sec |-> u, nsec |-> 0]), 1))
    BY <1>3, Zenon DEF sleep
  <2>2. u \in Nat /\ u <= MaxSec /\ MaxSec \in Nat /\ SubSec \in Nat \ {0}
    BY <1>tm, <2>1
  <2>3. [sec |-> u, nsec |-> 0] \in Timespec /\ Value([sec |-> u, nsec |-> 0]) = u * SubSec
    <3>1. u \in MinSec..MaxSec /\ 0 \in 0..SubSec - 1 /\ u * SubSec + 0 = u * SubSec
      BY <2>2 DEF MinSec
    <3> QED  BY <3>1 DEF Timespec, Value
  <2>4. 0 <= u * SubSec
    BY <2>2
  <2>5. "sleep" \in WaitCall \ {"select"}
    BY DEF WaitCall
  <2> QED  BY <1>sc, <2>1, <2>3, <2>4, <2>5
<1>f. ~Faking => Rate = N
  BY <1>t, Zenon DEF Faking
<1>ty. ASSUME NEW t \in Timespec
       PROVE  ToReal(t) \in Timespec /\ ToFake(t) \in Timespec /\ Scaled(t) \in Timespec
  BY <1>c, Times, Zenon
<1>no. ASSUME NEW call \in WaitCall, NEW due \in Int \cup {Never}, NEW unit \in Nat \ {0},
              call \notin Resumed, Exempt(Wait(call, "real", Never, due, unit)) \/ due = Never,
              Block(Wait(call, "real", Never, due, unit))
       PROVE  WaitInv'
  <2> DEFINE sat == Never = MaxTime
             w == Begun(call, "real", Never, due, unit, sat, 0)
  <2>1. "real" \in Clock /\ Never \in Timespec \cup {Never} /\ 0 \in Nat /\ sat \in BOOLEAN
    BY DEF Clock
  <2>2. w = Wait(call, "real", Never, due, unit)
    BY Zenon DEF Wait
  <2> HIDE DEF sat
  <2>3. w \in WaitSlot
    BY <2>1 DEF WaitSlot
  <2>4. w.call = call /\ w.until = Never /\ w.due = due
    OBVIOUS
  <2> HIDE DEF w
  <2>5. Kept(w)
    BY <1>no, <2>2, <2>4, Zenon DEF Kept
  <2>6. WaitGood(w)
    BY <1>no, <2>4, <2>5, Zenon DEF WaitGood
  <2> QED  BY Entering, <1>no, <2>2, <2>3, <2>6, Zenon DEF Block
<1>4. ASSUME alarm PROVE WaitInv'
  <2> DEFINE sr(s) == IF Faking THEN Quot(s * D, N) ELSE s
             h(s) == [sec |-> sr(s), nsec |-> 0]
  <2>1. PICK s \in Timeouts :
          /\ s > 0
          /\ Block(IF sr(s) = 0 THEN Wait("alarm", "real", Never, DueIn(s * SubSec), SubSec)
                   ELSE Sleep("alarm", s * SubSec, h(s), SubSec))
    BY <1>4, Zenon DEF alarm, N, D
  <2>2. s \in Nat /\ s > 0 /\ SubSec \in Nat \ {0} /\ s * SubSec \in Int /\ SubSec \in Nat
    BY <1>tm, <2>1
  <2>3. "alarm" \in WaitCall /\ "alarm" \notin Resumed
    BY DEF WaitCall
  <2>4. CASE sr(s) = 0
    <3>1. Faking
      BY <2>2, <2>4, SMTT(60)
    <3>2. Exempt(Wait("alarm", "real", Never, DueIn(s * SubSec), SubSec))
      BY <3>1 DEF Exempt, Wait
    <3>3. DueIn(s * SubSec) \in Int
      BY <1>t, <1>n, <2>2 DEF DueIn, N, D
    <3> QED  BY <1>no, <2>1, <2>2, <2>3, <2>4, <3>2, <3>3, Zenon
  <2>5. CASE sr(s) # 0
    <3> DEFINE q == sr(s)
               x == (s * SubSec) * Rate
    <3>1. q \in Nat /\ q * N <= s * Rate /\ s * Rate <= q * N + N
      <4>1. CASE Faking
        <5>1. Rate = D /\ q = Quot(s * D, N)
          BY <1>t, <4>1, Zenon DEF Faking
        <5>2. s * D \in Int /\ s * D >= 0
          BY <1>t, <2>2
        <5>3. /\ Quot(s * D, N) \in Int /\ Rem(s * D, N) \in Int
              /\ s * D = N * Quot(s * D, N) + Rem(s * D, N)
              /\ Quot(s * D, N) >= 0 /\ 0 <= Rem(s * D, N) /\ Rem(s * D, N) < N
          BY <1>t, <5>2, QuotRem, ZenonT(60)
        <5> HIDE DEF q
        <5>4. q \in Nat /\ s * D = N * q + Rem(s * D, N) /\ N * q = q * N /\ q * N \in Int
          BY <1>t, <5>1, <5>3
        <5> QED  BY <1>t, <5>1, <5>2, <5>3, <5>4
      <4>2. CASE ~Faking
        <5>1. Rate = N /\ q = s
          BY <1>f, <4>2, Zenon
        <5>2. s * N \in Int
          BY <1>t, <2>2
        <5> HIDE DEF q
        <5> QED  BY <1>t, <2>2, <5>1, <5>2
      <4> QED  BY <4>1, <4>2, ZenonT(60)
    <3>2. h(s).sec = q /\ h(s).nsec = 0 /\ h(s).nsec \in 0..SubSec - 1
      BY <2>2
    <3> HIDE DEF q
    <3>3. Value(h(s)) = q * SubSec + 0
      BY <3>2, Zenon DEF Value
    <3> HIDE DEF h
    <3>4. /\ q * N \in Int /\ s * Rate \in Int /\ q * SubSec \in Nat
          /\ (q * SubSec) * N = (q * N) * SubSec /\ x = (s * Rate) * SubSec
      BY <1>t, <2>2, <3>1
    <3>5. (q * N) * SubSec <= (s * Rate) * SubSec
      BY <2>2, <3>1, <3>4, Monotone
    <3>6. (s * Rate) * SubSec <= (q * N + N) * SubSec /\ (q * N + N) * SubSec = (q * N) * SubSec + N * SubSec
      BY <1>t, <2>2, <3>1, <3>4, Monotone, Distribute, SMTT(60)
    <3>7. N * SubSec \in Int /\ (N + D) * SubSec = N * SubSec + D * SubSec /\ 0 <= D * SubSec /\ 0 <= N * SubSec
          /\ D * SubSec \in Int
      BY <1>t, <2>2, Distribute
    <3> DEFINE e == N * SubSec
    <3>8. /\ e \in Int /\ e <= (N + D) * SubSec /\ 0 <= Value(h(s)) /\ Value(h(s)) \in Int
          /\ Value(h(s)) = q * SubSec /\ h(s).sec \in Int
      BY <3>1, <3>2, <3>3, <3>4, <3>7, SMTT(60)
    <3>9. Value(h(s)) * N <= x + e /\ x <= Value(h(s)) * N + e
      <4>1. (q * N) * SubSec \in Int /\ (s * Rate) * SubSec \in Int
        BY <2>2, <3>4
      <4> HIDE DEF x
      <4> QED  BY <3>4, <3>5, <3>6, <3>7, <3>8, <4>1
    <3>10. Block(Sleep("alarm", s * SubSec, h(s), SubSec))
      BY <2>1, <2>5, Zenon
    <3> HIDE DEF e
    <3> QED  BY <1>s, <2>2, <2>3, <3>2, <3>8, <3>9, <3>10, ZenonT(60)
  <2> QED  BY <2>4, <2>5, Zenon
<1>pp. ASSUME NEW call \in WaitCall \ Resumed, NEW v \in Lengths,
              Block(Sleep(call, v, IF v > 0 THEN Scaled(Split(v)) ELSE Split(v), 1))
       PROVE  WaitInv'
  <2>1. CASE v > 0
    <3>1. Block(Sleep(call, Value(Split(v)), Scaled(Split(v)), 1)) /\ 0 <= Value(Split(v))
      BY <1>len, <1>pp, <2>1, Zenon
    <3> QED  BY <1>len, <1>sc, <3>1, Zenon
  <2>2. CASE ~(v > 0)
    <3>1. v = 0
      BY <1>len, <2>2
    <3>2. Block(Sleep(call, v, Split(v), 1))
      BY <1>pp, <2>2, Zenon
    <3>3. v * Rate = 0 /\ Value(Split(v)) * N = 0 /\ 0 \in Int /\ 0 <= (N + D) * 1 /\ 1 \in Nat \ {0} /\ 0 <= 0 + 0
      BY <1>t, <1>len, <3>1
    <3>4. Value(Split(v)) * N <= v * Rate + 0 /\ v * Rate <= Value(Split(v)) * N + 0 /\ 0 <= Value(Split(v))
          /\ Value(Split(v)) \in Int
      BY <1>len, <3>1, <3>3
    <3> QED  BY <1>s, <1>len, <3>2, <3>3, <3>4, Zenon
  <2> QED  BY <2>1, <2>2, Zenon
<1>5. ASSUME ppoll PROVE WaitInv'
  <2>1. "ppoll" \in WaitCall \ Resumed
    BY DEF WaitCall
  <2> QED  BY <1>5, <1>pp, <2>1, Zenon DEF ppoll
<1>6. ASSUME pselect PROVE WaitInv'
  <2>1. "pselect" \in WaitCall \ Resumed
    BY DEF WaitCall
  <2> QED  BY <1>6, <1>pp, <2>1, Zenon DEF pselect
<1>po. ASSUME NEW call \in WaitCall \ Resumed, Poll(call) PROVE WaitInv'
  <2> DEFINE rt(ms) == scale_timeout_milliseconds(ms)
  <2>1. PICK ms \in Timeouts :
          Block(IF ms < 0 THEN Wait(call, "real", Never, Never, Milli)
                ELSE [Sleep(call, ms * Milli, Split(rt(ms) * Milli), Milli)
                        EXCEPT !.sat = rt(ms) = IntMax])
    BY <1>po, Zenon DEF Poll
  <2>2. /\ ms \in Int /\ ms <= IntMax /\ Milli \in Nat \ {0} /\ Milli \in Nat /\ IntMax \in Nat \ {0}
    BY <1>tm, Zenon
  <2>3. CASE ms < 0
    <3>1. Block(Wait(call, "real", Never, Never, Milli)) /\ Never \in Int \cup {Never}
      BY <2>1, <2>3
    <3> QED  BY <1>no, <2>2, <3>1, Zenon
  <2>4. CASE ms >= 0
    <3> DEFINE k == rt(ms)
    <3>1. /\ k \in Nat /\ k <= IntMax /\ k * N <= ms * Rate + N
          /\ ms * Rate <= k * N \/ k = IntMax
      <4>1. CASE ms <= 0 \/ ~Faking
        <5>1. k = ms
          BY <4>1, Zenon DEF scale_timeout_milliseconds
        <5> HIDE DEF k
        <5>2. k * N = ms * Rate /\ k * N \in Int
          <6>1. CASE ms <= 0
            <7>1. ms = 0 /\ k = 0
              BY <2>2, <2>4, <5>1, <6>1
            <7> QED  BY <1>t, <7>1
          <6>2. CASE ~Faking
            <7>1. Rate = N
              BY <1>f, <6>2, Zenon
            <7> QED  BY <1>t, <2>2, <5>1, <7>1
          <6> QED  BY <4>1, <6>1, <6>2, Zenon
        <5> QED  BY <1>t, <2>2, <2>4, <5>1, <5>2
      <4>2. CASE ~(ms <= 0) /\ Faking
        <5> DEFINE x == ms * D
                   q == Quot(x, N)
                   r == Rem(x, N)
                   ceil == q + (IF r > 0 THEN 1 ELSE 0)
        <5>1. k = IF ceil >= IntMax THEN IntMax ELSE IF ceil < 1 THEN 1 ELSE ceil
          BY <4>2, Zenon DEF scale_timeout_milliseconds, N, D
        <5>2. x \in Int /\ x >= 1 /\ x >= 0 /\ Rate = D /\ x = ms * Rate
          <6>1. ms \in Nat /\ ms >= 1 /\ 1 * D = D
            BY <1>t, <2>2, <4>2
          <6>2. 1 * D <= ms * D /\ ms * D \in Int
            BY <1>t, <6>1, Monotone
          <6>3. Rate = D
            BY <1>t, <4>2, Zenon DEF Faking
          <6> QED  BY <1>t, <6>1, <6>2, <6>3
        <5> HIDE DEF x, k
        <5>3. q \in Int /\ r \in Int /\ x = N * q + r /\ q >= 0 /\ 0 <= r /\ r < N
          BY <1>t, <5>2, QuotRem, Zenon
        <5> HIDE DEF q, r
        <5>4. ceil \in Int /\ ceil >= 0 /\ (ceil = q \/ ceil = q + 1) /\ (ceil = q => r = 0)
          BY <5>3, SMTT(60)
        <5>5. x <= ceil * N /\ ceil * N < x + N /\ ceil * N \in Int
          <6>1. N * q = q * N /\ q * N \in Int /\ (q + 1) * N = q * N + N
            BY <1>t, <5>3
          <6>2. CASE r = 0
            BY <1>t, <5>2, <5>3, <6>1, <6>2, SMTT(60)
          <6>3. CASE r > 0
            BY <1>t, <5>2, <5>3, <6>1, <6>3, SMTT(60)
          <6> QED  BY <5>3, <6>2, <6>3, SMTT(60)
        <5> HIDE DEF ceil
        <5>6. ceil >= 1
          BY <1>t, <5>2, <5>4, <5>5, SMTT(60)
        <5>7. k \in Nat /\ k <= IntMax /\ k <= ceil /\ (k = IntMax \/ k = ceil)
          BY <2>2, <5>1, <5>4, <5>6, SMTT(60)
        <5>8. k * N <= ceil * N /\ k * N \in Int
          BY <1>t, <5>4, <5>7, Monotone
        <5> QED  BY <1>t, <5>2, <5>5, <5>7, <5>8
      <4> QED  BY <4>1, <4>2, Zenon
    <3> HIDE DEF k
    <3> DEFINE h == Split(k * Milli)
               u == timespecadd(Real("real"), h)
               x == (ms * Milli) * Rate
               sat == k = IntMax
               e == (N + D) * Milli
    <3>2. k * Milli \in Int /\ 0 <= k * Milli /\ k * Milli <= IntMax * Milli /\ IntMax * Milli \in Int
      BY <2>2, <3>1, Monotone
    <3>3. h.sec \in Int /\ h.nsec \in 0..SubSec - 1 /\ Value(h) = k * Milli
      BY <3>2, SplitValue, Zenon
    <3> HIDE DEF h
    <3>4. /\ "real" \in Clock /\ Real("real") \in Timespec /\ Value(Real("real")) = Value(Start["real"]) + now
          /\ Value(Start["real"]) \in Nat
      BY <1>n, Zenon DEF Clock
    <3>5. Value(Start["real"]) + MaxNow + IntMax * Milli < hi
      BY RangeAssumption, ZenonT(60) DEF hi
    <3>6. Value(Real("real")) + Value(h) < hi /\ Value(MinTime) <= Value(Real("real")) + Value(h) /\ now \in Int
      BY <1>n, <3>2, <3>3, <3>4, <3>5, SMTT(60)
    <3>7. /\ u \in Timespec /\ Value(u) \in Int /\ End(u, "real") \in Int
          /\ Value(u) = IF Value(Real("real")) + Value(h) > hi THEN hi ELSE Value(Real("real")) + Value(h)
          /\ u = MaxTime \/ End(u, "real") = now * N + Value(h) * N
      BY <1>c, <3>3, <3>4, <3>6, Landing, SMTT(60) DEF N, hi
    <3> HIDE DEF u
    <3>8. End(u, "real") = now * N + (k * Milli) * N
      <4>1. Value(u) < hi
        BY <1>n, <3>2, <3>3, <3>4, <3>6, <3>7, SMTT(60)
      <4>2. u # MaxTime
        BY <1>n, <3>7, <4>1 DEF hi
      <4> QED  BY <3>3, <3>7, <4>2, ZenonT(60)
    <3>9. k * N \in Int /\ ms * Rate \in Int /\ (k * Milli) * N = (k * N) * Milli /\ x = (ms * Rate) * Milli
      BY <1>t, <2>2, <3>1
    <3>10. /\ (k * N) * Milli <= (ms * Rate) * Milli + N * Milli
           /\ (ms * Rate) * Milli <= (k * N) * Milli \/ sat
      <4>1. (k * N) * Milli <= (ms * Rate + N) * Milli /\ (ms * Rate + N) * Milli = (ms * Rate) * Milli + N * Milli
        BY <1>t, <2>2, <3>1, <3>9, Monotone, Distribute, SMTT(60)
      <4>2. CASE ms * Rate <= k * N
        BY <2>2, <3>9, <4>1, <4>2, Monotone
      <4>3. CASE k = IntMax
        BY <4>1, <4>3
      <4> QED  BY <3>1, <4>2, <4>3, ZenonT(60)
    <3>11. /\ e \in Int /\ N * Milli <= e /\ N * Milli \in Int /\ (k * N) * Milli \in Int
           /\ (ms * Rate) * Milli \in Int /\ 0 <= e
      <4>1. (N + D) * Milli = N * Milli + D * Milli /\ N * Milli \in Nat /\ D * Milli \in Nat
        BY <1>t, <2>2, Distribute, SMTT(60)
      <4> QED  BY <2>2, <3>9, <4>1
    <3> HIDE DEF x, sat, e
    <3>12. End(u, "real") <= now * N + x + e /\ (now * N + x <= End(u, "real") + e \/ sat)
      BY <1>n, <3>7, <3>8, <3>9, <3>10, <3>11, SMTT(60)
    <3>13. now * N + x \in Int /\ 0 \in Nat /\ sat \in BOOLEAN /\ e <= (N + D) * Milli + 0 * N
      BY <1>n, <1>t, <3>9, <3>11 DEF e, sat
    <3>14. DueIn(ms * Milli) = now * N + x
      BY Zenon DEF DueIn, Rate, N, x
    <3>15. [Sleep(call, ms * Milli, h, Milli) EXCEPT !.sat = sat]
             = Begun(call, "real", u, now * N + x, Milli, sat, 0)
      BY <3>14 DEF Sleep, Wait, u
    <3>16. /\ Begun(call, "real", u, now * N + x, Milli, sat, 0) \in WaitSlot
           /\ WaitGood(Begun(call, "real", u, now * N + x, Milli, sat, 0))
      BY Fresh, <1>c, <2>2, <3>4, <3>7, <3>11, <3>12, <3>13, ZenonT(60) DEF N, D, hi
    <3>17. Block([Sleep(call, ms * Milli, h, Milli) EXCEPT !.sat = sat])
      <4>1. ~(ms < 0)
        BY <2>2, <2>4
      <4> QED  BY <2>1, <4>1, Zenon DEF h, k, sat
    <3> HIDE DEF Begun
    <3> QED  BY Entering, <3>15, <3>16, <3>17, Zenon DEF Block
  <2> QED  BY <2>2, <2>3, <2>4
<1>7. ASSUME epoll_wait \/ epoll_pwait \/ poll PROVE WaitInv'
  <2>1. {"epoll_wait", "epoll_pwait", "poll"} \subseteq WaitCall \ Resumed
    BY DEF WaitCall
  <2> QED  BY <1>7, <1>po, <2>1, Zenon DEF epoll_wait, epoll_pwait, poll
<1>mi. ASSUME NEW t \in Timespec, 0 <= Value(t)
       PROVE  LET m == ToMicro(t)
              IN  /\ m \in Timespec /\ Value(m) \in Int /\ 0 <= Value(m) /\ Value(m) <= Value(t)
                  /\ Value(t) <= Value(m) + Micro - 1 /\ Micro \in Nat \ {0}
                  /\ Value(t) * N <= Value(m) * N + (Micro * N - N) /\ Value(m) * N <= Value(t) * N
                  /\ Value(t) * D <= Value(m) * D + (Micro * D - D) /\ Value(m) * D <= Value(t) * D
  BY <1>c, <1>mi, Times, ZenonT(60) DEF N, D
<1>8. ASSUME select PROVE WaitInv'
  <2> DEFINE tv(u) == Split(u * Micro)
  <2>1. PICK u \in Timeouts :
          /\ u >= 0
          /\ Block(Sleep("select", u * Micro, IF u > 0 THEN ToMicro(Scaled(tv(u))) ELSE tv(u), Micro))
    BY <1>8, Zenon DEF select
  <2>2. u \in Nat /\ u <= MaxSec /\ Micro \in Nat \ {0} /\ SubSec \in Nat \ {0} /\ MaxSec \in Nat
    BY <1>tm, <2>1
  <2>3. u * Micro \in Nat /\ u * Micro <= hi
    <3>1. Micro <= SubSec
      <4>1. (SubSec \div Micro) * Micro = SubSec
        BY RangeAssumption, Zenon
      <4>2. SubSec \div Micro \in Nat
        BY <2>2
      <4>3. SubSec \div Micro >= 1
        BY <2>2, <4>1, <4>2
      <4>4. 1 * Micro <= (SubSec \div Micro) * Micro
        BY <2>2, <4>2, <4>3, Monotone
      <4> QED  BY <2>2, <4>1, <4>4
    <3>2. u * Micro <= MaxSec * Micro /\ MaxSec * Micro \in Int
      BY <2>2, Monotone
    <3>3. Micro * MaxSec <= SubSec * MaxSec
      BY <2>2, <3>1, Monotone
    <3>4. Micro * MaxSec = MaxSec * Micro /\ SubSec * MaxSec = MaxSec * SubSec /\ MaxSec * SubSec \in Int
          /\ u * Micro \in Nat
      BY <2>2
    <3>5. hi = MaxSec * SubSec + (SubSec - 1)
      BY <2>2 DEF hi, Value, MaxTime
    <3> QED  BY <2>2, <3>2, <3>3, <3>4, <3>5
  <2>4. u * Micro \in Int /\ 0 <= u * Micro /\ Value(MinTime) <= u * Micro
    BY <1>n, <2>3
  <2>5. tv(u) \in Timespec /\ Value(tv(u)) = u * Micro /\ tv(u).sec \in Int /\ tv(u).nsec \in 0..SubSec - 1
    BY <2>3, <2>4, SplitValue, Zenon DEF hi
  <2> HIDE DEF tv
  <2>6. "select" \in WaitCall /\ "real" \in Clock
    BY Zenon DEF WaitCall, Clock
  <2> DEFINE e == N * Micro
             x == (u * Micro) * Rate
  <2>7. e \in Int /\ e <= (N + D) * Micro /\ 0 <= e /\ x \in Int
    <3>1. N * Micro \in Nat /\ D * Micro \in Nat /\ (N + D) * Micro = N * Micro + D * Micro
      BY <1>t, <2>2, Distribute
    <3> QED  BY <1>t, <2>3, <3>1, SMTT(60)
  <2>8. CASE u > 0
    <3> DEFINE h == Scaled(tv(u))
               m == ToMicro(h)
    <3>1. /\ 0 <= Value(h) /\ Value(h) \in Int /\ h \in Timespec /\ Value(h) * N \in Int
          /\ Value(h) * N <= x
          /\ x < Value(h) * N + N \/ Value(h) = hi
          /\ Faking => Value(h) * N <= hi * D
      BY <1>r, <2>4, <2>5, <2>6, Zenon
    <3> HIDE DEF h
    <3>2. /\ m \in Timespec /\ Value(m) \in Int /\ 0 <= Value(m) /\ Value(m) <= Value(h)
          /\ Value(h) <= Value(m) + Micro - 1
          /\ Value(h) * N <= Value(m) * N + (Micro * N - N) /\ Value(m) * N <= Value(h) * N
      BY <1>mi, <3>1, Zenon
    <3> HIDE DEF m
    <3>3. m.sec \in Int /\ m.nsec \in 0..SubSec - 1
      BY <1>v, <3>2, ZenonT(60)
    <3>4. Value(m) * N \in Int /\ Micro * N = e
      BY <1>t, <2>2, <3>2, SMTT(60)
    <3> HIDE DEF x, e
    <3>5. Value(m) * N <= x + e /\ (Faking => Value(m) * N <= hi * D)
      BY <1>n, <2>7, <3>1, <3>2, <3>4
    <3>6. x <= Value(m) * N + e \/ Value(Real("real")) + Value(m) >= hi
      <4>1. CASE x < Value(h) * N + N
        BY <1>t, <2>7, <3>1, <3>2, <3>4, <4>1, SMTT(60)
      <4>2. CASE Value(h) = hi
        <5>1. Micro <= Value(Start["real"])
          BY RangeAssumption, Zenon
        <5> QED  BY <1>n, <2>2, <2>6, <3>1, <3>2, <4>2, <5>1, SMTT(60)
      <4> QED  BY <3>1, <4>1, <4>2, ZenonT(60)
    <3>7. Block(Sleep("select", u * Micro, m, Micro))
      BY <2>1, <2>8, Zenon DEF m, h
    <3> QED  BY <1>s, <2>2, <2>4, <2>6, <2>7, <3>2, <3>3, <3>5, <3>6, <3>7, ZenonT(60) DEF x
  <2>9. CASE ~(u > 0)
    <3>1. u = 0 /\ u * Micro = 0 /\ Value(tv(u)) = 0 /\ Value(tv(u)) * N = 0 /\ (u * Micro) * Rate = 0
      BY <1>t, <2>2, <2>5, <2>9
    <3>2. Block(Sleep("select", u * Micro, tv(u), Micro))
      BY <2>1, <2>9, Zenon
    <3>3. /\ 0 <= Value(tv(u)) /\ Value(tv(u)) \in Int /\ Value(tv(u)) * N <= (u * Micro) * Rate + e
          /\ (u * Micro) * Rate <= Value(tv(u)) * N + e
      BY <2>7, <3>1
    <3>4. Value(tv(u)) * N <= hi * D
      <4>1. 0 <= hi * D
        BY <1>t, <1>n
      <4> QED  BY <3>1, <4>1
    <3> HIDE DEF e
    <3> QED  BY <1>s, <2>2, <2>4, <2>5, <2>6, <2>7, <3>2, <3>3, <3>4, ZenonT(60)
  <2> QED  BY <2>8, <2>9, Zenon
<1>dl. ASSUME NEW c \in Clock, NEW t \in Deadline(c)
       PROVE  /\ t \in Timespec /\ Value(t) \in Int /\ Due(c, t) \in Int
              /\ ~Faked(c) => End(t, c) = Due(c, t)
  BY <1>c, Deadlines, Zenon DEF End, Due
<1>ab. ASSUME NEW call \in WaitCall \ Resumed, NEW c \in Clock, NEW t \in Deadline(c), NEW u \in Timespec,
              \/ Exempt(Begun(call, c, u, Due(c, t), 1, u = MaxTime, 0))
              \/ End(u, c) = Due(c, t)
              \/ Faked(c) /\ u = timespecadd(Start[c], ToReal(timespecsub(t, Base))),
              Block(Wait(call, c, u, Due(c, t), 1))
       PROVE  WaitInv'
  <2>1. 1 \in Nat \ {0} /\ N \in Int /\ N <= (N + D) * 1
    BY <1>t
  <2>2. End(u, c) = Due(c, t) => End(u, c) <= Due(c, t) + N /\ Due(c, t) <= End(u, c) + N
    BY <1>t, <1>dl
  <2>3. Faked(c) /\ u = timespecadd(Start[c], ToReal(timespecsub(t, Base)))
          => End(u, c) <= Due(c, t) + N /\ (Due(c, t) <= End(u, c) + N \/ u = MaxTime)
    BY <1>c, DeadlineMoved, Zenon DEF N
  <2>4. \/ Exempt(Begun(call, c, u, Due(c, t), 1, u = MaxTime, 0))
        \/ End(u, c) <= Due(c, t) + N /\ (Due(c, t) <= End(u, c) + N \/ u = MaxTime)
    BY <1>ab, <2>2, <2>3, Zenon
  <2>5. Due(c, t) \in Int /\ call \in WaitCall /\ call \notin Resumed
    BY <1>dl, Zenon
  <2> QED  BY <1>ab, <1>w, <2>1, <2>4, <2>5, ZenonT(60)
<1>ns. ASSUME NEW call \in {"clock_nanosleep", "syscall"}, NanosleepOn(call) PROVE WaitInv'
  <2>1. PICK c \in Clock :
          \/ \E v \in Lengths :
               Block(Wait(call, c, timespecadd(Real(c), SleepFor(c, Split(v))),
                          IF c = "cpu" THEN DueInReal(v) ELSE DueIn(v), 1))
          \/ \E req \in Deadline(c) :
               Block(Wait(IF call = "syscall" THEN "syscall_abs" ELSE "clock_nanosleep_abs",
                          c, SleepUntil(c, req), Due(c, req), 1))
    BY <1>ns, Zenon DEF NanosleepOn
  <2>2. call \in WaitCall /\ call # "select"
    BY DEF WaitCall
  <2>3. ASSUME NEW v \in Lengths,
               Block(Wait(call, c, timespecadd(Real(c), SleepFor(c, Split(v))),
                          IF c = "cpu" THEN DueInReal(v) ELSE DueIn(v), 1))
        PROVE  WaitInv'
    <3> DEFINE h == SleepFor(c, Split(v))
    <3>0. v \in Int /\ 0 <= v /\ Split(v) \in Timespec /\ Value(Split(v)) = v /\ 1 \in Nat \ {0} /\ 0 <= Value(Split(v))
          /\ Split(v).sec \in Int /\ Split(v).nsec \in 0..SubSec - 1
      <4>1. 1 \in Nat \ {0}
        OBVIOUS
      <4> QED  BY <1>len, <4>1, Zenon
    <3>1. CASE c = "cpu"
      <4>1. h = Split(v)
        BY <3>1, ZenonT(60) DEF SleepFor
      <4>2. DueInReal(v) = now * N + v * N
        BY <1>t, <1>n, <3>0, Distribute DEF DueInReal, N
      <4>3. v * N \in Int /\ N \in Int /\ N <= (N + D) * 1 /\ v * N <= v * N + N
        BY <1>t, <3>0
      <4>4. Block(Wait(call, c, timespecadd(Real(c), Split(v)), now * N + v * N, 1))
        BY <2>3, <3>1, <4>1, <4>2, Zenon
      <4> QED  BY <1>l, <2>2, <3>0, <3>1, <4>3, <4>4, Zenon
    <3>2. CASE c # "cpu"
      <4>1. h = Scaled(Split(v)) /\ DueIn(v) = now * N + Value(Split(v)) * Rate
        BY <3>0, <3>2, Zenon DEF SleepFor, DueIn, Rate, N
      <4> DEFINE g == Scaled(Split(v))
                 x == Value(Split(v)) * Rate
      <4>2. /\ g.sec \in Int /\ g.nsec \in 0..SubSec - 1 /\ 0 <= Value(g) /\ Value(g) \in Int
            /\ x \in Int /\ N \in Int /\ N <= (N + D) * 1 /\ Value(g) * N <= x + N
            /\ x <= Value(g) * N + N \/ Value(Real(c)) + Value(g) >= hi
            /\ Faking => Value(g) * N <= hi * D
        BY <1>r, <3>0, Zenon
      <4>3. Block(Wait(call, c, timespecadd(Real(c), g), now * N + x, 1))
        BY <2>3, <3>2, <4>1, Zenon
      <4> HIDE DEF g, x
      <4> QED  BY <1>l, <2>2, <3>0, <4>2, <4>3, Zenon
    <3> QED  BY <3>1, <3>2, Zenon
  <2>4. ASSUME NEW req \in Deadline(c),
               Block(Wait(IF call = "syscall" THEN "syscall_abs" ELSE "clock_nanosleep_abs",
                          c, SleepUntil(c, req), Due(c, req), 1))
        PROVE  WaitInv'
    <3> DEFINE ca == IF call = "syscall" THEN "syscall_abs" ELSE "clock_nanosleep_abs"
               u == SleepUntil(c, req)
    <3>1. ca \in WaitCall \ Resumed /\ ca \in {"clock_nanosleep_abs", "syscall_abs"}
      BY DEF WaitCall
    <3> HIDE DEF ca
    <3>2. u \in Timespec
      <4>1. timespecsub(req, Base) \in Timespec
        BY <1>dl, WaitAssumption, SubClamped, Zenon
      <4>2. timespecadd(Start[c], ToReal(timespecsub(req, Base))) \in Timespec
        BY <1>n, <1>ty, <4>1, AddClamped, Zenon
      <4> QED  BY <1>dl, <4>2, Zenon DEF SleepUntil
    <3>3. CASE conf.dont_fake
      <4>1. Exempt(Begun(ca, c, u, Due(c, req), 1, u = MaxTime, 0))
        BY <3>1, <3>3, ZenonT(60) DEF Exempt
      <4> QED  BY <1>ab, <2>4, <3>1, <3>2, <4>1, ZenonT(60) DEF ca
    <3>4. CASE ~conf.dont_fake
      <4>1. Faked(c) <=> c = "real" \/ (c = "mono" /\ conf.fake_monotonic)
        BY <3>4, Zenon DEF Faked
      <4>2. End(u, c) = Due(c, req) \/ (Faked(c) /\ u = timespecadd(Start[c], ToReal(timespecsub(req, Base))))
        BY <1>dl, <4>1, Zenon DEF SleepUntil
      <4> QED  BY <1>ab, <2>4, <3>1, <3>2, <4>2, Zenon DEF ca
    <3> QED  BY <3>3, <3>4, Zenon
  <2> QED  BY <2>1, <2>3, <2>4, Zenon
<1>9. ASSUME clock_nanosleep \/ syscall_clock_nanosleep PROVE WaitInv'
  BY <1>9, <1>ns, Zenon DEF clock_nanosleep, syscall_clock_nanosleep
<1>10. ASSUME sem_timedwait PROVE WaitInv'
  <2> DEFINE tdiff(a) == timespecsub(a, Base)
             until(a) == IF conf.dont_fake THEN a ELSE timespecadd(Start["real"], ToFake(tdiff(a)))
  <2>1. PICK a \in Deadline("real") : Block(Wait("sem_timedwait", "real", until(a), Due("real", a), 1))
    BY <1>10, Zenon DEF sem_timedwait
  <2>2. "sem_timedwait" \in WaitCall \ Resumed /\ "real" \in Clock
    BY DEF WaitCall, Clock
  <2>3. until(a) \in Timespec
    <3>1. tdiff(a) \in Timespec /\ a \in Timespec
      BY <1>dl, <2>2, WaitAssumption, SubClamped, Zenon
    <3>2. timespecadd(Start["real"], ToFake(tdiff(a))) \in Timespec
      BY <1>n, <1>ty, <2>2, <3>1, AddClamped, Zenon
    <3> QED  BY <3>1, <3>2, Zenon
  <2>4. CASE Faking
    <3> DEFINE u == until(a)
    <3> HIDE DEF u
    <3>1. Exempt(Begun("sem_timedwait", "real", u, Due("real", a), 1, u = MaxTime, 0))
      BY <2>4 DEF Exempt
    <3> QED  BY <1>ab, <2>1, <2>2, <2>3, <3>1, ZenonT(60) DEF u
  <2>5. CASE ~Faking
    <3>1. \/ ~Faked("real") /\ until(a) = a
          \/ Faked("real") /\ until(a) = timespecadd(Start["real"], ToReal(timespecsub(a, Base)))
      BY <2>5, Zenon DEF Faked, Faking, ToReal, ToFake
    <3>2. \/ End(until(a), "real") = Due("real", a)
          \/ Faked("real") /\ until(a) = timespecadd(Start["real"], ToReal(timespecsub(a, Base)))
      BY <1>dl, <2>2, <3>1, Zenon
    <3> HIDE DEF until
    <3> QED  BY <1>ab, <2>1, <2>2, <2>3, <3>2, Zenon
  <2> QED  BY <2>4, <2>5, Zenon
<1>fc. ASSUME NEW c \in Clock, NEW t \in Timespec PROVE fake_clock_gettime(c, t) \in Timespec
  <2>1. timespecsub(t, Start[c]) \in Timespec
    BY <1>n, SubClamped, Zenon
  <2>2. timespecadd(Base, ToFake(timespecsub(t, Start[c]))) \in Timespec
    BY <1>ty, <2>1, WaitAssumption, AddClamped, Zenon
  <2> QED  BY <2>2, Zenon DEF fake_clock_gettime
<1>11. ASSUME sem_clockwait PROVE WaitInv'
  <2> DEFINE from(c) == IF c = "mono" THEN fake_clock_gettime(c, Real(c)) ELSE Base
             P(c) == (c = "mono" /\ ~conf.fake_monotonic) \/ c = "cpu" \/ conf.dont_fake
             until(c, a) == IF P(c) THEN a ELSE timespecadd(Start[c], ToReal(timespecsub(a, from(c))))
  <2>0. PICK c \in Clock : \E a \in Deadline(c) : Block(Wait("sem_clockwait", c, until(c, a), Due(c, a), 1))
    BY <1>11, Zenon DEF sem_clockwait
  <2>1. PICK a \in Deadline(c) : Block(Wait("sem_clockwait", c, until(c, a), Due(c, a), 1))
    BY <2>0, Zenon
  <2>2. "sem_clockwait" \in WaitCall \ Resumed
    BY DEF WaitCall
  <2>3. until(c, a) \in Timespec
    <3>1. from(c) \in Timespec /\ a \in Timespec
      BY <1>dl, <1>fc, <1>n, WaitAssumption, Zenon
    <3>2. timespecadd(Start[c], ToReal(timespecsub(a, from(c)))) \in Timespec
      BY <1>n, <1>ty, <3>1, AddClamped, SubClamped, Zenon
    <3> QED  BY <3>1, <3>2, Zenon
  <2>4. CASE P(c)
    <3>1. until(c, a) = a /\ ~Faked(c)
      BY <2>4, Zenon DEF Faked
    <3>2. End(until(c, a), c) = Due(c, a)
      BY <1>dl, <3>1, Zenon
    <3> HIDE DEF until
    <3> QED  BY <1>ab, <2>1, <2>2, <2>3, <3>2, Zenon
  <2>5. CASE ~P(c) /\ c = "mono"
    <3> DEFINE u == until(c, a)
    <3> HIDE DEF u
    <3>1. Faked("mono")
      BY <2>5, ZenonT(60) DEF Faked
    <3>2. Exempt(Begun("sem_clockwait", c, u, Due(c, a), 1, u = MaxTime, 0))
      BY <2>5, <3>1 DEF Exempt
    <3> QED  BY <1>ab, <2>1, <2>2, <2>3, <3>2, Zenon DEF u
  <2>6. CASE ~P(c) /\ c # "mono"
    <3>1. Faked(c) /\ until(c, a) = timespecadd(Start[c], ToReal(timespecsub(a, Base)))
      BY <2>6, Zenon DEF Faked, Clock
    <3> HIDE DEF until
    <3> QED  BY <1>ab, <2>1, <2>2, <2>3, <3>1, Zenon
  <2> QED  BY <2>4, <2>5, <2>6, Zenon
<1>12. ASSUME CondRead PROVE WaitInv'
  <2> DEFINE fake(c) == IF c = "mono" /\ ~conf.fake_monotonic THEN Real(c) ELSE fake_clock_gettime(c, Real(c))
             w(c, a) == [call |-> "cond_read", clk |-> c, abstime |-> a, realtime |-> Real(c), faketime |-> fake(c)]
  <2>0. PICK c \in Kind : \E a \in Deadline(c) : Block(w(c, a))
    BY <1>12, Zenon DEF CondRead, Kind
  <2>1. PICK a \in Deadline(c) : Block(w(c, a))
    BY <2>0, Zenon
  <2>2. c \in Clock
    BY DEF Kind, Clock
  <2>3. Real(c) \in Timespec /\ fake(c) \in Timespec /\ a \in Timespec
    BY <1>dl, <1>fc, <1>n, <2>2, ZenonT(60)
  <2>4. now \in 0..now /\ Value(Real(c)) = Value(Start[c]) + now
    BY <1>n, <2>2
  <2> DEFINE f == fake(c)
             r == Real(c)
  <2>5. f = IF c = "mono" /\ ~conf.fake_monotonic THEN r ELSE fake_clock_gettime(c, r)
    BY Zenon
  <2> DEFINE v == w(c, a)
  <2>6. v = [call |-> "cond_read", clk |-> c, abstime |-> a, realtime |-> r, faketime |-> f]
    BY ZenonT(60)
  <2> HIDE DEF v, f, r
  <2>7. v \in ReadSlot
    BY <2>3, <2>6 DEF ReadSlot, f, r
  <2>8. v.clk = c /\ v.abstime = a /\ v.realtime = r /\ v.faketime = f
    BY <2>6
  <2>9. ReadGood(v)
    BY <2>1, <2>4, <2>5, <2>8, ZenonT(60) DEF ReadGood, r
  <2> QED  BY Entering, <2>1, <2>7, <2>9, Zenon DEF Block, v
<1>b. /\ Value(Base) \in Nat /\ Base \in Timespec /\ Value(Base) <= hi
      /\ Value(Base) * D + MaxNow * N <= hi * D /\ Value(Base) * D \in Nat /\ MaxNow * N \in Nat
  BY <1>c, Settings, Zenon DEF N, D, hi
<1>fk. ASSUME NEW c \in Clock, Faked(c), NEW n \in 0..now,
              NEW t \in Timespec, Value(t) = Value(Start[c]) + n
       PROVE  \E k \in Nat : FakeRead(fake_clock_gettime(c, t), n, k)
  BY <1>c, <1>fk, Reading, Zenon
<1>nn. ASSUME NEW t \in Timespec
       PROVE  NotNegative(t) \in Timespec /\ (0 <= Value(t) => NotNegative(t) = t)
  <2>1. /\ t = [sec |-> t.sec, nsec |-> t.nsec] /\ t.sec \in MinSec..MaxSec /\ t.nsec \in 0..SubSec - 1
    BY DEF Timespec
  <2>2. t.sec \in Int /\ (0 <= Value(t) => 0 <= t.sec) /\ MaxSec \in Nat /\ SubSec \in Nat
    BY <1>v, TimeAssumption, Zenon
  <2>3. ~(t.nsec < 0) /\ 0 \in MinSec..MaxSec
    BY <2>1, <2>2 DEF MinSec
  <2>4. NotNegative(t) = [sec |-> IF t.sec < 0 THEN 0 ELSE t.sec, nsec |-> t.nsec]
    BY <2>3, ZenonT(60) DEF NotNegative
  <2>5. CASE t.sec < 0
    <3>1. ~(0 <= Value(t)) /\ NotNegative(t) = [sec |-> 0, nsec |-> t.nsec]
      BY <2>2, <2>4, <2>5
    <3> QED  BY <2>1, <2>3, <3>1 DEF Timespec
  <2>6. CASE ~(t.sec < 0)
    <3>1. NotNegative(t) = t
      BY <2>1, <2>4, <2>6
    <3> QED  BY <3>1
  <2> QED  BY <2>5, <2>6, Zenon
<1>13. ASSUME futex PROVE WaitInv'
  <2> DEFINE diff(c) == timespecsub(fake_clock_gettime(c, Real(c)), Real(c))
             until(c, t) == NotNegative(timespecsub(t, diff(c)))
  <2>1. \/ \E c \in Kind : \E t \in Deadline(c) :
             \/ Block(Wait("futex_bitset", c, until(c, t), Due(c, t), 1))
             \/ Block(Wait("futex_other", c, t, Due(c, t), 1))
        \/ \E v \in Lengths : Block(Sleep("futex_wait", v, NotNegative(Scaled(Split(v))), 1))
    BY <1>13, Zenon DEF futex, Kind
  <2>2. {"futex_bitset", "futex_other", "futex_wait"} \subseteq WaitCall \ Resumed
    BY DEF WaitCall
  <2>3. ASSUME NEW v \in Lengths, Block(Sleep("futex_wait", v, NotNegative(Scaled(Split(v))), 1))
        PROVE  WaitInv'
    <3>1. Split(v) \in Timespec /\ Value(Split(v)) = v /\ 0 <= Value(Split(v)) /\ "real" \in Clock
      BY <1>len, Zenon DEF Clock
    <3>2. Scaled(Split(v)) \in Timespec /\ 0 <= Value(Scaled(Split(v)))
      BY <1>r, <3>1, Zenon
    <3>3. NotNegative(Scaled(Split(v))) = Scaled(Split(v))
      BY <1>nn, <3>2, Zenon
    <3>4. Block(Sleep("futex_wait", Value(Split(v)), Scaled(Split(v)), 1))
      BY <2>3, <3>1, <3>3, Zenon
    <3>5. "futex_wait" \in WaitCall \ {"select"}
      BY <2>2
    <3> QED  BY <1>sc, <3>1, <3>4, <3>5, Zenon
  <2>4. ASSUME NEW c \in Kind, NEW t \in Deadline(c), Block(Wait("futex_other", c, t, Due(c, t), 1))
        PROVE  WaitInv'
    <3>1. c \in Clock
      BY DEF Kind, Clock
    <3>2. t \in Timespec
      BY <1>dl, <3>1, ZenonT(60)
    <3>3. Exempt(Begun("futex_other", c, t, Due(c, t), 1, t = MaxTime, 0))
      BY DEF Exempt
    <3>4. "futex_other" \in WaitCall \ Resumed
      BY <2>2
    <3> QED  BY <1>ab, <2>4, <3>1, <3>2, <3>3, <3>4, Zenon
  <2>5. ASSUME NEW c \in Kind, NEW t \in Deadline(c), Block(Wait("futex_bitset", c, until(c, t), Due(c, t), 1))
        PROVE  WaitInv'
    <3>1. c \in Clock
      BY DEF Kind, Clock
    <3>2. "futex_bitset" \in WaitCall \ Resumed
      BY <2>2
    <3> DEFINE S == Value(Start[c])
               B == Value(Base)
               F == fake_clock_gettime(c, Real(c))
               r == timespecsub(t, diff(c))
               u == until(c, t)
    <3>3. /\ t \in Timespec /\ Value(t) \in Int /\ Due(c, t) \in Int /\ 0 <= Value(t) /\ Value(t) <= hi
          /\ Faked(c) => 0 <= S + (Value(t) - B)
      BY <1>c, <3>1, Deadlines, Zenon DEF hi
    <3>4. /\ F \in Timespec /\ Real(c) \in Timespec /\ Value(Real(c)) = S + now /\ S \in Nat /\ S + MaxNow < hi
          /\ Value(F) \in Int
      BY <1>fc, <1>n, <1>v, <3>1, Zenon
    <3>5. diff(c) \in Timespec /\ Value(diff(c)) = Clamped(Value(F) - Value(Real(c)))
      BY <3>4, SubClamped, Zenon
    <3>6. r \in Timespec /\ Value(r) = Clamped(Value(t) - Value(diff(c)))
      BY <3>3, <3>5, SubClamped, Zenon
    <3>7. u \in Timespec /\ (0 <= Value(r) => u = r) /\ Value(r) \in Int
      BY <1>nn, <1>v, <3>6, Zenon
    <3>8. Block(Wait("futex_bitset", c, u, Due(c, t), 1))
      BY <2>5, Zenon
    <3> HIDE DEF u, r, F, S, B, diff
    <3>n. hi \in Int /\ Value(MinTime) = -hi - 1 /\ now \in Nat /\ now <= MaxNow /\ MaxNow \in Nat
      BY <1>n, Zenon
    <3>9. CASE Faking \/ (c = "mono" /\ ~conf.fake_monotonic)
      <4>1. Exempt(Begun("futex_bitset", c, u, Due(c, t), 1, u = MaxTime, 0))
        BY <3>9, ZenonT(60) DEF Exempt
      <4> QED  BY <1>ab, <3>1, <3>2, <3>7, <3>8, <4>1, ZenonT(60)
    <3>10. CASE conf.dont_fake
      <4>1. F = Real(c)
        BY <3>10, ZenonT(60) DEF fake_clock_gettime, F
      <4>2. Value(diff(c)) = 0
        BY <3>n, <3>4, <3>5, <4>1, SMTT(60) DEF Clamped, hi
      <4>3. Value(r) = Value(t)
        BY <3>n, <3>3, <3>6, <4>2, SMTT(60) DEF Clamped, hi
      <4>4. u = r /\ ~Faked(c)
        BY <3>3, <3>7, <3>10, <4>3, Zenon DEF Faked
      <4>5. End(u, c) = Due(c, t)
        BY <4>3, <4>4, Zenon DEF End, Due
      <4> QED  BY <1>ab, <3>1, <3>2, <3>7, <3>8, <4>5, Zenon
    <3>11. CASE ~conf.dont_fake /\ ~conf.set /\ ~(c = "mono" /\ ~conf.fake_monotonic)
      <4>1. Faked(c) /\ N = D
        BY <1>t, <3>11, ZenonT(60) DEF Faked, Kind
      <4>2. now \in 0..now
        BY <1>n
      <4>3. Value(F) = B + now /\ B + now <= hi /\ B \in Nat
        <5>1. PICK k \in Nat : FakeRead(F, now, k)
          BY <1>fk, <3>1, <3>4, <4>1, <4>2, ZenonT(60) DEF F, S
        <5> QED  BY <1>b, <3>11, <5>1, Zenon DEF B, FakeRead, hi
      <4>4. Value(diff(c)) = B - S
        BY <3>n, <3>4, <3>5, <4>3, SMTT(60) DEF Clamped, hi
      <4>5. Value(r) = IF Value(t) - B + S > hi THEN hi ELSE Value(t) - B + S
        BY <3>n, <3>3, <3>4, <3>6, <4>1, <4>3, <4>4, SMTT(60) DEF Clamped, hi
      <4>6. 0 <= Value(r) /\ Value(r) - S \in Int /\ Value(t) - B \in Int /\ Value(r) - S <= Value(t) - B
            /\ (Value(r) = hi \/ Value(r) - S = Value(t) - B)
        BY <3>n, <3>3, <3>4, <4>1, <4>3, <4>5, SMTT(60)
      <4>7. u = r /\ (Value(r) = hi => u = MaxTime)
        BY <1>v, <3>6, <3>7, <4>6, Zenon
      <4>8. Due(c, t) = (Value(t) - B) * N /\ End(u, c) = (Value(r) - S) * N
        BY <4>1, <4>7, ZenonT(60) DEF Due, End, B, S, N, D
      <4>9. (Value(r) - S) * N <= (Value(t) - B) * N
        BY <1>t, <4>6, Monotone, SMTT(60)
      <4>10. (Value(r) - S) * N \in Int /\ (Value(t) - B) * N \in Int
        BY <1>t, <4>6
      <4>11. End(u, c) <= Due(c, t) + N /\ (Due(c, t) <= End(u, c) + N \/ u = MaxTime)
        <5>1. CASE Value(r) = hi
          BY <1>t, <4>7, <4>8, <4>9, <4>10, <5>1, SMTT(60)
        <5>2. CASE Value(r) - S = Value(t) - B
          BY <1>t, <4>8, <4>10, <5>2, SMTT(60)
        <5> QED  BY <4>6, <5>1, <5>2, ZenonT(60)
      <4>12. 1 \in Nat \ {0} /\ N \in Int /\ N <= (N + D) * 1
        BY <1>t
      <4>13. "futex_bitset" \in WaitCall /\ "futex_bitset" \notin Resumed
        BY <3>2, Zenon
      <4> QED  BY <1>w, <3>1, <3>3, <3>7, <3>8, <4>11, <4>12, <4>13, ZenonT(60)
    <3> QED  BY <3>9, <3>10, <3>11, Zenon DEF Faking
  <2> QED  BY <2>1, <2>3, <2>4, <2>5, Zenon
<1> QED
  BY <1>1, <1>2, <1>3, <1>4, <1>5, <1>6, <1>7, <1>8, <1>9, <1>10, <1>11, <1>12, <1>13, ZenonT(60)
=============================================================================

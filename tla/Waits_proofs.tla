---------------------------- MODULE Waits_proofs ----------------------------
(***************************************************************************)
(* Proofs about the blocking calls: the rest of the steps keep WaitInv     *)
(* too, those of pthread_cond_timedwait, of the timers and of a call that  *)
(* is interrupted, and WaitInv gives the three properties.                 *)
(***************************************************************************)
EXTENDS WaitCalls_proofs

\* Every step keeps what WaitInv says, whatever the rate and the width of
\* time_t.
LEMMA WaitStep ==
  ASSUME WaitInv, WaitNext \/ UNCHANGED vars
  PROVE  WaitInv'
<1> USE DEF Begun, Resumed
<1> DEFINE N == conf.num
           D == conf.den
           hi == Value(MaxTime)
<1>c. conf \in Conf /\ now \in 0..MaxNow
  BY Zenon DEF WaitInv
<1>t. /\ N \in Nat \ {0} /\ D \in Nat \ {0} /\ N \in Int /\ D \in Int /\ N > 0 /\ D > 0
      /\ conf.set \in BOOLEAN /\ conf.fake_monotonic \in BOOLEAN /\ conf.dont_fake \in BOOLEAN
      /\ ~conf.set => N = D
      /\ Rate \in Nat \ {0} /\ Rate \in {N, D} /\ (~conf.dont_fake => Rate = D)
      /\ (conf.dont_fake => Rate = N)
  BY <1>c, Settings, Zenon DEF Rate
<1>n. /\ now \in Nat /\ now <= MaxNow /\ MaxNow \in Nat /\ now * N \in Int
      /\ hi \in Int /\ Value(MinTime) = -hi - 1 /\ Value(MinTime) \in Int /\ MaxTime \in Timespec
      /\ hi * D \in Int /\ hi * N \in Int /\ 0 <= hi
      /\ \A c \in Clock : /\ Value(Start[c]) \in Nat /\ Value(Start[c]) + MaxNow < hi
                          /\ Real(c) \in Timespec /\ Value(Real(c)) = Value(Start[c]) + now
                          /\ Start[c] \in Timespec
  BY <1>c, Settings, Zenon
<1> HIDE DEF N, D, hi
<1>v. ASSUME NEW t \in Timespec PROVE /\ Value(t) \in Int /\ t.sec \in Int /\ t.nsec \in 0..SubSec - 1
                                      /\ Value(t) <= hi /\ Value(MinTime) <= Value(t)
                                      /\ (0 <= Value(t) => 0 <= t.sec) /\ (Value(t) = hi => t = MaxTime)
  BY <1>c, Times, Zenon DEF hi
<1>r. ASSUME NEW t \in Timespec, 0 <= Value(t), NEW c \in Clock
      PROVE  LET h == Scaled(t)
                 x == Value(t) * Rate
             IN  /\ h.sec \in Int /\ h.nsec \in 0..SubSec - 1 /\ 0 <= Value(h) /\ Value(h) \in Int
                 /\ h \in Timespec /\ x \in Int /\ Value(h) * N \in Int
                 /\ N \in Int /\ N <= (N + D) * 1 /\ Value(h) * N <= x /\ Value(h) * N <= x + N
                 /\ x <= Value(h) * N + N \/ Value(Real(c)) + Value(h) >= hi
                 /\ x < Value(h) * N + N \/ Value(h) = hi
                 /\ Faking => Value(h) * N <= hi * D
  <2>1. N \in Int /\ N <= (N + D) * 1
    BY <1>t
  <2> QED  BY <1>c, <1>r, <2>1, Times, ZenonT(60) DEF N, D, hi
<1>len. ASSUME NEW v \in Lengths
        PROVE  v \in Int /\ 0 <= v /\ v <= hi /\ Split(v) \in Timespec /\ Value(Split(v)) = v
               /\ Split(v).sec \in Int /\ Split(v).nsec \in 0..SubSec - 1
  <2>1. v \in 0..hi
    BY RangeAssumption, Zenon DEF hi
  <2>2. v \in Int /\ 0 <= v /\ v <= hi /\ Value(MinTime) <= v
    BY <1>n, <2>1
  <2> QED  BY <2>2, SplitValue, Zenon DEF hi
<1>ty. ASSUME NEW t \in Timespec
       PROVE  ToReal(t) \in Timespec /\ ToFake(t) \in Timespec /\ Scaled(t) \in Timespec
  BY <1>c, Times, Zenon
<1>mi. ASSUME NEW t \in Timespec, 0 <= Value(t)
       PROVE  LET m == ToMicro(t)
              IN  /\ m \in Timespec /\ Value(m) \in Int /\ 0 <= Value(m) /\ Value(m) <= Value(t)
                  /\ Value(t) <= Value(m) + Micro - 1 /\ Micro \in Nat \ {0}
                  /\ Value(t) * N <= Value(m) * N + (Micro * N - N) /\ Value(m) * N <= Value(t) * N
                  /\ Value(t) * D <= Value(m) * D + (Micro * D - D) /\ Value(m) * D <= Value(t) * D
  BY <1>c, <1>mi, Times, ZenonT(60) DEF N, D
<1>dl. ASSUME NEW c \in Clock, NEW t \in Deadline(c)
       PROVE  /\ t \in Timespec /\ Value(t) \in Int /\ Due(c, t) \in Int
              /\ ~Faked(c) => End(t, c) = Due(c, t)
  BY <1>c, Deadlines, Zenon DEF End, Due
<1>b. /\ Value(Base) \in Nat /\ Base \in Timespec /\ Value(Base) <= hi
      /\ Value(Base) * D + MaxNow * N <= hi * D /\ Value(Base) * D \in Nat /\ MaxNow * N \in Nat
  BY <1>c, Settings, Zenon DEF N, D, hi
<1>fk. ASSUME NEW c \in Clock, Faked(c), NEW n \in 0..now,
              NEW t \in Timespec, Value(t) = Value(Start[c]) + n
       PROVE  \E k \in Nat : FakeRead(fake_clock_gettime(c, t), n, k)
  BY <1>c, <1>fk, Reading, Zenon
<1>sl. /\ slot # Idle /\ slot.call = "cond_read" => slot \in ReadSlot /\ ReadGood(slot)
       /\ IsWait(slot) => slot \in WaitSlot /\ WaitGood(slot)
       /\ IsTimer(slot) => slot \in TimerSlot /\ TimerGood(slot)
  <2>1. /\ slot \in WaitSlot => slot.call \in WaitCall
        /\ slot \in TimerSlot => slot.call \in {"timer", "timerfd"}
        /\ slot \in ReadSlot => slot.call = "cond_read"
    BY DEF WaitSlot, TimerSlot, ReadSlot
  <2>2. "cond_read" \notin WaitCall \cup {"timer", "timerfd"} /\ WaitCall \cap {"timer", "timerfd"} = {}
    BY DEF WaitCall
  <2>3. \/ slot = Idle
        \/ slot \in WaitSlot /\ WaitGood(slot)
        \/ slot \in TimerSlot /\ TimerGood(slot)
        \/ slot \in ReadSlot /\ ReadGood(slot)
    BY Zenon DEF WaitInv
  <2>4. IsWait(slot) => slot # Idle /\ slot.call # "cond_read" /\ slot.call \notin {"timer", "timerfd"}
    BY Zenon DEF IsWait, IsTimer
  <2>5. IsTimer(slot) => slot # Idle /\ slot.call \in {"timer", "timerfd"}
    BY Zenon DEF IsTimer
  <2> QED  BY <2>1, <2>2, <2>3, <2>4, <2>5, ZenonT(60)
<1>14. ASSUME pthread_cond_timedwait PROVE WaitInv'
  <2> DEFINE c == slot.clk
             a == slot.abstime
             R == slot.realtime
             F == slot.faketime
             S == Value(Start[c])
             w == conf.wait_ms
             unfaked == c = "mono" /\ ~conf.fake_monotonic
             h == IF w # Unset THEN Split(w * Milli) ELSE ToReal(timespecsub(a, F))
             from == IF unfaked \/ w # Unset THEN Real(c) ELSE R
             u == timespecadd(from, h)
             due == IF w # Unset THEN DueInReal(w * Milli) ELSE Due(c, a)
             lag == IF unfaked THEN now - (Value(R) - S) ELSE 0
             sat == u = MaxTime
  <2>1. slot \in ReadSlot /\ ReadGood(slot) /\ UNCHANGED <<conf, now>>
    BY <1>14, <1>sl, Zenon DEF pthread_cond_timedwait
  <2>2. c \in Kind /\ c \in Clock /\ a \in Timespec /\ R \in Timespec /\ F \in Timespec
    BY <2>1 DEF ReadSlot, Kind, Clock
  <2>3. /\ a \in Deadline(c) /\ F = IF unfaked THEN R ELSE fake_clock_gettime(c, R)
        /\ \E n \in 0..now : Value(R) = S + n
    BY <2>1, Zenon DEF ReadGood
  <2>4. PICK n \in 0..now : Value(R) = S + n
    BY <2>3, ZenonT(60)
  <2>5. /\ n \in Nat /\ n <= now /\ n <= MaxNow /\ S \in Nat /\ S + MaxNow < hi
        /\ Real(c) \in Timespec /\ Value(Real(c)) = S + now
    BY <1>n, <2>2
  <2>6. slot' = [Wait("cond", c, u, due, 1) EXCEPT !.lag = lag]
    BY <1>14, Zenon DEF pthread_cond_timedwait
  <2>7. [Wait("cond", c, u, due, 1) EXCEPT !.lag = lag] = Begun("cond", c, u, due, 1, sat, lag)
    BY DEF Wait
  <2>8. /\ Due(c, a) \in Int /\ Value(a) \in Int /\ 0 <= Value(a) /\ Value(a) <= hi
        /\ Faked(c) => 0 <= S * N + (Value(a) - Value(Base)) * D
    BY <1>c, <2>2, <2>3, Deadlines, Zenon DEF N, D, hi
  <2>9. lag \in Nat /\ (lag = 0 \/ (unfaked /\ lag = now - n))
    <3>1. now - (Value(R) - S) = now - n /\ now - n \in Nat /\ 0 \in Nat
      <4> HIDE DEF S, R
      <4> QED  BY <1>n, <2>4, <2>5
    <3> QED  BY <3>1, ZenonT(60)
  <2>10. "cond" \in WaitCall /\ "cond" \notin Resumed /\ 1 \in Nat \ {0} /\ sat \in BOOLEAN
    BY SMTT(60) DEF WaitCall
  <2>11. lag * N \in Nat /\ n * N \in Nat
    BY <1>t, <2>5, <2>9
  <2> HIDE DEF S
  <2>12. ASSUME u \in Timespec, due \in Int, NEW e \in Int, e <= N + D + lag * N,
                \/ Exempt(Begun("cond", c, u, due, 1, sat, lag))
                \/ End(u, c) <= due + e /\ (due <= End(u, c) + e \/ u = MaxTime)
         PROVE  WaitInv'
    <3> DEFINE v == Begun("cond", c, u, due, 1, sat, lag)
    <3>1. e <= (N + D) * 1 + lag * N
      BY <1>t, <2>11, <2>12
    <3>2. Exempt(v) \/ (End(u, c) <= due + e /\ (due <= End(u, c) + e \/ sat))
      BY <2>12, Zenon
    <3> HIDE DEF u, due, lag, sat, c, Begun
    <3>3. v \in WaitSlot /\ WaitGood(v)
      BY Fresh, <1>c, <2>2, <2>9, <2>10, <2>12, <3>1, <3>2, ZenonT(60) DEF N, D, hi
    <3>4. slot' = v
      BY <2>6, <2>7, Zenon
    <3> HIDE DEF v
    <3> QED  BY Entering, <2>1, <3>3, <3>4, ZenonT(60)
  <2>13. CASE w # Unset
    <3>1. w \in Nat /\ Milli \in Nat \ {0}
      BY <1>c, <2>13, Settings, RangeAssumption, Zenon
    <3>2. w * Milli \in Int /\ 0 <= w * Milli
      BY <3>1
    <3> DEFINE g == Split(w * Milli)
               x == (w * Milli) * N
    <3>3. g.sec \in Int /\ g.nsec \in 0..SubSec - 1 /\ Value(g) = w * Milli
      BY <3>2, SplitValue, ZenonT(60)
    <3> HIDE DEF g
    <3>4. x \in Int /\ 0 \in Int /\ 0 <= Value(g) /\ Value(g) * N <= x + 0 /\ x <= Value(g) * N + 0
      BY <1>t, <3>2, <3>3
    <3>5. u = timespecadd(Real(c), g) /\ due = DueInReal(w * Milli)
      BY <2>13, Zenon DEF g
    <3>6. due = now * N + x
      <4>1. (now + w * Milli) * N = now * N + (w * Milli) * N
        BY <1>t, <1>n, <3>2, Distribute, SMTT(60)
      <4> QED  BY <3>5, <4>1, ZenonT(60) DEF DueInReal, N
    <3> DEFINE z == timespecadd(Real(c), g)
    <3>7. /\ z \in Timespec /\ End(z, c) \in Int
          /\ End(z, c) <= now * N + x + 0
          /\ now * N + x <= End(z, c) + 0 \/ z = MaxTime
      BY <1>c, <2>2, <3>3, <3>4, LengthKept, SMTT(60) DEF N
    <3> HIDE DEF z, x
    <3>8. due \in Int /\ u \in Timespec /\ 0 <= N + D + lag * N
      BY <1>n, <1>t, <2>11, <3>4, <3>5, <3>6, <3>7, SMTT(60) DEF z
    <3>9. End(u, c) <= due + 0 /\ (due <= End(u, c) + 0 \/ u = MaxTime)
      BY <3>5, <3>6, <3>7, Zenon DEF z
    <3> QED  BY <2>12, <3>4, <3>8, <3>9, Zenon
  <2>14. CASE w = Unset /\ conf.set /\ ~Faked(c)
    <3>1. Exempt(Begun("cond", c, u, due, 1, sat, lag))
      <4> HIDE DEF u, due, lag, sat, c
      <4> QED  BY <2>14 DEF Exempt
    <3>2. due \in Int
      BY <2>8, <2>14, Zenon
    <3>3. timespecsub(a, F) \in Timespec
      BY <2>2, SubClamped, Zenon
    <3>4. h \in Timespec /\ from \in Timespec
      BY <1>ty, <2>2, <2>5, <2>14, <3>3, Zenon
    <3>5. u \in Timespec
      BY <3>4, AddClamped, ZenonT(60)
    <3>6. 0 \in Int /\ 0 <= N + D + lag * N
      BY <1>t, <2>11
    <3> QED  BY <2>12, <3>1, <3>2, <3>5, <3>6, ZenonT(60)
  <2>15. CASE w = Unset /\ ~conf.set /\ ~Faked(c)
    <3> DEFINE d == timespecsub(a, F)
               m == IF unfaked THEN now ELSE n
    <3>1. F = R
      BY <2>2, <2>3, <2>15, Zenon DEF fake_clock_gettime, Faked, Kind
    <3>2. d \in Timespec /\ Value(d) = Clamped(Value(a) - Value(F))
      BY <2>2, SubClamped, ZenonT(60)
    <3>3. Value(d) = Value(a) - S - n
      BY <1>n, <2>4, <2>5, <2>8, <3>1, <3>2 DEF Clamped, hi
    <3>4. h = d /\ due = Due(c, a) /\ Due(c, a) = (Value(a) - S) * N
      BY <2>15, Zenon DEF ToReal, Due, S, N
    <3>5. from \in Timespec /\ Value(from) = S + m /\ m \in Int /\ m - n = lag
      <4>1. CASE unfaked
        BY <1>n, <2>4, <2>5, <4>1, SMTT(60)
      <4>2. CASE ~unfaked
        <5>1. from = R /\ m = n /\ lag = 0
          BY <2>15, <4>2, Zenon
        <5> QED  BY <2>2, <2>4, <2>5, <5>1
      <4> QED  BY <4>1, <4>2, ZenonT(60)
    <3>6. h.sec \in Int /\ h.nsec \in 0..SubSec - 1 /\ Value(h) = Value(a) - S - n
      BY <1>v, <3>2, <3>3, <3>4, ZenonT(60)
    <3> HIDE DEF d, h, from, m, lag, due, c
    <3>7. Value(MinTime) <= Value(from) + Value(h)
      BY <1>n, <2>5, <2>8, <2>9, <3>5, <3>6, SMTT(60)
    <3>8. /\ u \in Timespec /\ End(u, c) \in Int
          /\ End(u, c) <= m * N + Value(h) * N
          /\ u = MaxTime \/ End(u, c) = m * N + Value(h) * N
      BY <1>c, <2>2, <3>5, <3>6, <3>7, Landing, SMTT(60) DEF N, S
    <3>9. m * N + Value(h) * N = (Value(a) - S) * N + lag * N
      <4>1. /\ m * N + Value(h) * N = (m + Value(h)) * N
            /\ (Value(a) - S) * N + lag * N = (Value(a) - S + lag) * N
        BY <1>t, <2>5, <2>8, <2>9, <3>5, <3>6, Distribute, SMTT(60)
      <4>2. m + Value(h) = Value(a) - S + lag
        BY <2>5, <2>8, <2>9, <3>5, <3>6
      <4> QED  BY <4>1, <4>2, Zenon
    <3> DEFINE e == lag * N
    <3>10. (Value(a) - S) * N \in Int /\ e \in Int /\ e <= N + D + lag * N /\ 0 <= e
      BY <1>t, <2>5, <2>8, <2>11
    <3> HIDE DEF u, e
    <3>11. End(u, c) <= due + e /\ (due <= End(u, c) + e \/ u = MaxTime) /\ due \in Int
      BY <3>4, <3>8, <3>9, <3>10 DEF e
    <3> QED  BY <2>12, <3>8, <3>10, <3>11, Zenon
  <2>16. CASE w = Unset /\ Faked(c)
    <3> DEFINE B == Value(Base)
               d == timespecsub(a, F)
    <3>1. ~unfaked
      BY <2>16, Zenon DEF Faked
    <3>2. F = fake_clock_gettime(c, R) /\ h = ToReal(d) /\ from = R /\ lag = 0 /\ due = Due(c, a)
          /\ Due(c, a) = (Value(a) - B) * D
      BY <2>3, <2>16, <3>1, Zenon DEF Due, D
    <3>3. PICK k \in Nat : /\ Value(F) = B + k /\ k * D <= n * N /\ n * N < k * D + D /\ B + k <= hi
      <4>1. \E k \in Nat : FakeRead(fake_clock_gettime(c, R), n, k)
        <5>1. Value(R) = Value(Start[c]) + n /\ c \in Clock /\ R \in Timespec /\ Faked(c)
          BY <2>2, <2>4, <2>16, Zenon DEF S
        <5> HIDE DEF c, R
        <5> QED  BY <1>fk, <2>4, <5>1, Zenon
      <4> QED  BY <3>2, <4>1, Zenon DEF FakeRead, N, D, hi
    <3>4. d \in Timespec /\ Value(d) = Clamped(Value(a) - Value(F)) /\ B \in Nat
      BY <1>b, <2>2, SubClamped, ZenonT(60)
    <3> HIDE DEF B, d
    <3>5. Value(d) = (Value(a) - B) - k
      BY <1>n, <2>8, <3>3, <3>4, SMTT(60) DEF Clamped, hi
    <3> DEFINE x == Value(d) * D
               y == k * D
    <3>6. /\ (Value(a) - B) * D = x + y /\ x \in Int /\ y \in Nat
      <4>1. ((Value(a) - B) - k) * D = (Value(a) - B) * D - k * D
        BY <1>t, <2>8, <3>3, <3>4, Distribute, SMTT(60)
      <4>2. (Value(a) - B) * D \in Int /\ k * D \in Nat /\ Value(d) * D \in Int
        BY <1>t, <2>8, <3>3, <3>4, <3>5, SMTT(60)
      <4> QED  BY <3>5, <4>1, <4>2, SMTT(60)
    <3>7. Value(MinTime) * N <= x
      <4>1. -(S + n) \in Int /\ Value(MinTime) <= -(S + n) /\ N \in Nat
        BY <1>t, <1>n, <2>5, SMTT(60)
      <4>2. Value(MinTime) * N <= (-(S + n)) * N /\ Value(MinTime) * N \in Int
        BY <1>t, <1>n, <4>1, Monotone, SMTT(60)
      <4>3. (-(S + n)) * N = -(S * N) - n * N /\ S * N \in Int
        BY <1>t, <2>5
      <4>4. 0 <= S * N + (x + y) /\ y <= n * N
        BY <2>8, <2>16, <3>3, <3>6, Zenon DEF B
      <4> HIDE DEF x, y
      <4> QED  BY <2>11, <3>6, <4>2, <4>3, <4>4, SMTT(60)
    <3>8. Rounded(d, h, D, N)
      BY <1>c, <3>2, <3>4, <3>7, Conversions, Zenon DEF N, D
    <3> HIDE DEF h, from
    <3>9. /\ h \in Timespec /\ Value(h) * N < x + N
          /\ x < Value(h) * N + N \/ Value(h) = hi
      BY <3>8, Zenon DEF Rounded, hi
    <3>10. /\ h.sec \in Int /\ h.nsec \in 0..SubSec - 1 /\ Value(h) \in Int
           /\ Value(MinTime) <= Value(h)
      BY <1>v, <3>9, ZenonT(60)
    <3>11. n \in Int /\ Value(MinTime) <= Value(from) + Value(h) /\ from \in Timespec /\ Value(from) = S + n
      BY <1>n, <2>2, <2>4, <2>5, <3>2, <3>10, SMTT(60)
    <3>12. /\ u \in Timespec /\ Value(u) \in Int /\ End(u, c) \in Int
           /\ Value(u) = IF Value(from) + Value(h) > hi THEN hi ELSE Value(from) + Value(h)
           /\ End(u, c) <= n * N + Value(h) * N
           /\ u = MaxTime \/ End(u, c) = n * N + Value(h) * N
           /\ Value(u) = hi => u = MaxTime
      BY <1>c, <2>2, <3>10, <3>11, Landing, SMTT(60) DEF N, S, hi
    <3>13. Value(h) = hi => u = MaxTime
      BY <1>n, <2>5, <3>11, <3>12
    <3> DEFINE e == N + D
    <3>14. e \in Int /\ e <= N + D + lag * N /\ Value(h) * N \in Int
      BY <1>t, <2>11, <3>10
    <3>15. y <= n * N /\ n * N < y + D /\ due = x + y
      BY <3>2, <3>3, <3>6, Zenon
    <3> HIDE DEF u, x, y, due, c, lag
    <3>16. End(u, c) <= due + e /\ (due <= End(u, c) + e \/ u = MaxTime) /\ due \in Int
      BY <1>t, <2>11, <3>6, <3>9, <3>12, <3>13, <3>14, <3>15, SMTT(60)
    <3> HIDE DEF e
    <3> QED  BY <2>12, <3>12, <3>14, <3>16, Zenon
  <2> QED  BY <2>13, <2>14, <2>15, <2>16, Zenon
<1>sk. ASSUME NEW s \in WaitSlot \cup TimerSlot
       PROVE  /\ Slack(s) \in Int /\ 0 <= Slack(s) /\ (s.until # Never => s.until \in Timespec)
              /\ s.due # Never => s.due \in Int
              /\ s.resumes \in Nat /\ s.unit \in Nat /\ s.lag \in Nat
  <2>1. s.unit \in Nat /\ s.resumes \in Nat /\ s.lag \in Nat
    BY DEF WaitSlot, TimerSlot
  <2> DEFINE a == (N + D) * s.unit * (1 + s.resumes)
             b == s.lag * N
             d == N * s.unit * s.resumes
  <2>2. a \in Nat
    <3>1. (N + D) * s.unit \in Nat
      BY <1>t, <2>1
    <3> QED  BY <2>1, <3>1
  <2>3. b \in Nat
    BY <1>t, <2>1
  <2>4. d \in Nat
    <3>1. N * s.unit \in Nat
      BY <1>t, <2>1
    <3> QED  BY <2>1, <3>1
  <2>5. Slack(s) = a + b + (IF s.call = "select" THEN d ELSE 0)
    BY Zenon DEF Slack, N, D
  <2> HIDE DEF a, b, d
  <2>6. Slack(s) \in Int /\ 0 <= Slack(s)
    BY <2>2, <2>3, <2>4, <2>5
  <2>7. (s.until # Never => s.until \in Timespec) /\ (s.due # Never => s.due \in Int)
    BY DEF WaitSlot, TimerSlot
  <2> QED  BY <2>1, <2>6, <2>7, ZenonT(60)
<1>15. ASSUME FutexWoken PROVE WaitInv'
  <2>1. slot \in WaitSlot /\ slot.clk \in Clock /\ slot.until \in Timespec \cup {Never}
    <3>1. slot \in WaitSlot
      BY <1>15, <1>sl, Zenon DEF FutexWoken
    <3> QED  BY <3>1 DEF WaitSlot
  <2>2. PICK t \in {Real(slot.clk), slot.until, MaxTime} :
          slot' = [slot EXCEPT !.call = "futex_again", !.until = t]
    BY <1>15, Zenon DEF FutexWoken
  <2> DEFINE w == [slot EXCEPT !.call = "futex_again", !.until = t]
  <2>3. t \in Timespec \cup {Never}
    BY <1>n, <2>1, Zenon
  <2>4. w \in WaitSlot /\ w.call = "futex_again" /\ "futex_again" \notin Resumed
    BY <2>1, <2>3, ZenonT(60) DEF WaitSlot, WaitCall
  <2> HIDE DEF w
  <2>5. WaitGood(w)
    BY <2>4, Zenon DEF WaitGood, Kept, Exempt
  <2>6. slot' = w /\ UNCHANGED <<conf, now>>
    BY <1>15, <2>2, Zenon DEF FutexWoken, w
  <2> QED  BY Entering, <2>4, <2>5, <2>6, Zenon
<1>16. ASSUME Tick PROVE WaitInv'
  <2>1. now < MaxNow /\ now' = now + 1 /\ conf' = conf /\ slot' = slot
    BY <1>16, Zenon DEF Tick
  <2>2. /\ now' \in 0..MaxNow /\ now' * N \in Int /\ now * N <= now' * N
    <3>1. now + 1 \in 0..MaxNow /\ (now + 1) * N = now * N + N
      BY <1>n, <1>t, <2>1
    <3> QED  BY <1>n, <1>t, <2>1, <3>1
  <2>3. (Faking <=> Faking') /\ (\A c : Faked(c) <=> Faked(c)') /\ Rate' = Rate
    BY <2>1, Zenon DEF Faking, Faked, Rate
  <2>4. Slack(slot)' = Slack(slot) /\ (OnTime(slot)' <=> OnTime(slot)) /\ (\A u, c : End(u, c)' = End(u, c))
    BY <2>1, Zenon DEF Slack, OnTime, End
  <2>5. Exempt(slot)' <=> Exempt(slot)
    BY <2>1, <2>3, ZenonT(60) DEF Exempt
  <2>6. ASSUME slot \in WaitSlot \cup TimerSlot, Kept(slot) PROVE Kept(slot)'
    <3>1. CASE slot.due # Never /\ slot.due <= now * N + Slack(slot)
      <4>1. slot.due <= now' * N + Slack(slot)
        BY <1>n, <1>sk, <2>2, <2>6, <3>1
      <4> QED  BY <2>1, <2>4, <2>5, <2>6, <3>1, <4>1, Zenon DEF Kept, N
    <3>2. CASE ~(slot.due # Never /\ slot.due <= now * N + Slack(slot))
      BY <2>1, <2>4, <2>5, <2>6, <3>2, Zenon DEF Kept, N
    <3> QED  BY <3>1, <3>2, Zenon
  <2>7. ASSUME slot \in WaitSlot, WaitGood(slot) PROVE slot' \in WaitSlot' /\ WaitGood(slot)'
    <3>1. WaitSlot' = WaitSlot
      BY DEF WaitSlot
    <3>2. slot.clk \in Clock
      BY <2>7, SMTT(60) DEF WaitSlot
    <3>3. ASSUME slot.until # Never, End(slot.until, slot.clk) - now * N <= hi * D
          PROVE  End(slot.until, slot.clk) - now' * N <= hi * D
      <4>1. slot.until \in Timespec
        BY <1>sk, <2>7, <3>3, ZenonT(60)
      <4>2. Value(slot.until) \in Int /\ Value(Start[slot.clk]) \in Int
        BY <1>n, <1>v, <3>2, <4>1, SMTT(60)
      <4>3. End(slot.until, slot.clk) \in Int
        BY <1>t, <4>2 DEF End, N
      <4> QED  BY <1>n, <2>2, <3>3, <4>3
    <3>4. WaitGood(slot)'
      BY <2>1, <2>3, <2>4, <2>6, <2>7, <3>3, Zenon DEF WaitGood, N, D, hi
    <3> QED  BY <2>1, <2>7, <3>1, <3>4, Zenon
  <2>8. ASSUME slot \in TimerSlot, TimerGood(slot) PROVE slot' \in TimerSlot' /\ TimerGood(slot)'
    BY <2>1, <2>3, <2>4, <2>5, <2>6, <2>8, Zenon DEF TimerGood
  <2>9. ASSUME slot \in ReadSlot, ReadGood(slot) PROVE slot' \in ReadSlot' /\ ReadGood(slot)'
    <3>1. \A n \in 0..now : n \in 0..now'
      BY <1>n, <2>1
    <3> QED  BY <2>1, <2>3, <2>9, <3>1, ZenonT(60) DEF ReadGood, Deadline, fake_clock_gettime, ToFake
  <2>10. conf' \in Conf /\ now' \in 0..MaxNow
    BY <1>c, <2>1, <2>2, Zenon
  <2> QED  BY <2>1, <2>7, <2>8, <2>9, <2>10, Zenon DEF WaitInv
<1>17. ASSUME Return \/ Disarm PROVE WaitInv'
  <2>1. slot' = Idle /\ UNCHANGED <<conf, now>>
    BY <1>17, Zenon DEF Return, Disarm
  <2> QED  BY Entering, <2>1, Zenon
<1>18. ASSUME UNCHANGED vars PROVE WaitInv'
  <2>1. slot' = slot /\ UNCHANGED <<conf, now>>
    BY <1>18, Zenon DEF vars
  <2>2. \/ slot \in WaitSlot /\ WaitGood(slot)
        \/ slot \in TimerSlot /\ TimerGood(slot)
        \/ slot \in ReadSlot /\ ReadGood(slot)
        \/ slot = Idle
    BY Zenon DEF WaitInv
  <2> QED  BY Entering, <2>1, <2>2, Zenon
<1> DEFINE T(call, c, u, due, i, p, abs) ==
             [call |-> call, clk |-> c, until |-> u, due |-> due, unit |-> 1, sat |-> u = MaxTime,
              resumes |-> 0, lag |-> 0, interval |-> i, period |-> p, abs |-> abs]
<1>pe. ASSUME NEW p \in Periods
       PROVE  LET i == timer_settime_interval(Split(p))
              IN  /\ Value(Split(p)) = p /\ p \in Nat /\ i \in Timespec
                  /\ 0 <= Value(i) /\ Value(i) * N <= p * Rate
                  /\ p * Rate < Value(i) * N + N \/ Value(i) = hi
  <2>1. p \in 0..hi
    BY RangeAssumption, ZenonT(60) DEF hi
  <2>2. p \in Int /\ p \in Nat /\ 0 <= p /\ p <= hi /\ Value(MinTime) <= p
    BY <1>n, <2>1
  <2>3. Split(p) \in Timespec /\ Value(Split(p)) = p /\ "real" \in Clock
    BY <2>2, SplitValue, Zenon DEF hi, Clock
  <2>4. timer_settime_interval(Split(p)) = Scaled(Split(p))
    BY <1>t, Zenon DEF timer_settime_interval, Scaled, ToReal, Faking
  <2> QED  BY <1>r, <2>2, <2>3, <2>4, Zenon
<1>tg. ASSUME NEW call \in {"timer", "timerfd"}, NEW c \in Kind, NEW u \in Timespec \cup {Never},
              NEW due \in Int \cup {Never}, NEW p \in Periods, NEW abs \in BOOLEAN,
              LET w == T(call, c, u, due, timer_settime_interval(Split(p)), p, abs)
              IN  /\ u # Never => due # Never
                  /\ \/ Exempt(w)
                     \/ u = Never /\ (due = Never \/ due <= now * N + N)
                     \/ /\ u # Never /\ 0 <= Value(u) /\ End(u, c) <= due + N
                        /\ due <= End(u, c) + N \/ u = MaxTime
                  /\ Block(w)
       PROVE  WaitInv'
  <2> DEFINE i == timer_settime_interval(Split(p))
             sat == u = MaxTime
             w == T(call, c, u, due, i, p, abs)
  <2>1. /\ p \in Nat /\ i \in Timespec /\ 0 <= Value(i) /\ Value(i) * N <= p * Rate
        /\ p * Rate < Value(i) * N + N \/ Value(i) = hi
    BY <1>pe, Zenon
  <2> HIDE DEF i
  <2>2. sat \in BOOLEAN
    BY SMTT(60)
  <2>3. w = [call |-> call, clk |-> c, until |-> u, due |-> due, unit |-> 1, sat |-> sat,
             resumes |-> 0, lag |-> 0, interval |-> i, period |-> p, abs |-> abs]
    OBVIOUS
  <2>4. sat <=> u = MaxTime
    OBVIOUS
  <2>5. /\ u # Never => due # Never
        /\ \/ Exempt(w)
           \/ u = Never /\ (due = Never \/ due <= now * N + N)
           \/ /\ u # Never /\ 0 <= Value(u) /\ End(u, c) <= due + N
              /\ due <= End(u, c) + N \/ sat
        /\ slot' = w /\ UNCHANGED <<conf, now>>
    BY <1>tg, ZenonT(60) DEF Block, i
  <2> HIDE DEF sat, w
  <2>6. w \in TimerSlot
    BY <2>1, <2>2, <2>3, SMTT(60) DEF TimerSlot
  <2>7. /\ w.call = call /\ w.clk = c /\ w.until = u /\ w.due = due /\ w.unit = 1 /\ w.sat = sat
        /\ w.resumes = 0 /\ w.lag = 0 /\ w.interval = i /\ w.period = p /\ call # "select"
    BY <2>3, SMTT(60)
  <2>8. Slack(w) = N + D
    <3>1. (N + D) * 1 * (1 + 0) = N + D /\ 0 * N = 0
      BY <1>t
    <3>2. Slack(w) = (N + D) * 1 * (1 + 0) + 0 * N + 0
      BY <2>7, Zenon DEF Slack, N, D
    <3> QED  BY <1>t, <3>1, <3>2, SMTT(60)
  <2>9. ASSUME u # Never, End(u, c) <= due + N, due <= End(u, c) + N \/ sat
        PROVE  OnTime(w)
    <3>1. u \in Timespec /\ due \in Int /\ c \in Clock
      BY <2>5, <2>9, ZenonT(60) DEF Clock, Kind
    <3>2. End(u, c) \in Int
      BY <1>n, <1>v, <1>t, <3>1, SMTT(60) DEF End, N
    <3>3. End(u, c) - due <= N + D /\ (-(End(u, c) - due) <= N + D \/ sat)
      BY <1>t, <2>9, <3>1, <3>2, SMTT(60)
    <3> QED  BY <2>7, <2>8, <3>3, Zenon DEF OnTime, End
  <2>10. due # Never /\ due <= now * N + N => due <= now * N + (N + D)
    BY <1>t, <1>n
  <2>11. Kept(w)
    BY <2>5, <2>7, <2>8, <2>9, <2>10, ZenonT(60) DEF Kept, N, D
  <2>12. TimerGood(w)
    <3>1. u # Never => due # Never /\ (~Exempt(w) => 0 <= Value(u))
      BY <2>5, Zenon
    <3> QED  BY <2>1, <2>4, <2>7, <2>11, <3>1, Zenon DEF TimerGood, N, hi
  <2> QED  BY Entering, <2>5, <2>6, <2>12, Zenon
<1> HIDE DEF T
<1>19. ASSUME NEW call \in {"timer", "timerfd"}, NEW c \in Kind, NEW b \in Kind,
              call = "timerfd" => b = c, call = "timer" => b = "real", SetTimer(call, c, b)
       PROVE  WaitInv'
  <2>t. c \in Clock /\ b \in Clock /\ hi > 0
    <3>1. c \in Clock /\ b \in Clock
      BY Zenon DEF Clock, Kind
    <3> QED  BY <1>n, <3>1
  <2>1. ASSUME NEW p \in Periods, NEW v \in Lengths, Block(Timer(call, c, b, FALSE, Split(v), Split(p)))
        PROVE  WaitInv'
    <3> DEFINE h == timer_settime_value(b, FALSE, Split(v))
               u == IF Value(h) = 0 THEN Never ELSE timespecadd(Real(c), h)
               due == IF v = 0 THEN Never ELSE DueIn(v)
               x == v * Rate
               i == timer_settime_interval(Split(p))
    <3>1. v \in Int /\ 0 <= v /\ Split(v) \in Timespec /\ Value(Split(v)) = v
      BY <1>len, Zenon
    <3>2. Block(T(call, c, u, due, i, p, FALSE))
      BY <1>pe, <2>1, <3>1, Zenon DEF Timer, T
    <3>3. CASE v = 0
      <4>1. u = Never /\ due = Never
        BY <3>1, <3>3, Zenon DEF timer_settime_value
      <4>2. FALSE \in BOOLEAN
        OBVIOUS
      <4> HIDE DEF u, due
      <4> QED  BY <1>tg, <3>2, <4>1, <4>2, Zenon
    <3>4. CASE v # 0
      <4>1. h = Scaled(Split(v))
        BY <1>t, <3>1, <3>4, Zenon DEF timer_settime_value, Scaled, ToReal, Faking
      <4>2. /\ h.sec \in Int /\ h.nsec \in 0..SubSec - 1 /\ 0 <= Value(h) /\ Value(h) \in Int
            /\ x \in Int /\ Value(h) * N <= x + N
            /\ x <= Value(h) * N + N \/ Value(Real(c)) + Value(h) >= hi
            /\ x < Value(h) * N + N \/ Value(h) = hi
        BY <1>r, <2>t, <3>1, <4>1, Zenon
      <4>3. due = now * N + x
        BY <3>4, ZenonT(60) DEF DueIn, Rate, N
      <4>4. due \in Int
        BY <1>n, <4>2, <4>3
      <4>5. due # Never
        BY <4>4, RangeAssumption, Zenon
      <4>6. CASE Value(h) = 0
        <5>1. u = Never
          BY <4>6, Zenon
        <5> HIDE DEF h, x, due, u
        <5>2. Value(h) * N = 0
          BY <1>t, <4>6, SMTT(60)
        <5>3. x < N
          BY <1>t, <2>t, <4>2, <4>6, <5>2, SMTT(60)
        <5>4. due <= now * N + N
          BY <1>n, <1>t, <4>2, <4>3, <5>3
        <5>5. FALSE \in BOOLEAN
          OBVIOUS
        <5> QED  BY <1>tg, <3>2, <4>4, <5>1, <5>4, <5>5, Zenon
      <4>7. CASE Value(h) # 0
        <5> DEFINE z == timespecadd(Real(c), h)
        <5>1. u = z
          BY <4>7, ZenonT(60)
        <5> HIDE DEF h, x
        <5>2. /\ z \in Timespec /\ End(z, c) \in Int /\ 0 <= Value(z)
              /\ End(z, c) <= now * N + x + N
              /\ now * N + x <= End(z, c) + N \/ z = MaxTime
          BY <1>c, <1>t, <2>t, <4>2, LengthKept DEF N, hi
        <5>3. FALSE \in BOOLEAN /\ z # Never
          BY <5>2, RangeAssumption, Zenon
        <5> HIDE DEF z, u, due
        <5> QED  BY <1>tg, <3>2, <4>3, <4>4, <4>5, <5>1, <5>2, <5>3, ZenonT(60)
      <4> QED  BY <4>6, <4>7, Zenon
    <3> QED  BY <3>3, <3>4, Zenon
  <2>2. ASSUME NEW p \in Periods, NEW t \in Deadline(c), Block(Timer(call, c, b, TRUE, t, Split(p)))
        PROVE  WaitInv'
    <3> DEFINE z == timer_settime_value(b, TRUE, t)
               u == IF Value(z) = 0 THEN Never ELSE z
               due == IF Value(t) = 0 THEN Never ELSE Due(c, t)
               i == timer_settime_interval(Split(p))
    <3>0. TRUE \in BOOLEAN
      OBVIOUS
    <3>1. /\ t \in Timespec /\ Value(t) \in Int /\ 0 <= Value(t) /\ Due(c, t) \in Int
          /\ ~Faked(c) => End(t, c) = Due(c, t)
      BY <1>c, <1>dl, <2>t, Deadlines, Zenon
    <3>2. Block(T(call, c, u, due, i, p, TRUE))
      BY <1>pe, <2>2, Zenon DEF Timer, T
    <3>3. CASE Value(t) = 0
      <4>1. u = Never /\ due = Never
        BY <3>3, Zenon DEF timer_settime_value
      <4> HIDE DEF u, due
      <4> QED  BY <1>tg, <3>0, <3>2, <4>1, Zenon
    <3>4. CASE Value(t) # 0
      <4>1. due = Due(c, t) /\ due \in Int /\ due # Never
        BY <3>1, <3>4, RangeAssumption, Zenon
      <4>2. normalize_timespec_value(Base) = Base /\ Base \in Timespec
        <5>1. Base \in Timespec /\ SubSec \in Nat
          BY WaitAssumption, TimeAssumption, ZenonT(60)
        <5>2. 0 <= Base.nsec /\ Base.nsec < SubSec
          BY <5>1 DEF Timespec
        <5> QED  BY <5>1, <5>2, Zenon DEF normalize_timespec_value
      <4> DEFINE y == timespecadd(Start[b], ToReal(timespecsub(t, Base)))
      <4>3. z = IF conf.dont_fake \/ (b = "mono" /\ ~conf.fake_monotonic) THEN t ELSE y
        BY <3>4, <4>2, Zenon DEF timer_settime_value
      <4>4. y \in Timespec
        <5>1. timespecsub(t, Base) \in Timespec /\ Start[b] \in Timespec
          BY <1>n, <2>t, <3>1, <4>2, SubClamped, ZenonT(60)
        <5> QED  BY <1>ty, <5>1, AddClamped, Zenon
      <4>5. z \in Timespec
        BY <3>1, <4>3, <4>4, Zenon
      <4>6. u \in Timespec \cup {Never}
        BY <4>5, Zenon
      <4>7. CASE call = "timer" /\ c = "mono"
        <5> HIDE DEF u, due
        <5> DEFINE ab == TRUE
                   w == T(call, c, u, due, i, p, ab)
        <5>1. w.call = "timer" /\ w.clk = "mono" /\ w.abs
          BY <4>7 DEF T
        <5>2. ab \in BOOLEAN /\ Block(T(call, c, u, due, i, p, ab))
          BY <3>0, <3>2, Zenon
        <5> HIDE DEF w, ab
        <5>3. Exempt(w)
          BY <5>1, Zenon DEF Exempt
        <5>4. Exempt(T(call, c, u, due, i, p, ab))
          BY <5>3, Zenon DEF w
        <5>5. due \in Int \cup {Never} /\ (u # Never => due # Never)
          BY <4>1, Zenon
        <5> QED  BY <1>tg, <4>6, <5>2, <5>4, <5>5, ZenonT(60)
      <4>8. CASE ~(call = "timer" /\ c = "mono")
        <5>1. b = c
          BY <1>19, <4>8, Zenon DEF Kind
        <5>2. CASE ~Faked(c)
          <6>1. z = t
            BY <4>3, <5>1, <5>2, Zenon DEF Faked, Kind
          <6>2. u = t /\ u # Never
            BY <3>1, <3>4, <6>1, RangeAssumption, ZenonT(60)
          <6>3. End(u, c) <= due + N /\ due <= End(u, c) + N
            <7>1. End(u, c) = due
              BY <3>1, <4>1, <5>2, <6>2, Zenon
            <7> HIDE DEF u, due
            <7> QED  BY <1>t, <4>1, <7>1
          <6> HIDE DEF u, due
          <6> QED  BY <1>tg, <3>0, <3>1, <3>2, <4>1, <4>6, <6>2, <6>3, ZenonT(60)
        <5>3. CASE Faked(c)
          <6>1. z = y /\ y = timespecadd(Start[c], ToReal(timespecsub(t, Base)))
            BY <4>3, <5>1, <5>3, Zenon DEF Faked
          <6>2. /\ z \in Timespec /\ Value(z) \in Int /\ End(z, c) \in Int /\ 0 <= Value(z)
                /\ End(z, c) <= due + N
                /\ due <= End(z, c) + N \/ z = MaxTime
            BY <1>c, <2>t, <4>1, <5>3, <6>1, DeadlineMoved, ZenonT(60) DEF N
          <6> HIDE DEF z
          <6>3. CASE Value(z) = 0
            <7>1. u = Never
              BY <6>3, Zenon
            <7>2. z # MaxTime
              BY <2>t, <6>3 DEF hi
            <7>3. Value(Start[c]) \in Nat /\ End(z, c) = (0 - Value(Start[c])) * N
              BY <1>n, <2>t, <6>3, ZenonT(60) DEF End, N
            <7>4. (0 - Value(Start[c])) * N <= 0 * N /\ 0 * N = 0
              BY <1>t, <7>3, Monotone, SMTT(60)
            <7>5. 0 <= now * N
              BY <1>n, <1>t, SMTT(60)
            <7> HIDE DEF u, due
            <7>6. due <= now * N + N
              BY <1>n, <1>t, <4>1, <6>2, <7>2, <7>3, <7>4, <7>5, SMTT(60)
            <7> QED  BY <1>tg, <3>0, <3>2, <4>1, <7>1, <7>6, ZenonT(60)
          <6>4. CASE Value(z) # 0
            <7>1. u = z /\ u # Never
              BY <6>2, <6>4, RangeAssumption, Zenon
            <7> HIDE DEF u, due
            <7> QED  BY <1>tg, <3>0, <3>2, <4>1, <4>6, <6>2, <7>1, ZenonT(60)
          <6> QED  BY <6>3, <6>4, Zenon
        <5> QED  BY <5>2, <5>3, Zenon
      <4> QED  BY <4>7, <4>8, Zenon
    <3> QED  BY <3>3, <3>4, Zenon
  <2> QED  BY <1>19, <2>1, <2>2, ZenonT(60) DEF SetTimer
<1>20. ASSUME timer_settime \/ timerfd_settime PROVE WaitInv'
  <2>1. "real" \in Kind /\ "timer" # "timerfd"
    BY DEF Kind
  <2>2. ASSUME NEW c \in Kind, SetTimer("timer", c, "real") PROVE WaitInv'
    BY <1>19, <2>1, <2>2, Zenon
  <2>3. ASSUME NEW c \in Kind, SetTimer("timerfd", c, c) PROVE WaitInv'
    BY <1>19, <2>1, <2>3, Zenon
  <2> QED  BY <1>20, <2>2, <2>3, Zenon DEF timer_settime, timerfd_settime, Kind
<1>21. ASSUME Fire PROVE WaitInv'
  <2> DEFINE c == slot.clk
             u == slot.until
             i == slot.interval
             p == slot.period
             u2 == timespecadd(u, i)
             due2 == slot.due + p * Rate
             sat2 == u2 = MaxTime
             S == Value(Start[c])
             w == [slot EXCEPT !.until = u2, !.due = due2, !.sat = sat2, !.resumes = @ + 1]
  <2>1. slot \in TimerSlot /\ TimerGood(slot) /\ u # Never /\ Value(u) <= Value(Real(c))
        /\ UNCHANGED <<conf, now>>
    BY <1>21, <1>sl, Zenon DEF Fire, Reached
  <2>2. /\ c \in Clock /\ i \in Timespec /\ p \in Nat /\ slot.resumes \in Nat
        /\ slot.call \in {"timer", "timerfd"} /\ slot.unit = 1 /\ slot.lag = 0
    <3>1. /\ c \in Kind /\ i \in Timespec /\ p \in Nat /\ slot.resumes \in Nat
          /\ slot.call \in {"timer", "timerfd"} /\ slot.unit = 1 /\ slot.lag = 0
      BY <2>1 DEF TimerSlot
    <3> QED  BY <3>1, ZenonT(60) DEF Kind, Clock
  <2>3. u \in Timespec /\ slot.due # Never /\ slot.due \in Int /\ Slack(slot) \in Int
    BY <1>sk, <2>1, Zenon DEF TimerGood
  <2>4. slot' = IF Value(i) = 0 THEN Idle ELSE w
    BY <1>21, Zenon DEF Fire, Rate
  <2>5. CASE Value(i) = 0
    BY Entering, <2>1, <2>4, <2>5, Zenon
  <2>6. CASE Value(i) # 0
    <3>1. u2 \in Timespec
      BY <2>2, <2>3, AddClamped, ZenonT(60)
    <3>2. p * Rate \in Int /\ due2 \in Int
      BY <1>t, <2>2, <2>3
    <3>3. sat2 \in BOOLEAN /\ (sat2 <=> u2 = MaxTime) /\ u2 # Never /\ due2 # Never
      BY <3>1, <3>2, RangeAssumption, Zenon
    <3> HIDE DEF u2, due2, sat2
    <3>4. w \in TimerSlot
      <4> DEFINE w1 == [slot EXCEPT !.until = u2]
                 w2 == [w1 EXCEPT !.due = due2]
                 w3 == [w2 EXCEPT !.sat = sat2]
                 w4 == [w3 EXCEPT !.resumes = slot.resumes + 1]
      <4>1. w = w4 /\ slot.resumes + 1 \in Nat
        BY <2>2
      <4>2. w1 \in TimerSlot
        BY <2>1, <3>1 DEF TimerSlot
      <4> HIDE DEF w1
      <4>3. w2 \in TimerSlot
        BY <3>2, <4>2 DEF TimerSlot
      <4> HIDE DEF w2
      <4>4. w3 \in TimerSlot
        BY <3>3, <4>3 DEF TimerSlot
      <4> HIDE DEF w3
      <4>5. w4 \in TimerSlot
        BY <4>1, <4>4 DEF TimerSlot
      <4> HIDE DEF w, w4
      <4> QED  BY <4>1, <4>5, Zenon
    <3>5. /\ w.call = slot.call /\ w.clk = c /\ w.until = u2 /\ w.due = due2 /\ w.unit = 1
          /\ w.sat = sat2 /\ w.resumes = slot.resumes + 1 /\ w.lag = 0 /\ w.interval = i
          /\ w.period = p /\ w.abs = slot.abs /\ w \in TimerSlot
      <4>1. DOMAIN slot = {"call", "clk", "until", "due", "unit", "sat", "resumes", "lag",
                           "interval", "period", "abs"}
        BY <2>1 DEF TimerSlot
      <4>2. w.until = u2 /\ w.due = due2 /\ w.sat = sat2 /\ w.resumes = slot.resumes + 1
        BY <4>1
      <4>3. /\ w.call = slot.call /\ w.clk = slot.clk /\ w.unit = slot.unit /\ w.lag = slot.lag
            /\ w.interval = slot.interval /\ w.period = slot.period /\ w.abs = slot.abs
        BY <4>1
      <4> HIDE DEF w
      <4> QED  BY <2>2, <3>4, <4>2, <4>3, ZenonT(60)
    <3> HIDE DEF w
    <3>6. Slack(w) = Slack(slot) + (N + D)
      <4>1. slot.call # "select" /\ w.call # "select"
        BY <2>2, <3>5
      <4>2. /\ Slack(slot) = (N + D) * 1 * (1 + slot.resumes) + 0 * N + 0
            /\ Slack(w) = (N + D) * 1 * (1 + (slot.resumes + 1)) + 0 * N + 0
        BY <2>2, <3>5, <4>1, ZenonT(60) DEF Slack, N, D
      <4> DEFINE q == N + D
      <4>3. q \in Nat /\ (N + D) * 1 = q
        BY <1>t, SMTT(60)
      <4> HIDE DEF q
      <4>4. q * (1 + (slot.resumes + 1)) = q * (1 + slot.resumes) + q /\ 0 * N = 0
            /\ q * (1 + slot.resumes) \in Int
        BY <1>t, <2>2, <4>3, SMTT(60)
      <4>5. Slack(w) = Slack(slot) + q
        BY <4>2, <4>3, <4>4
      <4> QED  BY <4>5, ZenonT(60) DEF q
    <3>7. /\ 0 <= Value(i) /\ Value(i) * N <= p * Rate
          /\ p * Rate < Value(i) * N + N \/ Value(i) = hi
      BY <2>1, Zenon DEF TimerGood, N, hi
    <3>8. Exempt(slot) => Exempt(w)
      <4>1. Exempt(slot) => slot.call = "timer" /\ slot.clk = "mono" /\ slot.abs
        BY <2>2 DEF Exempt
      <4> QED  BY <3>5, <4>1, ZenonT(60) DEF Exempt
    <3>9. ASSUME ~Exempt(slot) PROVE OnTime(w) /\ 0 <= Value(u2)
      <4> DEFINE n == Value(u) - S
                 E1 == End(u, c)
                 E2 == End(u2, c)
      <4>1. /\ 0 <= Value(u) /\ OnTime(slot) /\ (slot.sat <=> u = MaxTime)
        BY <2>1, <3>9, ZenonT(60) DEF TimerGood, Kept
      <4>2. /\ Value(u) \in Int /\ S \in Nat /\ Value(u) <= S + now /\ S + MaxNow < hi
            /\ Value(i) \in Int /\ i.sec \in Int /\ i.nsec \in 0..SubSec - 1
        BY <1>n, <1>v, <2>1, <2>2, <2>3, SMTT(60)
      <4>3. u # MaxTime
        BY <1>n, <4>2 DEF hi
      <4>4. E1 - slot.due <= Slack(slot) /\ -(E1 - slot.due) <= Slack(slot)
        BY <4>1, <4>3, ZenonT(60) DEF OnTime, End
      <4>5. n \in Int /\ Value(u) = Value(Start[c]) + n /\ Value(MinTime) <= Value(u) + Value(i)
        BY <1>n, <3>7, <4>1, <4>2, SMTT(60)
      <4>6. /\ E2 \in Int /\ Value(u2) \in Int
            /\ Value(u2) = IF Value(u) + Value(i) > hi THEN hi ELSE Value(u) + Value(i)
            /\ E2 <= n * N + Value(i) * N
            /\ u2 = MaxTime \/ E2 = n * N + Value(i) * N
            /\ Value(u2) = hi => u2 = MaxTime
        <5>1. c \in Clock /\ u \in Timespec /\ E2 = End(u2, c)
          BY <2>2, <2>3, Zenon
        <5> HIDE DEF n, c, u, i, E1, E2
        <5> QED  BY <1>c, <4>2, <4>5, <5>1, Landing, SMTT(60) DEF N, hi, u2
      <4>7. n * N = E1 /\ E1 \in Int
        BY <1>t, <4>2, SMTT(60) DEF End, N
      <4>8. 0 <= Value(u2)
        BY <1>n, <3>7, <4>1, <4>2, <4>6, SMTT(60)
      <4>9. Value(i) * N \in Int
        BY <1>t, <4>2
      <4>10. due2 = slot.due + p * Rate
        BY ZenonT(60) DEF due2
      <4> HIDE DEF E1, E2, n
      <4>11. E2 - due2 <= Slack(slot) + (N + D)
        BY <1>t, <2>3, <3>2, <3>7, <4>4, <4>6, <4>7, <4>9, <4>10, SMTT(60)
      <4>12. -(E2 - due2) <= Slack(slot) + (N + D) \/ u2 = MaxTime
        <5>1. CASE Value(i) = hi
          BY <1>n, <4>1, <4>2, <4>6, <5>1, SMTT(60)
        <5>2. CASE p * Rate < Value(i) * N + N
          BY <1>t, <2>3, <3>2, <4>4, <4>6, <4>7, <4>9, <4>10, <5>2, SMTT(60)
        <5> QED  BY <3>7, <5>1, <5>2, ZenonT(60)
      <4>13. OnTime(w)
        BY <3>3, <3>5, <3>6, <4>11, <4>12, ZenonT(60) DEF OnTime, End, E2
      <4> QED  BY <4>8, <4>13, Zenon
    <3>10. TimerGood(w)
      <4>1. Kept(w)
        BY <3>3, <3>5, <3>8, <3>9, Zenon DEF Kept
      <4>2. ~Exempt(w) => 0 <= Value(w.until)
        BY <3>5, <3>8, <3>9, Zenon
      <4> QED  BY <3>3, <3>5, <3>7, <4>1, <4>2, ZenonT(60) DEF TimerGood, N, hi
    <3> QED  BY Entering, <2>1, <2>4, <2>6, <3>5, <3>10, ZenonT(60)
  <2> QED  BY <2>5, <2>6, Zenon
<1> DEFINE Late(s) == /\ s.resumes > 0
                      /\ \/ s.call \in {"nanosleep", "syscall"} /\ Faking
                         \/ s.call = "clock_nanosleep" /\ s.clk = "cpu" /\ Faking
                         \/ s.call = "select" /\ conf.set /\ conf.dont_fake
<1>ex. ASSUME NEW s, s.call \in Resumed PROVE Exempt(s) <=> Late(s)
  <2> DEFINE call == s.call
  <2>1. \/ call = "nanosleep" \/ call = "syscall" \/ call = "clock_nanosleep" \/ call = "select"
    BY <1>ex, Zenon
  <2>2. call \notin {"sem_timedwait", "sem_clockwait", "alarm", "clock_nanosleep_abs", "syscall_abs",
                     "cond", "futex_bitset", "futex_again", "futex_other", "timer"}
    BY <2>1
  <2>3. /\ call = "clock_nanosleep" => call \notin {"nanosleep", "syscall", "select"}
        /\ call = "select" => call \notin {"nanosleep", "syscall", "clock_nanosleep"}
    OBVIOUS
  <2> QED  BY <2>1, <2>2, <2>3, Zenon DEF Exempt
<1> HIDE DEF Late
\* What is left in the slot is l; h is handed on for it.
<1>rs. ASSUME IsWait(slot), slot.call \in Resumed, ~Reached, NEW h \in Timespec, 0 <= Value(h),
              slot' = [slot EXCEPT !.until = timespecadd(Real(slot.clk), h), !.resumes = @ + 1],
              UNCHANGED <<conf, now>>,
              Faking /\ slot.clk # "cpu" => Value(h) * N <= hi * D,
              LET l == Value(slot.until) - Value(Start[slot.clk]) - now
              IN  \/ slot.call \in {"nanosleep", "syscall"} /\ Faking
                  \/ slot.call = "clock_nanosleep" /\ slot.clk = "cpu" /\ Faking
                  \/ slot.call = "select" /\ conf.set /\ conf.dont_fake
                  \/ /\ Value(h) * N <= l * N
                     /\ \/ l * N <= Value(h) * N + (N + D)
                        \/ slot.call = "select" /\ l * N <= Value(h) * N + (Micro * (N + D) + Micro * N)
       PROVE  WaitInv'
  <2> DEFINE c == slot.clk
             u == slot.until
             l == Value(u) - Value(Start[c]) - now
             u2 == timespecadd(Real(c), h)
             w == [slot EXCEPT !.until = u2, !.resumes = @ + 1]
             S == Value(Start[c])
  <2>1. slot \in WaitSlot /\ WaitGood(slot) /\ u # Never /\ slot.due # Never
        /\ (slot.call = "select" => slot.unit = Micro /\ c = "real")
    BY <1>rs, <1>sl, Zenon DEF WaitGood
  <2>2. /\ u \in Timespec /\ slot.due \in Int /\ Slack(slot) \in Int /\ slot.resumes \in Nat
        /\ slot.unit \in Nat /\ slot.lag \in Nat
    BY <1>sk, <2>1, ZenonT(60)
  <2>3. c \in Clock /\ slot.unit > 0
    BY <2>1, SMTT(60) DEF WaitSlot
  <2>4. /\ Real(c) \in Timespec /\ Value(Real(c)) = S + now /\ S \in Nat /\ now \in Int
        /\ h.sec \in Int /\ h.nsec \in 0..SubSec - 1 /\ Value(h) \in Int /\ Value(u) \in Int /\ Value(u) <= hi
    BY <1>n, <1>v, <2>2, <2>3, SMTT(60)
  <2>5. Value(MinTime) <= Value(Real(c)) + Value(h)
    BY <1>n, <1>rs, <2>4, SMTT(60)
  <2>6. /\ u2 \in Timespec /\ Value(u2) \in Int /\ End(u2, c) \in Int
        /\ Value(u2) = IF Value(Real(c)) + Value(h) > hi THEN hi ELSE Value(Real(c)) + Value(h)
        /\ End(u2, c) <= now * N + Value(h) * N
    <3> HIDE DEF c, u
    <3> QED  BY <1>c, <2>3, <2>4, <2>5, Landing, SMTT(60) DEF N, S, hi
  <2> HIDE DEF u2
  <2>7. w \in WaitSlot
    <3> DEFINE v == [slot EXCEPT !.until = u2]
    <3>1. w = [v EXCEPT !.resumes = slot.resumes + 1] /\ slot.resumes + 1 \in Nat
      BY <2>2
    <3>2. v \in WaitSlot
      BY <2>1, <2>6 DEF WaitSlot
    <3> HIDE DEF v, w
    <3>3. [v EXCEPT !.resumes = slot.resumes + 1] \in WaitSlot
      BY <3>1, <3>2 DEF WaitSlot
    <3> QED  BY <3>1, <3>3, Zenon
  <2>8. /\ w.call = slot.call /\ w.clk = c /\ w.until = u2 /\ w.due = slot.due /\ w.unit = slot.unit
        /\ w.sat = slot.sat /\ w.resumes = slot.resumes + 1 /\ w.lag = slot.lag /\ w \in WaitSlot
    <3>1. DOMAIN slot = {"call", "clk", "until", "due", "unit", "sat", "resumes", "lag"}
      BY <2>1 DEF WaitSlot
    <3>2. /\ w.call = slot.call /\ w.clk = c /\ w.until = u2 /\ w.due = slot.due /\ w.unit = slot.unit
          /\ w.sat = slot.sat /\ w.resumes = slot.resumes + 1 /\ w.lag = slot.lag
      BY <3>1
    <3> HIDE DEF w
    <3> QED  BY <2>7, <3>2, Zenon
  <2> HIDE DEF w
  <2>9. /\ u2 # Never /\ slot.resumes + 1 > 0
    BY <2>2, <2>6, RangeAssumption
  <2>10. (Exempt(slot) => Exempt(w)) /\ (~Exempt(w) => ~Late(w))
    <3>1. slot.call \in Resumed
      BY <1>rs, Zenon
    <3>2. w.call \in Resumed
      BY <2>8, <3>1, Zenon
    <3>3. (Exempt(slot) <=> Late(slot)) /\ (Exempt(w) <=> Late(w))
      <4> HIDE DEF Resumed
      <4> QED  BY <1>ex, <3>1, <3>2, Zenon
    <3>4. Late(slot) => Late(w)
      BY <2>8, <2>9, ZenonT(60) DEF Late
    <3> QED  BY <3>3, <3>4, Zenon
  <2> DEFINE g == (N + D) * slot.unit
             k == N * slot.unit
  <2>11. /\ g \in Int /\ 0 <= g /\ N + D <= g /\ k \in Int /\ 0 <= k
         /\ Slack(w) = Slack(slot) + g + (IF slot.call = "select" THEN k ELSE 0)
    <3>1. g \in Nat /\ k \in Nat
      BY <1>t, <2>2, SMTT(60)
    <3>2. N + D <= g
      <4>1. 1 * (N + D) <= slot.unit * (N + D) /\ slot.unit * (N + D) = g /\ 1 * (N + D) = N + D
        BY <1>t, <2>2, <2>3, Monotone
      <4> QED  BY <4>1, SMTT(60)
    <3> DEFINE j == slot.lag * N
    <3>3. /\ Slack(slot) = g * (1 + slot.resumes) + j
                             + (IF slot.call = "select" THEN k * slot.resumes ELSE 0)
          /\ Slack(w) = g * (1 + (slot.resumes + 1)) + j
                          + (IF slot.call = "select" THEN k * (slot.resumes + 1) ELSE 0)
      BY <2>8, ZenonT(60) DEF Slack, N, D
    <3>4. j \in Int
      BY <1>t, <2>2
    <3> HIDE DEF g, k, j
    <3>5. /\ g * (1 + (slot.resumes + 1)) = g * (1 + slot.resumes) + g
          /\ k * (slot.resumes + 1) = k * slot.resumes + k
          /\ g * (1 + slot.resumes) \in Int /\ k * slot.resumes \in Int
      <4> DEFINE r == slot.resumes
      <4>1. r \in Nat
        BY <2>2, Zenon
      <4> HIDE DEF r
      <4>2. g * (1 + (r + 1)) = g * (1 + r) + g /\ g * (1 + r) \in Int
        BY <3>1, <4>1
      <4>3. k * (r + 1) = k * r + k /\ k * r \in Int
        BY <3>1, <4>1
      <4> QED  BY <4>2, <4>3, Zenon DEF r
    <3>6. Slack(w) = Slack(slot) + g + (IF slot.call = "select" THEN k ELSE 0)
      <4>1. CASE slot.call = "select"
        BY <3>1, <3>3, <3>4, <3>5, <4>1, SMTT(60)
      <4>2. CASE slot.call # "select"
        BY <3>1, <3>3, <3>4, <3>5, <4>2, SMTT(60)
      <4> QED  BY <4>1, <4>2, ZenonT(60)
    <3> QED  BY <3>1, <3>2, <3>6, SMTT(60)
  <2>12. slot.call = "select" => Micro * (N + D) + Micro * N = g + k
    <3>1. Micro \in Nat
      BY RangeAssumption, Zenon
    <3> QED  BY <1>t, <2>1, <2>2, <3>1
  <2> HIDE DEF g, k
  <2>13. ASSUME ~Exempt(w) PROVE OnTime(w)
    <3> DEFINE E1 == End(u, c)
               E2 == End(u2, c)
    <3>1. OnTime(slot)
      BY <2>1, <2>10, <2>13, Zenon DEF WaitGood, Kept
    <3>2. /\ Value(h) * N <= l * N
          /\ \/ l * N <= Value(h) * N + (N + D)
             \/ slot.call = "select" /\ l * N <= Value(h) * N + (Micro * (N + D) + Micro * N)
      <4>1. ~Late(w)
        BY <2>10, <2>13, Zenon
      <4>2. w.resumes > 0
        BY <2>8, <2>9, ZenonT(60)
      <4> QED  BY <1>rs, <2>8, <4>1, <4>2, Zenon DEF Late
    <3>3. l \in Int /\ l * N \in Int /\ Value(h) * N \in Int
      BY <1>t, <2>4, SMTT(60)
    <3>4. Value(h) <= l
      <4>1. SUFFICES ASSUME l + 1 <= Value(h) PROVE FALSE
        BY <2>4, <3>3, SMTT(60)
      <4> HIDE DEF l
      <4>2. (l + 1) * N <= Value(h) * N /\ (l + 1) * N = l * N + 1 * N
        BY <1>t, <2>4, <3>3, <4>1, Monotone, Distribute, SMTT(60)
      <4> QED  BY <1>t, <3>2, <3>3, <4>2, SMTT(60)
    <3>5. Value(u2) - S = now + Value(h)
      BY <2>4, <2>6, <3>4, SMTT(60)
    <3>6. E2 = now * N + Value(h) * N
      <4>1. E2 = (now + Value(h)) * N
        BY <3>5, ZenonT(60) DEF End, N
      <4> QED  BY <1>t, <2>4, <4>1, Distribute, SMTT(60)
    <3>7. E1 = now * N + l * N
      <4>1. E1 = (Value(u) - S) * N /\ Value(u) - S = now + l
        BY <2>4 DEF End, N
      <4> HIDE DEF l
      <4> QED  BY <1>t, <2>4, <3>3, <4>1, Distribute, SMTT(60)
    <3>8. E1 - slot.due <= Slack(slot) /\ (-(E1 - slot.due) <= Slack(slot) \/ slot.sat)
      BY <3>1, ZenonT(60) DEF OnTime, End
    <3> HIDE DEF E1, E2, l
    <3>9. E2 - slot.due <= Slack(w)
      BY <1>n, <2>2, <2>11, <3>2, <3>3, <3>6, <3>7, <3>8, SMTT(60)
    <3>10. l * N <= Value(h) * N + g \/ (slot.call = "select" /\ l * N <= Value(h) * N + (g + k))
      <4>1. CASE l * N <= Value(h) * N + (N + D)
        BY <1>t, <2>11, <3>3, <4>1, SMTT(60)
      <4>2. CASE slot.call = "select" /\ l * N <= Value(h) * N + (Micro * (N + D) + Micro * N)
        BY <2>12, <4>2, ZenonT(60)
      <4> QED  BY <3>2, <4>1, <4>2, ZenonT(60)
    <3>11. -(E2 - slot.due) <= Slack(w) \/ slot.sat
      <4>2. now * N \in Int
        BY <1>n, Zenon
      <4>1. CASE -(E1 - slot.due) <= Slack(slot)
        BY <4>2, <2>2, <2>11, <3>3, <3>6, <3>7, <3>10, <4>1, SMTT(60)
      <4> QED  BY <3>8, <4>1, ZenonT(60)
    <3> QED  BY <2>8, <3>9, <3>11, Zenon DEF OnTime, End, E2
  <2>14. Faking /\ c # "cpu" => End(u2, c) - now * N <= hi * D
    <3>1. SUFFICES ASSUME Faking, c # "cpu" PROVE End(u2, c) - now * N <= hi * D
      BY Zenon
    <3>2. Value(h) * N <= hi * D /\ Value(h) * N \in Int
      BY <1>rs, <1>t, <2>4, <3>1
    <3> QED  BY <1>n, <2>6, <3>2
  <2>15. WaitGood(w)
    BY <2>1, <2>8, <2>9, <2>13, <2>14, ZenonT(60) DEF WaitGood, Kept, N, D, hi
  <2> QED  BY Entering, <1>rs, <2>8, <2>15, ZenonT(60) DEF w, u2
<1>22. ASSUME Resume PROVE WaitInv'
  <2> DEFINE c == slot.clk
             u == slot.until
             S == Value(Start[c])
             l == Value(u) - S - now
             L == RealLeft
             left == CASE slot.call = "select" -> ToMicro(ToFake(ToMicro(L)))
                       [] slot.call = "clock_nanosleep" /\ Faking -> ToFake(L)
                       [] OTHER -> L
             handed == CASE slot.call = "select" -> ToMicro(Scaled(left))
                         [] slot.call = "nanosleep" -> Scaled(left)
                         [] OTHER -> SleepFor(c, left)
  <2>1. /\ IsWait(slot) /\ slot.call \in Resumed /\ ~Reached /\ UNCHANGED <<conf, now>>
        /\ slot' = [slot EXCEPT !.until = timespecadd(Real(slot.clk), handed), !.resumes = @ + 1]
    BY <1>22, Zenon DEF Resume
  <2>2. /\ slot \in WaitSlot /\ u # Never /\ (slot.call = "select" => c = "real")
        /\ Faking /\ c # "cpu" => End(u, c) - now * N <= hi * D
    BY <1>sl, <2>1, Zenon DEF WaitGood, N, D, hi
  <2>3. c \in Clock /\ u \in Timespec
    <3>1. c \in Clock
      BY <2>2, SMTT(60) DEF WaitSlot
    <3> QED  BY <1>sk, <2>2, <3>1, ZenonT(60)
  <2>4. /\ Real(c) \in Timespec /\ Value(Real(c)) = S + now /\ S \in Nat /\ now \in Int
        /\ Value(u) \in Int /\ Value(u) <= hi
    BY <1>n, <1>v, <2>3
  <2>5. ~(Value(u) <= Value(Real(c)))
    BY <2>1, <2>2, ZenonT(60) DEF Reached
  <2>6. L \in Timespec /\ Value(L) = l /\ l \in Int /\ 0 <= l /\ l <= hi /\ 0 <= Value(L)
    <3>1. L = timespecsub(u, Real(c))
      BY <2>2, Zenon DEF RealLeft
    <3>2. L \in Timespec /\ Value(L) = Clamped(Value(u) - Value(Real(c)))
      BY <2>3, <2>4, <3>1, SubClamped, ZenonT(60)
    <3>3. l \in Int /\ 0 <= l /\ l <= hi /\ Value(u) - Value(Real(c)) = l
      BY <1>n, <2>4, <2>5, SMTT(60)
    <3>4. Value(L) = l
      BY <1>n, <3>2, <3>3, SMTT(60) DEF Clamped, hi
    <3> QED  BY <3>2, <3>3, <3>4, SMTT(60)
  <2>7. l * N \in Int /\ (Faking /\ c # "cpu" => l * N <= hi * D)
    <3>1. Value(u) - S = now + l /\ End(u, c) = (Value(u) - S) * N
      BY <2>4 DEF End, N
    <3>2. l \in Int
      BY <2>6, ZenonT(60)
    <3> HIDE DEF l
    <3>3. End(u, c) = now * N + l * N /\ l * N \in Int
      BY <1>t, <2>4, <3>1, <3>2, Distribute, SMTT(60)
    <3>4. End(u, c) - now * N = l * N
      BY <1>n, <3>3
    <3> QED  BY <2>2, <3>3, <3>4, ZenonT(60)
  <2> HIDE DEF L
  <2>8. ASSUME NEW h \in Timespec, 0 <= Value(h), handed = h,
               Faking /\ c # "cpu" => Value(h) * N <= hi * D,
               \/ slot.call \in {"nanosleep", "syscall"} /\ Faking
               \/ slot.call = "clock_nanosleep" /\ c = "cpu" /\ Faking
               \/ slot.call = "select" /\ conf.set /\ conf.dont_fake
               \/ /\ Value(h) * N <= l * N
                  /\ \/ l * N <= Value(h) * N + (N + D)
                     \/ slot.call = "select" /\ l * N <= Value(h) * N + (Micro * (N + D) + Micro * N)
        PROVE  WaitInv'
    <3>1. slot' = [slot EXCEPT !.until = timespecadd(Real(slot.clk), h), !.resumes = @ + 1]
      BY <2>1, <2>8, ZenonT(60)
    <3> HIDE DEF handed
    <3> QED  BY <1>rs, <2>1, <2>8, <3>1, Zenon
  \* What is left is handed on as it is.
  <2>9. Value(L) * N <= l * N /\ l * N <= Value(L) * N + (N + D)
    BY <1>t, <2>6, <2>7, SMTT(60)
  <2>10. ASSUME ~Faking, slot.call # "select" PROVE WaitInv'
    <3>1. handed = L
      BY <2>1, <2>10, Zenon DEF SleepFor, Scaled
    <3> HIDE DEF handed, l
    <3> QED  BY <2>6, <2>8, <2>9, <2>10, <3>1, ZenonT(60)
  <2>11. ASSUME Faking, slot.call \in {"nanosleep", "syscall"} PROVE WaitInv'
    <3>0. slot.call # "select" /\ slot.call # "clock_nanosleep"
      BY <2>11
    <3>1. (handed = L /\ c = "cpu") \/ handed = Scaled(L)
      BY <2>11, <3>0, Zenon DEF SleepFor
    <3>2. Scaled(L) \in Timespec /\ 0 <= Value(Scaled(L)) /\ Value(Scaled(L)) * N <= hi * D
      BY <1>r, <2>3, <2>6, <2>11, ZenonT(60)
    <3> HIDE DEF handed, l
    <3>3. CASE handed = L /\ c = "cpu"
      BY <2>6, <2>8, <2>11, <3>3, ZenonT(60)
    <3>4. CASE handed = Scaled(L)
      BY <2>8, <2>11, <3>2, <3>4, ZenonT(60)
    <3> QED  BY <3>1, <3>3, <3>4, ZenonT(60)
  <2>12. ASSUME Faking, slot.call = "clock_nanosleep" PROVE WaitInv'
    <3> DEFINE f == ToFake(L)
    <3>0. slot.call # "select" /\ slot.call # "nanosleep"
      BY <2>12
    <3>1. handed = SleepFor(c, f)
      BY <2>12, <3>0, Zenon
    <3>2. Rounded(L, f, N, D)
      BY <1>c, <2>6, Conversions, Zenon DEF N, D
    <3> HIDE DEF f, handed
    <3>3. f \in Timespec /\ 0 <= Value(f) /\ Value(f) * D <= Value(L) * N
          /\ (Value(L) * N < Value(f) * D + D \/ Value(L) * N > hi * D)
      BY <2>6, <3>2, Zenon DEF Rounded, hi
    <3>4. CASE c = "cpu"
      <4>1. handed = f
        BY <3>1, <3>4, Zenon DEF SleepFor
      <4> HIDE DEF l
      <4> QED  BY <2>8, <2>12, <3>3, <3>4, <4>1, ZenonT(60)
    <3>5. CASE c # "cpu"
      <4> DEFINE h == Scaled(f)
      <4>1. handed = h
        BY <3>1, <3>5, Zenon DEF SleepFor
      <4>2. /\ h \in Timespec /\ 0 <= Value(h) /\ Value(h) \in Int /\ Value(h) * N \in Int
            /\ Value(h) * N <= Value(f) * Rate /\ Value(h) * N <= hi * D
            /\ Value(f) * Rate < Value(h) * N + N \/ Value(h) = hi
        BY <1>r, <2>3, <2>12, <3>3, ZenonT(60)
      <4>3. Rate = D
        BY <1>t, <2>12, Zenon DEF Faking
      <4> HIDE DEF h
      <4>4. Value(L) * N = l * N /\ l * N <= hi * D /\ l * N <= hi * N
        <5>1. l * N <= hi * N
          BY <1>t, <1>n, <2>6, Monotone, SMTT(60)
        <5> QED  BY <2>6, <2>7, <2>12, <3>5, <5>1, ZenonT(60)
      <4>5. Value(f) \in Int /\ Value(f) * D \in Int
        BY <1>t, <1>v, <3>3, SMTT(60)
      <4> HIDE DEF l
      <4>6. Value(h) * N <= l * N
        BY <2>7, <3>3, <4>2, <4>3, <4>4, <4>5, SMTT(60)
      <4>7. l * N <= Value(h) * N + (N + D)
        <5>1. CASE Value(h) = hi
          BY <1>n, <1>t, <2>7, <4>2, <4>4, <5>1, SMTT(60)
        <5>2. CASE Value(f) * D < Value(h) * N + N
          BY <1>n, <1>t, <2>7, <3>3, <4>2, <4>4, <4>5, <5>2, SMTT(60)
        <5> QED  BY <4>2, <4>3, <5>1, <5>2, ZenonT(60)
      <4> QED  BY <2>8, <4>1, <4>2, <4>6, <4>7, ZenonT(60)
    <3> QED  BY <3>4, <3>5, Zenon
  <2>13. ASSUME slot.call = "select" PROVE WaitInv'
    <3> DEFINE m1 == ToMicro(L)
               f == ToFake(m1)
               m2 == ToMicro(f)
               s == Scaled(m2)
               h == ToMicro(s)
    <3>1. handed = h
      BY <2>13, Zenon
    <3> HIDE DEF handed
    <3>2. /\ m1 \in Timespec /\ Value(m1) \in Int /\ 0 <= Value(m1) /\ Value(m1) <= l
          /\ l * N <= Value(m1) * N + (Micro * N - N) /\ Value(m1) * N <= l * N /\ Micro \in Nat \ {0}
      BY <1>mi, <2>6, Zenon
    <3>3. Rounded(m1, f, N, D)
      BY <1>c, <3>2, Conversions, ZenonT(60) DEF N, D
    <3> HIDE DEF m1, f
    <3>4. /\ f \in Timespec /\ 0 <= Value(f) /\ Value(f) * D <= Value(m1) * N
          /\ Value(m1) * N < Value(f) * D + D \/ Value(m1) * N > hi * D
      BY <3>2, <3>3, Zenon DEF Rounded, hi
    <3>5. /\ m2 \in Timespec /\ Value(m2) \in Int /\ 0 <= Value(m2)
          /\ Value(f) * D <= Value(m2) * D + (Micro * D - D) /\ Value(m2) * D <= Value(f) * D
      BY <1>mi, <3>4, Zenon
    <3> HIDE DEF m2
    <3>6. /\ s \in Timespec /\ 0 <= Value(s) /\ Value(s) \in Int /\ Value(s) * N \in Int
          /\ Value(s) * N <= Value(m2) * Rate
          /\ Value(m2) * Rate < Value(s) * N + N \/ Value(s) = hi
          /\ Faking => Value(s) * N <= hi * D
      BY <1>r, <2>3, <3>5, ZenonT(60)
    <3> HIDE DEF s
    <3>7. /\ h \in Timespec /\ Value(h) \in Int /\ 0 <= Value(h)
          /\ Value(s) * N <= Value(h) * N + (Micro * N - N) /\ Value(h) * N <= Value(s) * N
      BY <1>mi, <3>6, ZenonT(60)
    <3> HIDE DEF h
    <3>8. Value(h) * N \in Int /\ (Faking => Value(h) * N <= hi * D)
      <4>1. Value(h) * N \in Int
        BY <1>t, <3>7
      <4> QED  BY <1>n, <3>6, <3>7, <4>1, SMTT(60)
    <3>9. CASE conf.set /\ conf.dont_fake
      <4> HIDE DEF l
      <4> QED  BY <2>8, <2>13, <3>1, <3>7, <3>8, <3>9, ZenonT(60)
    <3>10. CASE ~(conf.set /\ conf.dont_fake)
      <4>1. Rate = D /\ l * N <= hi * D /\ l * N <= hi * N
        <5>1. l * N <= hi * N
          BY <1>t, <1>n, <2>6, Monotone
        <5>2. CASE Faking
          <6>1. c # "cpu"
            BY <2>2, <2>13, SMTT(60)
          <6> QED  BY <1>t, <2>7, <5>1, <5>2, <6>1, ZenonT(60) DEF Faking
        <5>3. CASE ~Faking
          <6>1. ~conf.set
            BY <3>10, <5>3, ZenonT(60) DEF Faking
          <6> QED  BY <1>t, <5>1, <6>1, SMTT(60)
        <5> QED  BY <5>2, <5>3, ZenonT(60)
      <4>2. /\ Value(f) \in Int /\ Value(f) * D \in Int /\ Value(m1) * N \in Int /\ Value(m2) * D \in Int
            /\ Micro * N \in Int /\ Micro * D \in Int /\ Micro * (N + D) = Micro * N + Micro * D
            /\ 0 <= Micro * D
        <5>1. Value(f) \in Int
          BY <1>v, <3>4, ZenonT(60)
        <5> QED  BY <1>t, <3>2, <3>5, <5>1
      <4> HIDE DEF l
      <4>3. Value(h) * N <= l * N
        BY <2>7, <3>2, <3>4, <3>5, <3>6, <3>7, <3>8, <4>1, <4>2, SMTT(60)
      <4>4. l * N <= Value(h) * N + (Micro * (N + D) + Micro * N)
        <5>3. hi * N \in Int /\ hi * D \in Int /\ N \in Int /\ D \in Int /\ N > 0 /\ D > 0
          BY <1>n, <1>t, Zenon
        <5>1. CASE Value(s) = hi
          BY <2>7, <3>6, <3>7, <3>8, <4>1, <4>2, <5>1, <5>3, SMTT(60)
        <5>2. CASE Value(m2) * D < Value(s) * N + N
          BY <5>3, <2>7, <3>2, <3>4, <3>5, <3>6, <3>7, <3>8, <4>1, <4>2, <5>2, SMTT(60)
        <5> QED  BY <3>6, <4>1, <5>1, <5>2, ZenonT(60)
      <4> QED  BY <2>8, <2>13, <3>1, <3>7, <3>8, <4>3, <4>4, ZenonT(60)
    <3> QED  BY <3>9, <3>10, Zenon
  <2> QED  BY <2>1, <2>10, <2>11, <2>12, <2>13, ZenonT(60)
<1> QED
  BY CallStep, <1>14, <1>15, <1>16, <1>17, <1>18, <1>20, <1>21, <1>22, ZenonT(60) DEF WaitNext

\* The slot of a call or a timer holds times of the type the code gives them:
\* no conversion leaves time_t or a part of a second out of range.
THEOREM WaitsTyped == WaitSpec => []WaitTypeOK
<1>1. WaitInit => WaitInv
  <2>1. MaxNow \in Nat
    BY WaitAssumption, Zenon
  <2>2. 0 \in 0..MaxNow
    BY <2>1
  <2> QED  BY <2>2, Zenon DEF WaitInit, WaitInv
<1>2. WaitInv => WaitTypeOK
  <2>1. slot \in WaitSlot => slot.clk \in Clock /\ slot.call # "cond_read" /\ slot.until \in Timespec \cup {Never}
    BY DEF WaitSlot, WaitCall
  <2>2. slot \in TimerSlot => slot.clk \in Clock /\ slot.call # "cond_read" /\ slot.until \in Timespec \cup {Never}
    BY DEF TimerSlot, Kind, Clock
  <2>3. slot \in ReadSlot => slot.clk \in Clock /\ slot.call = "cond_read"
                             /\ {slot.abstime, slot.realtime, slot.faketime} \subseteq Timespec
    BY DEF ReadSlot, Kind, Clock
  <2> QED  BY <2>1, <2>2, <2>3, ZenonT(60) DEF WaitInv, WaitTypeOK
<1>3. WaitInv /\ [WaitNext]_vars => WaitInv'
  BY WaitStep, Zenon
<1> QED
  BY <1>1, <1>2, <1>3, PTL DEF WaitSpec

\* Whatever the rate, the settings and the width of time_t, every blocking call
\* and every expiry of a timer ends, but for the rounding of its conversions, when
\* the clock the program sees has advanced as it asked, outside the cases of Exempt.
THEOREM DeadlinesKept == WaitSpec => []DeadlineKept
<1>1. WaitInit => WaitInv
  <2>1. MaxNow \in Nat
    BY WaitAssumption, Zenon
  <2>2. 0 \in 0..MaxNow
    BY <2>1
  <2> QED  BY <2>2, Zenon DEF WaitInit, WaitInv
<1>2. ASSUME WaitInv, IsWait(slot) \/ IsTimer(slot) PROVE Kept(slot) /\ slot # Idle
  <2>1. slot \in ReadSlot => slot.call = "cond_read" /\ "cond_read" \notin {"timer", "timerfd"}
    BY DEF ReadSlot
  <2> QED  BY <1>2, <2>1, Zenon DEF WaitInv, WaitGood, TimerGood, IsWait, IsTimer
<1>3. WaitInv => DeadlineKept
  BY <1>2, Zenon DEF DeadlineKept, Kept, IsTimer
<1>4. WaitInv /\ [WaitNext]_vars => WaitInv'
  BY WaitStep, Zenon
<1> QED
  BY <1>1, <1>3, <1>4, PTL DEF WaitSpec

\* What timer_gettime and timerfd_gettime report is the time left until the
\* moment the timer is due on the clock the program sees, whatever it asked for
\* and however often the timer has fired.
THEOREM RemainingTold == WaitSpec => []RemainingKept
<1>1. WaitInit => WaitInv
  <2>1. MaxNow \in Nat
    BY WaitAssumption, Zenon
  <2>2. 0 \in 0..MaxNow
    BY <2>1
  <2> QED  BY <2>2, Zenon DEF WaitInit, WaitInv
<1>2. WaitInv => RemainingKept
  <2> DEFINE N == conf.num
             D == conf.den
             hi == Value(MaxTime)
             c == slot.clk
             u == slot.until
             S == Value(Start[c])
             l == Value(u) - S - now
             L == RealLeft
             t == timer_gettime_common
             left == Value(t)
             end == now * N + left * Rate
             E == End(u, c)
             k == Slack(slot)
  <2>1. SUFFICES ASSUME WaitInv, IsTimer(slot), u # Never, ~Exempt(slot)
                 PROVE  /\ end <= slot.due + 2 * k
                        /\ slot.due <= end + 2 * k \/ slot.sat \/ left = hi
    BY Zenon DEF RemainingKept, Rate
  <2>2. slot \in TimerSlot /\ TimerGood(slot) /\ conf \in Conf /\ now \in 0..MaxNow
    <3>1. /\ slot \in WaitSlot => slot.call \notin {"timer", "timerfd"}
          /\ slot \in ReadSlot => slot.call \notin {"timer", "timerfd"}
      BY SMTT(60) DEF WaitSlot, WaitCall, ReadSlot
    <3> QED  BY <2>1, <3>1, ZenonT(60) DEF WaitInv, IsTimer
  <2>3. /\ c \in Kind /\ u \in Timespec /\ slot.unit = 1 /\ slot.lag = 0 /\ slot.resumes \in Nat
        /\ slot.due \in Int \cup {Never} /\ slot.call # "select"
    BY <2>1, <2>2 DEF TimerSlot
  <2>4. slot.due \in Int /\ 0 <= Value(u) /\ OnTime(slot)
    BY <2>1, <2>2, <2>3, Zenon DEF TimerGood, Kept
  <2>5. /\ N \in Nat \ {0} /\ D \in Nat \ {0} /\ (~conf.set => N = D)
        /\ (S + MaxNow) * N <= hi * D /\ now \in Nat /\ now <= MaxNow /\ MaxNow \in Nat
        /\ hi \in Int /\ Value(MinTime) = -hi - 1 /\ Value(MinTime) \in Int
    BY <2>2, <2>3, Settings, Zenon
  <2>6. c \in Clock
    BY <2>3, Zenon DEF Kind, Clock
  <2>7. Real(c) \in Timespec /\ Value(Real(c)) = S + now /\ S \in Nat /\ S + MaxNow < hi
    BY <2>2, <2>6, Settings, Zenon
  <2>8. Value(u) \in Int /\ Value(u) <= hi
    <3>1. /\ u.sec \in Int /\ u.nsec \in Int /\ SubSec \in Nat /\ SubSec > 0
          /\ u.sec <= MaxSec /\ u.nsec <= SubSec - 1 /\ MaxSec \in Int
      BY <2>3, TimeAssumption DEF Timespec, MinSec
    <3> HIDE DEF u
    <3>2. u.sec * SubSec <= MaxSec * SubSec /\ u.sec * SubSec \in Int /\ MaxSec * SubSec \in Int
      BY <3>1, Monotone, SMTT(60)
    <3> QED  BY <3>1, <3>2 DEF Value, MaxTime
  <2>9. L \in Timespec /\ Value(L) = l /\ l \in Int /\ -(S + MaxNow) <= l
    <3>1. L = timespecsub(u, Real(c))
      BY <2>1, Zenon DEF RealLeft
    <3>2. L \in Timespec /\ Value(L) = Clamped(Value(u) - Value(Real(c)))
      BY <2>3, <2>7, <3>1, SubClamped, ZenonT(60)
    <3>3. l \in Int /\ -(S + MaxNow) <= l /\ Value(u) - Value(Real(c)) = l /\ l <= hi /\ Value(MinTime) <= l
      BY <2>4, <2>5, <2>7, <2>8, SMTT(60)
    <3>4. Value(L) = l
      BY <2>5, <3>2, <3>3, SMTT(60) DEF Clamped
    <3> QED  BY <3>2, <3>3, <3>4
  <2> HIDE DEF N, D, hi, L
  <2>10. E = now * N + l * N /\ l * N \in Int /\ now * N \in Int
    <3>1. E = (Value(u) - S) * N /\ Value(u) - S = now + l
      BY <2>5, <2>7, <2>8, SMTT(60) DEF End, N
    <3>2. l \in Int /\ now \in Int /\ N \in Int
      BY <2>5, <2>9
    <3> HIDE DEF l
    <3> QED  BY <3>1, <3>2, Distribute, SMTT(60)
  <2>11. E - slot.due <= k /\ (-(E - slot.due) <= k \/ slot.sat)
    BY <2>4, Zenon DEF OnTime, End
  <2>12. k \in Int /\ N + D <= k
    <3> DEFINE q == N + D
               r == slot.resumes
    <3>1. k = q * 1 * (1 + r) + 0 * N + 0
      BY <2>3, ZenonT(60) DEF Slack, N, D
    <3>2. q \in Nat /\ r \in Nat /\ N \in Int
      BY <2>3, <2>5
    <3> HIDE DEF q, r
    <3>3. k = q + r * q /\ r * q \in Nat
      BY <3>1, <3>2
    <3> HIDE DEF k
    <3>4. k \in Int /\ q <= k
      BY <3>2, <3>3
    <3> QED  BY <3>4, Zenon DEF q
  \* The report is off by less than one unit of the fake clock.
  <2>13. /\ end \in Int /\ end <= E + D /\ (E <= end + D \/ left = hi)
    <3>1. CASE ~Faking
      <4>1. t = L /\ left = l
        BY <2>9, <3>1, Zenon DEF timer_gettime_common, L
      <4>2. Rate = N
        BY <2>5, <3>1, Zenon DEF Rate, Faking, N, D
      <4>3. end = E
        BY <2>10, <4>1, <4>2, ZenonT(60)
      <4> HIDE DEF end, E
      <4> QED  BY <2>5, <2>10, <4>3
    <3>2. CASE Faking
      <4>1. t = ToFake(L) /\ Rate = D
        BY <3>2, ZenonT(60) DEF timer_gettime_common, Rate, Faking, L, D
      <4>2. Value(MinTime) * D <= l * N
        <5>1. (-(S + MaxNow)) * N <= l * N /\ (-(S + MaxNow)) * N = -((S + MaxNow) * N) /\ (S + MaxNow) * N \in Int
          BY <2>5, <2>7, <2>9, Monotone, SMTT(60)
        <5>2. Value(MinTime) * D = -(hi * D) - D /\ hi * D \in Int
          BY <2>5
        <5> HIDE DEF S, l
        <5> QED  BY <2>5, <2>10, <5>1, <5>2, SMTT(60)
      <4>3. Rounded(L, t, N, D)
        BY <2>2, <2>9, <4>1, <4>2, Conversions, Zenon DEF N, D
      <4> HIDE DEF t
      <4>4. t \in Timespec /\ left * D < l * N + D /\ (l * N < left * D + D \/ left = hi)
        BY <2>9, <4>3, ZenonT(60) DEF Rounded, hi
      <4>5. left \in Int
        BY <4>4, TimeAssumption, SMTT(60) DEF Value, Timespec, MinSec
      <4>6. end = now * N + left * D /\ left * D \in Int
        BY <2>5, <4>1, <4>5, SMTT(60)
      <4> HIDE DEF end, E, l, left
      <4> QED  BY <2>5, <2>10, <4>4, <4>6
    <3> QED  BY <3>1, <3>2, ZenonT(60)
  <2>14. E \in Int
    BY <2>10, SMTT(60)
  <2> HIDE DEF end, E, k, left
  <2>15. end <= slot.due + 2 * k
    BY <2>4, <2>5, <2>11, <2>12, <2>13, <2>14
  <2>16. slot.due <= end + 2 * k \/ slot.sat \/ left = hi
    <3>1. CASE -(E - slot.due) <= k /\ E <= end + D
      BY <2>4, <2>5, <2>12, <2>13, <2>14, <3>1
    <3> QED  BY <2>11, <2>13, <3>1, ZenonT(60)
  <2> QED  BY <2>15, <2>16, Zenon
<1>3. WaitInv /\ [WaitNext]_vars => WaitInv'
  BY WaitStep, Zenon
<1> QED
  BY <1>1, <1>2, <1>3, PTL DEF WaitSpec
=============================================================================

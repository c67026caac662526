-------------------------------- MODULE Waits -------------------------------
(***************************************************************************)
(* The blocking calls of libfaketime.c.  A program asks for a length or a  *)
(* deadline on the clock it sees; the library hands the real function a    *)
(* length or a deadline on the real clock.  The module models what each    *)
(* call hands on, what an interrupted call reports as left, and the        *)
(* timers, for a process whose clock runs from Base at a rate num / den    *)
(* since the start times in Start.                                         *)
(*                                                                         *)
(* The calls share no state but the settings, so one slot holds the one    *)
(* call or timer under way.  A slot keeps, beside what the real function   *)
(* was given, the exact moment it is due: the elapsed real time at which   *)
(* the fake clock has advanced as the program asked, times num so that it  *)
(* is an integer.  The frozen clock is left out: no deadline on it has a   *)
(* moment.                                                                 *)
(***************************************************************************)
EXTENDS TimeOps

CONSTANTS
  Start,        \* ftpl_starttime: a timespec for "real", "mono" and "cpu"
  Base,         \* user_faked_time_timespec
  Rates,        \* the settings of the rate: set, num, den
  WaitMs,       \* the values of FAKETIME_WAIT_MS, Unset for none
  Unset,
  Lengths,      \* lengths asked for, in parts of a second, from 0 up
  Periods,      \* intervals of timers, in parts of a second
  Offsets,      \* deadlines asked for, in parts of a second from the start
  Timeouts,     \* counts of microseconds, milliseconds or seconds
  Micro,        \* parts of a second in a microsecond
  Milli,        \* parts of a second in a millisecond
  IntMax,       \* INT_MAX
  MaxNow,       \* bound on the elapsed real time
  MaxResumes,   \* bound on the times an interrupted call is resumed
  Never,        \* no deadline
  Idle          \* nothing under way

ASSUME WaitAssumption ==
  /\ \A c \in {"real", "mono", "cpu"} : Start[c] \in Timespec
  /\ Base \in Timespec
  /\ \A r \in Rates : r.num \in Nat \ {0} /\ r.den \in Nat \ {0}
  /\ MaxNow \in Nat

\* Only a length and the deadline MaxTime reach the end of time_t: the clocks
\* and what the rate makes of them stay inside for the time of a run, and a
\* deadline is not before the epoch, on the fake clock or converted (the
\* kernel refuses a negative one).  A rate that is not set is 1.
ASSUME RangeAssumption ==
  LET max == Value(MaxTime)
  IN  /\ \A c \in {"real", "mono", "cpu"} :
           /\ 0 <= Value(Start[c]) /\ Value(Start[c]) + MaxNow < max
           /\ \A o \in Offsets : /\ Value(MinTime) <= Value(Start[c]) + o
                                 /\ Value(Start[c]) + o <= max
      /\ \A r \in Rates :
           /\ r.set \in BOOLEAN /\ (~r.set => r.num = r.den)
           /\ Value(Base) * r.den + MaxNow * r.num <= max * r.den
           /\ \A c \in {"real", "mono"} :
                /\ (Value(Start[c]) + MaxNow) * r.num <= max * r.den
                /\ \A o \in Offsets : 0 <= Value(Start[c]) * r.num + o * r.den
      /\ 0 <= Value(Base) /\ Offsets \subseteq Int
      /\ \A o \in Offsets :
           /\ 0 <= Value(Base) + o /\ Value(Base) + o <= max
           /\ 0 <= Value(Start["real"]) + o /\ 0 <= Value(Start["mono"]) + o
      /\ Lengths \subseteq 0..max /\ Periods \subseteq 0..max
      /\ Timeouts \subseteq Int /\ \A u \in Timeouts : u <= IntMax /\ u <= MaxSec
      /\ {IntMax, Micro, Milli} \subseteq Nat \ {0}
      /\ (SubSec \div Micro) * Micro = SubSec
      /\ Micro <= Value(Start["real"])
      /\ Value(Start["real"]) + MaxNow + IntMax * Milli < max
      /\ WaitMs \ {Unset} \subseteq Nat
      /\ Never \notin Timespec /\ Never \notin Int

VARIABLES
  conf,         \* user_rate_set and user_rate, fake_monotonic_clock,
                \* dont_fake of this thread, FAKETIME_WAIT_MS
  now,          \* elapsed real time, in parts of a second
  slot          \* the call or timer under way

vars == <<conf, now, slot>>

Clock == {"real", "mono", "cpu"}
Conf == {[set |-> r.set, num |-> r.num, den |-> r.den, fake_monotonic |-> m,
          dont_fake |-> d, wait_ms |-> w] :
            r \in Rates, m \in BOOLEAN, d \in BOOLEAN, w \in WaitMs}

-----------------------------------------------------------------------------
(* Clocks *)

\* The real clock c.
Real(c) == Split(Value(Start[c]) + now)

\* user_rate_set && !dont_fake
Faking == conf.set /\ ~conf.dont_fake

ToReal(t) == IF conf.set THEN timespecmul(t, conf.den, conf.num) ELSE t
ToFake(t) == IF conf.set THEN timespecmul(t, conf.num, conf.den) ELSE t
Scaled(t) == IF Faking THEN timespecmul(t, conf.den, conf.num) ELSE t

fake_clock_gettime(c, tp) ==
  IF conf.dont_fake THEN tp
  ELSE timespecadd(Base, ToFake(timespecsub(tp, Start[c])))

\* The clocks the program sees faked.
Faked(c) ==
  ~conf.dont_fake /\ (c = "real" \/ (c = "mono" /\ conf.fake_monotonic))

\* Deadlines a program computes from the clock it sees.
Deadline(c) ==
  {Split(Value(IF Faked(c) THEN Base ELSE Start[c]) + o) : o \in Offsets} \union {MaxTime}

\* The moment the clock the program sees reaches t, and the one at which v
\* parts of a second have passed on the fake clock.
Due(c, t) ==
  IF Faked(c) THEN (Value(t) - Value(Base)) * conf.den
  ELSE (Value(t) - Value(Start[c])) * conf.num
DueIn(v) ==
  now * conf.num + v * (IF conf.dont_fake THEN conf.num ELSE conf.den)
DueInReal(v) == (now + v) * conf.num

-----------------------------------------------------------------------------
(* Calls with a length *)

\* The real function is given the deadline until on clock c; unit is the
\* grain of the call in parts of a second.
Wait(call, c, until, due, unit) ==
  [call |-> call, clk |-> c, until |-> until, due |-> due, unit |-> unit,
   sat |-> until = MaxTime, resumes |-> 0, lag |-> 0]

Block(w) ==
  /\ slot = Idle
  /\ slot' = w
  /\ UNCHANGED <<conf, now>>

Sleep(call, v, handed, unit) ==
  Wait(call, "real", timespecadd(Real("real"), handed), DueIn(v), unit)

nanosleep ==
  \E v \in Lengths : Block(Sleep("nanosleep", v, Scaled(Split(v)), 1))

usleep ==
  \E u \in Timeouts :
    LET perSec == SubSec \div Micro
        req == [sec |-> u \div perSec, nsec |-> (u % perSec) * Micro]
    IN  u >= 0 /\ Block(Sleep("usleep", u * Micro, Scaled(req), 1))

sleep ==
  \E s \in Timeouts :
    s >= 0 /\ Block(Sleep("sleep", s * SubSec, Scaled([sec |-> s, nsec |-> 0]), 1))

\* alarm(0) cancels: a length that is rounded to nothing never ends.
alarm ==
  \E s \in Timeouts :
    LET seconds_real == IF Faking THEN Quot(s * conf.den, conf.num) ELSE s
    IN  /\ s > 0
        /\ Block(IF seconds_real = 0 THEN Wait("alarm", "real", Never, DueIn(s * SubSec), SubSec)
                 ELSE Sleep("alarm", s * SubSec, [sec |-> seconds_real, nsec |-> 0], SubSec))

ppoll ==
  \E v \in Lengths : Block(Sleep("ppoll", v, IF v > 0 THEN Scaled(Split(v)) ELSE Split(v), 1))
pselect ==
  \E v \in Lengths : Block(Sleep("pselect", v, IF v > 0 THEN Scaled(Split(v)) ELSE Split(v), 1))

scale_timeout_milliseconds(timeout) ==
  LET scaled == timeout * conf.den
      ceil == Quot(scaled, conf.num) + (IF Rem(scaled, conf.num) > 0 THEN 1 ELSE 0)
  IN  IF timeout <= 0 \/ ~Faking THEN timeout
      ELSE IF ceil >= IntMax THEN IntMax
      ELSE IF ceil < 1 THEN 1
      ELSE ceil

\* A negative timeout waits for ever.
Poll(call) ==
  \E ms \in Timeouts :
    LET real_timeout == scale_timeout_milliseconds(ms)
    IN  Block(IF ms < 0 THEN Wait(call, "real", Never, Never, Milli)
              ELSE [Sleep(call, ms * Milli, Split(real_timeout * Milli), Milli)
                      EXCEPT !.sat = real_timeout = IntMax])

epoll_wait == Poll("epoll_wait")
epoll_pwait == Poll("epoll_pwait")
poll == Poll("poll")

\* A timeval keeps whole microseconds.
ToMicro(t) == [sec |-> t.sec, nsec |-> (t.nsec \div Micro) * Micro]

select ==
  \E u \in Timeouts :
    LET tv == Split(u * Micro)
    IN  /\ u >= 0
        /\ Block(Sleep("select", u * Micro, IF u > 0 THEN ToMicro(Scaled(tv)) ELSE tv, Micro))

-----------------------------------------------------------------------------
(* Calls with a length or a deadline on a given clock *)

\* clock_nanosleep with TIMER_ABSTIME, in the wrapper and in syscall().
\* Mutant: the monotonic deadline is put on the start of the real clock.
SleepUntil_real(c, req) ==
  LET tdiff == ToReal(timespecsub(req, Base))
  IN  IF c = "real" \/ (c = "mono" /\ conf.fake_monotonic)
      THEN timespecadd(Start["real"], tdiff)
      ELSE req

SleepUntil(c, req) ==
  LET tdiff == ToReal(timespecsub(req, Base))
  IN  IF c = "real" \/ (c = "mono" /\ conf.fake_monotonic)
      THEN timespecadd(Start[c], tdiff)
      ELSE req

\* Without it: CPU clocks are left alone.
SleepFor(c, req) == IF c = "cpu" THEN req ELSE Scaled(req)

NanosleepOn(call) ==
  \E c \in Clock :
    \/ \E v \in Lengths :
         Block(Wait(call, c, timespecadd(Real(c), SleepFor(c, Split(v))),
                    IF c = "cpu" THEN DueInReal(v) ELSE DueIn(v), 1))
    \/ \E req \in Deadline(c) :
         Block(Wait(IF call = "syscall" THEN "syscall_abs" ELSE "clock_nanosleep_abs",
                    c, SleepUntil(c, req), Due(c, req), 1))

clock_nanosleep == NanosleepOn("clock_nanosleep")
syscall_clock_nanosleep == NanosleepOn("syscall")

sem_timedwait ==
  \E abs_timeout \in Deadline("real") :
    LET tdiff == timespecsub(abs_timeout, Base)
        timeadj == ToFake(tdiff)
    IN  Block(Wait("sem_timedwait", "real",
                   IF conf.dont_fake THEN abs_timeout ELSE timespecadd(Start["real"], timeadj),
                   Due("real", abs_timeout), 1))

sem_clockwait ==
  \E c \in Clock : \E abstime \in Deadline(c) :
    LET from == IF c = "mono" THEN fake_clock_gettime(c, Real(c)) ELSE Base
        timeadj == ToReal(timespecsub(abstime, from))
    IN  Block(Wait("sem_clockwait", c,
                   IF (c = "mono" /\ ~conf.fake_monotonic) \/ c = "cpu" \/ conf.dont_fake
                   THEN abstime ELSE timespecadd(Start[c], timeadj),
                   Due(c, abstime), 1))

-----------------------------------------------------------------------------
(* Condition variables and futexes, which read the clock first *)

\* pthread_cond_timedwait reads the clock of the condition variable once
\* and derives the fake time from that reading, ...
CondRead ==
  \E c \in {"real", "mono"} : \E abstime \in Deadline(c) :
    LET faketime == IF c = "mono" /\ ~conf.fake_monotonic THEN Real(c)
                    ELSE fake_clock_gettime(c, Real(c))
    IN  Block([call |-> "cond_read", clk |-> c, abstime |-> abstime,
               realtime |-> Real(c), faketime |-> faketime])

\* ... then waits: a monotonic clock that is not faked is read again, and so
\* is any clock when FAKETIME_WAIT_MS gives the length.
pthread_cond_timedwait ==
  /\ slot # Idle /\ slot.call = "cond_read"
  /\ LET c == slot.clk
         unfaked == c = "mono" /\ ~conf.fake_monotonic
         tdiff_actual == IF conf.wait_ms # Unset THEN Split(conf.wait_ms * Milli)
                         ELSE ToReal(timespecsub(slot.abstime, slot.faketime))
         from == IF unfaked \/ conf.wait_ms # Unset THEN Real(c) ELSE slot.realtime
     IN  slot' = [Wait("cond", c, timespecadd(from, tdiff_actual),
                       IF conf.wait_ms # Unset THEN DueInReal(conf.wait_ms * Milli)
                       ELSE Due(c, slot.abstime), 1)
                    EXCEPT !.lag = IF unfaked THEN now - (Value(slot.realtime) - Value(Start[c]))
                                   ELSE 0]
  /\ UNCHANGED <<conf, now>>

\* make_futex_syscall: nothing negative is handed on.
NotNegative(t) ==
  [sec |-> IF t.sec < 0 THEN 0 ELSE t.sec, nsec |-> IF t.nsec < 0 THEN 0 ELSE t.nsec]

\* FUTEX_WAIT_BITSET shifts the deadline by the difference of the clocks,
\* FUTEX_WAIT scales its length, other commands pass through.
futex ==
  \/ \E c \in {"real", "mono"} : \E timeout \in Deadline(c) :
       LET time_diff == timespecsub(fake_clock_gettime(c, Real(c)), Real(c))
       IN  \/ Block(Wait("futex_bitset", c, NotNegative(timespecsub(timeout, time_diff)),
                         Due(c, timeout), 1))
           \/ Block(Wait("futex_other", c, timeout, Due(c, timeout), 1))
  \/ \E v \in Lengths : Block(Sleep("futex_wait", v, NotNegative(Scaled(Split(v))), 1))

-----------------------------------------------------------------------------
(* Timers *)

\* timer_settime_common hands on a value and an interval; a value of zero
\* disarms.  POSIX timers are converted as timers of the real clock whatever
\* clock they run on; a timerfd as its own clock.
timer_settime_value(c, abs, value) ==
  IF conf.dont_fake \/ Value(value) = 0 THEN value
  ELSE IF ~abs THEN ToReal(value)
  ELSE IF c = "mono" /\ ~conf.fake_monotonic THEN value
  ELSE timespecadd(Start[c], ToReal(timespecsub(value, normalize_timespec_value(Base))))

timer_settime_interval(interval) ==
  IF conf.dont_fake THEN interval ELSE ToReal(interval)

\* A timer on clock c that the library takes for one on clock believed.
Timer(call, c, believed, abs, value, interval) ==
  LET it_value == timer_settime_value(believed, abs, value)
      it_interval == timer_settime_interval(interval)
      until == IF Value(it_value) = 0 THEN Never
               ELSE IF abs THEN it_value ELSE timespecadd(Real(c), it_value)
  IN  [call |-> call, clk |-> c, until |-> until,
       due |-> IF Value(value) = 0 THEN Never
               ELSE IF abs THEN Due(c, value) ELSE DueIn(Value(value)),
       unit |-> 1, sat |-> until = MaxTime, resumes |-> 0, lag |-> 0,
       interval |-> it_interval, period |-> Value(interval), abs |-> abs]

SetTimer(call, c, believed) ==
  \E p \in Periods :
    \/ \E v \in Lengths : Block(Timer(call, c, believed, FALSE, Split(v), Split(p)))
    \/ \E t \in Deadline(c) : Block(Timer(call, c, believed, TRUE, t, Split(p)))

timer_settime == \E c \in {"real", "mono"} : SetTimer("timer", c, "real")
timerfd_settime == \E c \in {"real", "mono"} : SetTimer("timerfd", c, c)

IsTimer(s) == s # Idle /\ s.call \in {"timer", "timerfd"}

\* The kernel: what is left until a timer fires.
RealLeft == IF slot.until = Never THEN Split(0) ELSE timespecsub(slot.until, Real(slot.clk))

\* Mutant: the time left is reported as the kernel gives it.
timer_gettime_common_raw == RealLeft

timer_gettime_common == IF Faking THEN ToFake(RealLeft) ELSE RealLeft

-----------------------------------------------------------------------------
(* Time and the end of a call *)

Tick ==
  /\ now < MaxNow
  /\ now' = now + 1
  /\ UNCHANGED <<conf, slot>>

IsWait(s) == s # Idle /\ s.call # "cond_read" /\ ~IsTimer(s)

Reached == slot.until # Never /\ Value(slot.until) <= Value(Real(slot.clk))

\* The real function times out, or returns for another reason: the wait ends.
Return ==
  /\ IsWait(slot)
  /\ slot' = Idle
  /\ UNCHANGED <<conf, now>>

\* A woken FUTEX_WAIT_BITSET asks the fake clock about a reading it never
\* took, so it may return or wait again until anything.
FutexWoken ==
  /\ IsWait(slot) /\ slot.call = "futex_bitset" /\ ~Reached
  /\ slot' \in {[slot EXCEPT !.call = "futex_again", !.until = t] :
                  t \in {Real(slot.clk), slot.until, MaxTime}}
  /\ UNCHANGED <<conf, now>>

\* A signal ends a call that reports what is left, and the program calls
\* again with that.  nanosleep and the system call return before they scale
\* it, clock_nanosleep scales it for every clock, select whenever there is
\* a rate.
Resume ==
  /\ IsWait(slot) /\ slot.call \in {"nanosleep", "syscall", "clock_nanosleep", "select"}
  /\ slot.resumes < MaxResumes /\ ~Reached
  /\ LET left == CASE slot.call = "select" -> ToMicro(ToFake(ToMicro(RealLeft)))
                   [] slot.call = "clock_nanosleep" /\ Faking -> ToFake(RealLeft)
                   [] OTHER -> RealLeft
         handed == CASE slot.call = "select" -> ToMicro(Scaled(left))
                     [] slot.call = "nanosleep" -> Scaled(left)
                     [] OTHER -> SleepFor(slot.clk, left)
     IN  slot' = [slot EXCEPT !.until = timespecadd(Real(slot.clk), handed),
                              !.resumes = @ + 1]
  /\ UNCHANGED <<conf, now>>

\* The kernel: a timer fires and is set again by its interval, or once.
Fire ==
  /\ IsTimer(slot) /\ Reached
  /\ slot' = IF Value(slot.interval) = 0 THEN Idle
             ELSE [slot EXCEPT !.until = timespecadd(@, slot.interval),
                               !.due = @ + slot.period * (IF conf.dont_fake THEN conf.num ELSE conf.den),
                               !.sat = timespecadd(slot.until, slot.interval) = MaxTime,
                               !.resumes = @ + 1]
  /\ UNCHANGED <<conf, now>>

Disarm ==
  /\ IsTimer(slot)
  /\ slot' = Idle
  /\ UNCHANGED <<conf, now>>

WaitInit ==
  /\ conf \in Conf
  /\ now = 0
  /\ slot = Idle

WaitNext ==
  \/ nanosleep \/ clock_nanosleep \/ syscall_clock_nanosleep \/ usleep \/ sleep
  \/ alarm \/ ppoll \/ epoll_wait \/ epoll_pwait \/ poll \/ select \/ pselect
  \/ sem_timedwait \/ sem_clockwait \/ CondRead \/ pthread_cond_timedwait
  \/ futex \/ FutexWoken \/ timer_settime \/ timerfd_settime
  \/ Tick \/ Return \/ Resume \/ Fire \/ Disarm

WaitSpec == WaitInit /\ [][WaitNext]_vars

-----------------------------------------------------------------------------
(* Properties *)

\* The error of rounding: one unit of the real clock and one of the fake
\* clock for each conversion, one more of the real clock each time select is
\* resumed, whose remaining time the kernel rounds too, and the time lost
\* between two readings.
Slack(s) ==
  (conf.num + conf.den) * s.unit * (1 + s.resumes) + s.lag * conf.num
    + (IF s.call = "select" THEN conf.num * s.unit * s.resumes ELSE 0)

\* Calls that are known not to keep their deadline.
Exempt(s) ==
  \* Lines 2632 and 2719: the rate is not inverted, and what is left from
  \* now is added to the start.
  \/ s.call = "sem_timedwait" /\ Faking
  \/ s.call = "sem_clockwait" /\ s.clk = "mono" /\ Faked("mono")
  \* Line 2386: a length shorter than a second cancels the alarm.
  \/ s.call = "alarm" /\ s.until = Never /\ Faking
  \* Lines 2159 and 5803: what is left is not scaled; line 2249: it is
  \* scaled for the CPU clock, which is not; line 2554: it is scaled in a
  \* thread that fakes nothing.
  \/ s.call \in {"nanosleep", "syscall"} /\ s.resumes > 0 /\ Faking
  \/ s.call = "clock_nanosleep" /\ s.clk = "cpu" /\ s.resumes > 0 /\ Faking
  \/ s.call = "select" /\ s.resumes > 0 /\ conf.set /\ conf.dont_fake
  \* Line 2193: a deadline is converted in a thread that fakes nothing.
  \/ s.call \in {"clock_nanosleep_abs", "syscall_abs"} /\ conf.dont_fake
  \* Line 5223: so is the rate of a condition variable, and that of one on
  \* a monotonic clock that is not faked.
  \/ s.call = "cond" /\ conf.set /\ conf.wait_ms = Unset /\ ~Faked(s.clk)
  \* Line 5636: the deadline is shifted and not scaled, and for a monotonic
  \* clock that is not faked as well; lines 5643 to 5676 and 5695.
  \/ s.call = "futex_bitset" /\ (Faking \/ (s.clk = "mono" /\ ~conf.fake_monotonic))
  \/ s.call \in {"futex_again", "futex_other"}
  \* Lines 3103 and 3126: a POSIX timer on the monotonic clock is converted as one on
  \* the real clock.
  \/ s.call = "timer" /\ s.clk = "mono" /\ s.abs

\* The real deadline is off by less than the rounding, or is the largest the
\* call can express and not late.
OnTime(s) ==
  LET off == (Value(s.until) - Value(Start[s.clk])) * conf.num - s.due
  IN  off <= Slack(s) /\ (-off <= Slack(s) \/ s.sat)

WaitTypeOK ==
  /\ conf \in Conf
  /\ now \in 0..MaxNow
  /\ slot # Idle =>
       /\ slot.clk \in Clock
       /\ slot.call = "cond_read" => {slot.abstime, slot.realtime, slot.faketime} \subseteq Timespec
       /\ slot.call # "cond_read" => slot.until \in Timespec \union {Never}

\* A call that blocks ends when the clock the program sees has advanced as
\* it asked, and one that asks for no end has none: nanosleep,
\* clock_nanosleep, usleep, sleep, alarm, ppoll, poll, epoll_wait,
\* epoll_pwait, select, pselect, sem_timedwait, sem_clockwait,
\* pthread_cond_timedwait, futex, and every expiry of a timer, with the
\* exceptions of Exempt.  A signal and a new call with what was reported as
\* left do not change the end of clock_nanosleep and of select.
DeadlineKept ==
  IsWait(slot) \/ IsTimer(slot) =>
    \/ Exempt(slot)
    \/ slot.until = Never /\ slot.due = Never
    \/ slot.until # Never /\ slot.due # Never /\ OnTime(slot)
    \/ IsTimer(slot) /\ slot.until = Never /\ slot.due <= now * conf.num + Slack(slot)

\* What timer_gettime and timerfd_gettime report as left, on the fake clock,
\* is the time until the moment the timer is due, whatever was asked for and
\* however often the timer has fired.
RemainingKept ==
  IsTimer(slot) /\ slot.until # Never =>
    LET left == Value(timer_gettime_common)
        end == now * conf.num + left * (IF conf.dont_fake THEN conf.num ELSE conf.den)
    IN  \/ Exempt(slot)
        \/ /\ end <= slot.due + 2 * Slack(slot)
           /\ slot.due <= end + 2 * Slack(slot) \/ slot.sat \/ left = Value(MaxTime)
=============================================================================

------------------------------ MODULE FakeClock ------------------------------
(***************************************************************************)
(* What time it is for a process under libfaketime: how the FAKETIME       *)
(* setting is read, cached, parsed and applied by fake_clock_gettime(),    *)
(* and how the setting changes under a running process: the user edits the *)
(* timestamp file or touches the follow file, and a process sets the time  *)
(* with clock_settime(), settimeofday() or adjtime().                      *)
(*                                                                         *)
(* A call is one step here; what happens between the steps of concurrent   *)
(* calls is the subject of SharedClock.  Times are whole seconds, and -1   *)
(* is the unset timespec {0, -1}, a hair below 0 when it is computed with. *)
(* A setting is the string in FAKETIME or in the timestamp file, as the    *)
(* parts that parse_ft_string() takes from it:                             *)
(*   kind "absolute"  2020-01-01 ...     n the time                        *)
(*        "offset"    +n or -n           n the offset                      *)
(*        "at"        @2020-01-01 ...    n the time                        *)
(*        "follow"    %                                                    *)
(*        "mods"      modifiers only                                       *)
(*        "empty"     the empty string                                     *)
(*   x, i  the number after an x or i modifier, 0 if there is none         *)
(***************************************************************************)
EXTENDS Integers, FiniteSets

CONSTANTS
  Proc,           \* process identities
  Root,           \* the process that starts the session
  Clock,          \* the clocks in use, "real" among them
  Boot,           \* what each clock shows at instant 0
  NoSetting,      \* no FAKETIME in the environment, no timestamp file
  FirstEnv,       \* the settings FAKETIME may have in the session's environment
  FirstFile,      \* the contents the timestamp file may have at first
  Edits,          \* the contents that the user may give the timestamp file later
  FileTimes,      \* the timestamps of the files that processes stat()
  SetTimes,       \* the times that processes set, and by how much they adjust it
  CacheDuration,  \* FAKETIME_CACHE_DURATION, or -1 for FAKETIME_NO_CACHE
  XReset,         \* FAKETIME_XRESET is set
  DontReset,      \* FAKETIME_DONT_RESET is set
  FollowAbsolute, \* FAKETIME_FOLLOW_ABSOLUTE is set
  UpdateFile,     \* FAKETIME_UPDATE_TIMESTAMP_FILE is 1
  FakeUtime,      \* the processes started with FAKE_UTIME=1: fake_utime_disabled is 0
  MaxNow,         \* bound on the instants
  MaxChanges,     \* bound on how often somebody edits, touches or stamps a file, or sets the time
  MaxTicks        \* bound on the tick counter

Setting == [kind : {"absolute", "offset", "at", "follow", "mods", "empty"},
            n : Int, x : Nat, i : Nat]

ASSUME ProcAssumption == Root \in Proc /\ FakeUtime \subseteq Proc
ASSUME ClockAssumption == "real" \in Clock /\ Boot \in [Clock -> Nat]
ASSUME SettingAssumption ==
  /\ FirstEnv \cup FirstFile \cup Edits \subseteq Setting \cup {NoSetting}
  /\ NoSetting \notin Setting
  /\ FileTimes \subseteq Nat
  /\ SetTimes \subseteq Nat
ASSUME OptionAssumption ==
  /\ {XReset, DontReset, FollowAbsolute, UpdateFile} \subseteq BOOLEAN
  /\ CacheDuration \in Nat \cup {-1}
  /\ MaxNow \in Nat /\ MaxChanges \in Nat /\ MaxTicks \in Nat

VARIABLES
  now,          \* seconds since the system booted; every system clock follows it
  file,         \* the contents of FAKETIME_TIMESTAMP_FILE
  mtime,        \* the timestamp of FAKETIME_FOLLOW_FILE
  stamp,        \* the timestamp of a file whose times the processes set: as it is
                \* stored and, if it was faked, as it was asked for and under which setting
  start_time,   \* ft_shared->start_time_*
  ticks,        \* ft_shared->ticks
  lib,          \* the static variables of the library in each process
  \* What the properties speak about.
  changed,      \* when the timestamp file last changed
  changes,      \* how often somebody changed a file or set the time
  last,         \* the last answer each process got from each clock
  set           \* the last time each process set, and when

vars == <<now, file, mtime, stamp, start_time, ticks, lib, changed, changes, last, set>>

Unset == -1
Empty == [kind |-> "empty", n |-> 0, x |-> 0, i |-> 0]
Default == [kind |-> "offset", n |-> 0, x |-> 0, i |-> 0]

\* system_time_from_system()
SystemTime == [c \in Clock |-> now + Boot[c]]
NoTime     == [c \in Clock |-> Unset]

\* The library as it is loaded, in a process whose environment holds e.
Loaded(e) ==
  [state |-> "up",                  \* "up", "writing" the timestamp file, "off" or "exited"
   env |-> e,                       \* FAKETIME
   parse_config_file |-> TRUE,
   saved |-> Empty,                 \* user_faked_time_saved
   ft_mode |-> "freeze",
   base |-> Unset,                  \* user_faked_time_timespec
   base_set |-> FALSE,              \* user_faked_time_set
   offset |-> 0,                    \* user_offset, a hair below 0 when unset
   user_rate |-> 1,                 \* 1 too when user_rate_set is false
   inc |-> 0,                       \* user_per_tick_inc
   inc_set |-> FALSE,               \* user_per_tick_inc_set
   start |-> NoTime,                \* ftpl_starttime
   timecache |-> NoTime,            \* ftpl_timecache
   faketimecache |-> NoTime,        \* ftpl_faketimecache
   last_data_fetch |-> 0,
   force |-> FALSE]                 \* force_cache_expiration

Off == [Loaded(NoSetting) EXCEPT !.state = "off"]

Never   == [ans |-> Unset, same |-> FALSE]
NotSet  == [time |-> Unset, at |-> 0]
-----------------------------------------------------------------------------
(* parse_ft_string() and what it calls, on the static variables l *)

\* Does parsing s make l a different clock?  The same string is not parsed again.
Parses(l, s) == s # l.saved \/ s.kind = "follow"

\* Does parsing s call reset_time()?
Resets(l, s) == Parses(l, s) /\ s.kind \in {"at", "follow"} /\ ~DontReset

reset_time(l) == IF DontReset THEN l ELSE [l EXCEPT !.start = SystemTime]

\* FAKETIME_XRESET: carry on from the last answer, at the new rate.
xreset(l) ==
  IF XReset /\ l.timecache["real"] >= 0
    THEN [l EXCEPT !.base = l.faketimecache["real"], !.start = l.timecache]
    ELSE l

\* Mutant: the rate is taken without looking for an x.
parse_modifiers_always(l, s) ==
  LET r == xreset([l EXCEPT !.user_rate = s.x])
  IN  IF s.i > 0 THEN [r EXCEPT !.inc = s.i, !.inc_set = TRUE] ELSE r

parse_modifiers(l, s) ==
  IF s.x > 0 THEN xreset([l EXCEPT !.user_rate = s.x])
  ELSE IF s.i > 0 THEN [l EXCEPT !.inc = s.i, !.inc_set = TRUE]
  ELSE l

parse_absolute(l, s) ==
  parse_modifiers([l EXCEPT !.ft_mode = "freeze", !.base = s.n, !.base_set = TRUE], s)

\* Mutant: only the base takes the offset.
parse_offset_once(l, s) ==
  parse_modifiers([l EXCEPT !.ft_mode = "start_at", !.base = l.start["real"] + s.n], s)

parse_offset(l, s) ==
  parse_modifiers([l EXCEPT !.ft_mode = "start_at", !.offset = s.n,
                            !.base = l.start["real"] + s.n], s)

parse_at(l, s) ==
  parse_modifiers(reset_time([l EXCEPT !.ft_mode = "start_at", !.base = s.n]), s)

\* Mutant: FAKETIME_FOLLOW_ABSOLUTE does not freeze the clock.
parse_follow_coasting(l, s) ==
  parse_modifiers(reset_time([l EXCEPT !.ft_mode = "start_at", !.base = mtime]), s)

parse_follow(l, s) ==
  LET f == reset_time([l EXCEPT !.ft_mode = IF FollowAbsolute THEN "freeze" ELSE "start_at",
                                !.base = mtime,
                                !.base_set = @ \/ FollowAbsolute])
  IN  IF f.base_set THEN f ELSE parse_modifiers(f, s)

parse_ft_string(l, s) ==
  IF ~Parses(l, s) THEN l
  ELSE [ CASE s.kind = "absolute" -> parse_absolute(l, s)
           [] s.kind = "offset"   -> parse_offset(l, s)
           [] s.kind = "at"       -> parse_at(l, s)
           [] s.kind = "follow"   -> parse_follow(l, s)
           [] s.kind = "mods"     -> parse_modifiers(l, s)
           [] s.kind = "empty"    -> [l EXCEPT !.state = "exited"]
         EXCEPT !.saved = s ]
-----------------------------------------------------------------------------
(* fake_clock_gettime() *)

\* Mutant: the cache is kept a second too long.
cache_expired_late(l) ==
  \/ l.last_data_fetch = 0
  \/ SystemTime["real"] - l.last_data_fetch > CacheDuration + 1
  \/ CacheDuration = -1
  \/ l.force

cache_expired(l) ==
  \/ l.last_data_fetch = 0
  \/ SystemTime["real"] - l.last_data_fetch > CacheDuration
  \/ CacheDuration = -1
  \/ l.force

\* The string that a process reads its setting from when its cache expires.
Source(l) ==
  IF l.parse_config_file /\ file # NoSetting THEN file
  ELSE IF l.env # NoSetting THEN l.env
  ELSE Default

\* The setting is fetched, if it is time to.
Fetched(l) ==
  IF cache_expired(l)
    THEN [parse_ft_string(l, Source(l)) EXCEPT !.last_data_fetch = SystemTime["real"],
                                               !.force = FALSE]
    ELSE l

\* The shared start time after that: reset_time() stores it.
FetchedStart(l) ==
  IF cache_expired(l) /\ Resets(l, Source(l)) THEN SystemTime ELSE start_time

\* next_time() is called.
Ticks(l) == l.ft_mode = "start_at" /\ l.inc_set

\* The faked time for instant tp of clock c, when the tick counter is at k.
Faked(l, c, tp, k) ==
  IF l.ft_mode = "freeze" THEN IF l.base_set THEN l.base ELSE tp
  ELSE IF l.inc_set THEN l.base + l.inc * k
  ELSE l.base + (tp - l.start[c]) * l.user_rate

\* The last real and faked times are remembered; xreset alone reads them, so
\* they are not kept without FAKETIME_XRESET.
Cached(l, c, tp, ans) ==
  IF XReset THEN [l EXCEPT !.timecache[c] = tp, !.faketimecache[c] = ans] ELSE l

\* The history of a call that leaves the static variables of p as l: answers
\* under an earlier setting are remembered as such for NoJumpBack only.
Remember(p, l) ==
  IF ~Parses(lib[p], l.saved) THEN last[p]
  ELSE IF XReset THEN [c \in Clock |-> [last[p][c] EXCEPT !.same = FALSE]]
  ELSE [c \in Clock |-> Never]

\* A call that fetches an empty file exits the process in parse_ft_string().
Exits(p) == Fetched(lib[p]).state = "exited"

Exit(p) ==
  /\ lib[p].state = "up" /\ Exits(p)
  /\ lib' = [lib EXCEPT ![p].state = "exited"]
  /\ UNCHANGED <<now, file, mtime, stamp, start_time, ticks, changed, changes, last, set>>

\* clock_gettime(c), and the getters that call fake_clock_gettime() like it.
GetTime(p, c) ==
  LET l   == Fetched(lib[p])
      tp  == SystemTime[c]
      ans == Faked(l, c, tp, ticks)
  IN  /\ lib[p].state = "up" /\ l.state # "exited"
      /\ Ticks(l) => ticks < MaxTicks
      /\ lib' = [lib EXCEPT ![p] = Cached(l, c, tp, ans)]
      /\ ticks' = IF Ticks(l) THEN ticks + 1 ELSE ticks
      /\ start_time' = FetchedStart(lib[p])
      /\ last' = [last EXCEPT ![p] = [Remember(p, l) EXCEPT ![c] = [ans |-> ans, same |-> TRUE]]]
      /\ UNCHANGED <<now, file, mtime, stamp, changed, changes, set>>

\* Mutant: unlock_for_stat() does not restore user_per_tick_inc_set.
Stat_norestore(p, tp) ==
  LET l == Fetched([lib[p] EXCEPT !.inc_set = FALSE])
  IN  /\ lib[p].state = "up" /\ l.state # "exited"
      /\ Ticks(l) => ticks + 2 < MaxTicks
      /\ lib' = [lib EXCEPT ![p] = Cached(l, "real", tp, Faked(l, "real", tp, ticks + 2))]
      /\ ticks' = IF Ticks(l) THEN ticks + 3 ELSE ticks
      /\ start_time' = FetchedStart(lib[p])
      /\ last' = [last EXCEPT ![p] = Remember(p, l)]
      /\ UNCHANGED <<now, file, mtime, stamp, changed, changes, set>>

\* stat(): the file's timestamps go through fake_clock_gettime() as well, with
\* user_per_tick_inc_set off.  A file's three timestamps are the same here.
Stat(p, tp) ==
  LET l   == Fetched([lib[p] EXCEPT !.inc_set = FALSE])
      off == [l EXCEPT !.inc_set = lib[p].inc_set]
  IN  /\ lib[p].state = "up" /\ l.state # "exited"
      /\ Ticks(l) => ticks + 2 < MaxTicks
      /\ lib' = [lib EXCEPT ![p] = Cached(off, "real", tp, Faked(l, "real", tp, ticks + 2))]
      /\ ticks' = IF Ticks(l) THEN ticks + 3 ELSE ticks
      /\ start_time' = FetchedStart(lib[p])
      /\ last' = [last EXCEPT ![p] = Remember(p, l)]
      /\ UNCHANGED <<now, file, mtime, stamp, changed, changes, set>>
\* utime(), utimes(), utimensat() and futimens() with a time: the offset is
\* taken off as it was parsed last, or the time is left alone; the setting is
\* not fetched.
Utime(p, t) ==
  /\ lib[p].state = "up"
  /\ stamp' = IF p \in FakeUtime
                THEN [stored |-> t - lib[p].offset, asked |-> t, saved |-> lib[p].saved]
                ELSE [stored |-> t, asked |-> Unset, saved |-> Empty]
  /\ changes < MaxChanges /\ changes' = changes + 1
  /\ UNCHANGED <<now, file, mtime, start_time, ticks, lib, changed, last, set>>

\* The same without a time or with UTIME_NOW: the system's present or, where
\* times are left alone, the faked one.
UtimeNow(p) ==
  LET l   == Fetched(lib[p])
      tp  == SystemTime["real"]
      ans == Faked(l, "real", tp, ticks)
  IN  /\ lib[p].state = "up"
      /\ changes < MaxChanges /\ changes' = changes + 1
      /\ IF p \in FakeUtime
           THEN /\ stamp' = [stored |-> tp, asked |-> Unset, saved |-> Empty]
                /\ UNCHANGED <<start_time, ticks, lib, last>>
           ELSE /\ l.state # "exited"
                /\ Ticks(l) => ticks < MaxTicks
                /\ stamp' = [stored |-> ans, asked |-> Unset, saved |-> Empty]
                /\ lib' = [lib EXCEPT ![p] = Cached(l, "real", tp, ans)]
                /\ ticks' = IF Ticks(l) THEN ticks + 1 ELSE ticks
                /\ start_time' = FetchedStart(lib[p])
                /\ last' = [last EXCEPT ![p] = Remember(p, l)]
      /\ UNCHANGED <<now, file, mtime, changed, set>>
-----------------------------------------------------------------------------
(* clock_settime(), settimeofday(), adjtime() *)

\* Mutant: force_cache_expiration is not set.
clock_settime_kept(l, t) ==
  [l EXCEPT !.env = [kind |-> "offset", n |-> t - SystemTime["real"], x |-> 0, i |-> 0],
            !.parse_config_file = FALSE,
            !.state = IF UpdateFile THEN "writing" ELSE "up"]

\* The static variables l after clock_settime(t) at this instant.
clock_settime(l, t) ==
  [l EXCEPT !.env = [kind |-> "offset", n |-> t - SystemTime["real"], x |-> 0, i |-> 0],
            !.parse_config_file = FALSE,
            !.force = TRUE,
            !.state = IF UpdateFile THEN "writing" ELSE "up"]

\* fopen(..., "wt") truncates the timestamp file; WriteFile is the fclose().
Truncate == file' = IF UpdateFile THEN Empty ELSE file

SetTime(p, t) ==
  /\ lib[p].state = "up"
  /\ lib' = [lib EXCEPT ![p] = clock_settime(@, t)]
  /\ Truncate
  /\ changed' = IF UpdateFile THEN now ELSE changed
  /\ set' = [set EXCEPT ![p] = [time |-> t, at |-> now]]
  /\ changes < MaxChanges /\ changes' = changes + 1
  /\ UNCHANGED <<now, mtime, stamp, start_time, ticks, last>>

\* adjtime() moves the faked time by d.
AdjTime(p, d) ==
  LET l   == Fetched(lib[p])
      tp  == SystemTime["real"]
      ans == Faked(l, "real", tp, ticks)
  IN  /\ lib[p].state = "up" /\ l.state # "exited"
      /\ Ticks(l) => ticks < MaxTicks
      /\ ans + d >= 0
      /\ lib' = [lib EXCEPT ![p] = clock_settime(Cached(l, "real", tp, ans), ans + d)]
      /\ ticks' = IF Ticks(l) THEN ticks + 1 ELSE ticks
      /\ start_time' = FetchedStart(lib[p])
      /\ last' = [last EXCEPT ![p] = Remember(p, l)]
      /\ Truncate
      /\ changed' = IF UpdateFile THEN now ELSE changed
      /\ set' = [set EXCEPT ![p] = [time |-> ans + d, at |-> now]]
      /\ changes < MaxChanges /\ changes' = changes + 1
      /\ UNCHANGED <<now, mtime, stamp>>

WriteFile(p) ==
  /\ lib[p].state = "writing"
  /\ lib' = [lib EXCEPT ![p].state = "up"]
  /\ file' = lib[p].env
  /\ changed' = now
  /\ UNCHANGED <<now, mtime, stamp, start_time, ticks, changes, last, set>>
-----------------------------------------------------------------------------
(* Processes and the world around them *)

\* Mutant: the process takes its own start time.
Started_own(l) == [l EXCEPT !.start = SystemTime]

\* Mutant: shared_to_system_time() copies the real-time clock only.
Started_real(l) == [l EXCEPT !.start = [SystemTime EXCEPT !["real"] = start_time["real"]]]

\* ftpl_really_init() in process q, with e in its environment: the start time
\* of the session, then FAKETIME or, without it, the timestamp file.
Started(l) ==
  [l EXCEPT !.start = IF start_time["real"] = Unset THEN SystemTime ELSE start_time]

Configured(l) ==
  IF l.env # NoSetting THEN [parse_ft_string(l, l.env) EXCEPT !.parse_config_file = FALSE]
  ELSE IF file # NoSetting THEN parse_ft_string(l, file)
  ELSE l

\* Process p starts q: q's environment is p's.
Exec(p, q) ==
  LET l == Started(Loaded(lib[p].env))
      s == IF l.env # NoSetting THEN l.env ELSE file
  IN  /\ lib[p].state = "up"
      /\ lib[q].state = "off"
      /\ lib' = [lib EXCEPT ![q] = Configured(l)]
      /\ start_time' = IF s # NoSetting /\ Resets(l, s) THEN SystemTime ELSE start_time
      /\ UNCHANGED <<now, file, mtime, stamp, ticks, changed, changes, last, set>>

\* The first process finds no start time in the shared memory it created.
Init ==
  \E e \in FirstEnv, f \in FirstFile :
    /\ now = 1
    /\ file = f
    /\ mtime = 0
    /\ stamp = [stored |-> 0, asked |-> Unset, saved |-> Empty]
    /\ ticks = 0
    /\ start_time = SystemTime
    /\ lib = [p \in Proc |-> IF p = Root THEN Configured(Started(Loaded(e))) ELSE Off]
    /\ changed = 0
    /\ changes = 0
    /\ last = [p \in Proc |-> [c \in Clock |-> Never]]
    /\ set = [p \in Proc |-> NotSet]

Second ==
  /\ now < MaxNow
  /\ now' = now + 1
  /\ UNCHANGED <<file, mtime, stamp, start_time, ticks, lib, changed, changes, last, set>>

\* The user replaces the timestamp file.
Edit(s) ==
  /\ changes < MaxChanges
  /\ file' = s
  /\ changes' = changes + 1
  /\ changed' = now
  /\ UNCHANGED <<now, mtime, stamp, start_time, ticks, lib, last, set>>

\* The follow file is touched.
Touch ==
  /\ mtime < SystemTime["real"]
  /\ mtime' = SystemTime["real"]
  /\ changes < MaxChanges /\ changes' = changes + 1
  /\ UNCHANGED <<now, file, stamp, start_time, ticks, lib, changed, last, set>>

Next ==
  \/ \E p \in Proc :
       \/ \E c \in Clock : GetTime(p, c)
       \/ \E f \in FileTimes \cup {stamp.stored} : Stat(p, f)
       \/ \E t \in SetTimes : SetTime(p, t) \/ AdjTime(p, t) \/ Utime(p, t)
       \/ UtimeNow(p)
       \/ WriteFile(p)
       \/ Exit(p)
       \/ \E q \in Proc : Exec(p, q)
  \/ \E s \in Edits : Edit(s)
  \/ Second
  \/ Touch

Spec == Init /\ [][Next]_vars
-----------------------------------------------------------------------------
(* Properties *)

LibType ==
  [state : {"off", "up", "writing", "exited"},
   env : Setting \cup {NoSetting}, parse_config_file : BOOLEAN, saved : Setting,
   ft_mode : {"freeze", "start_at"}, base : Int, base_set : BOOLEAN, offset : Int,
   user_rate : Nat \ {0}, inc : Nat, inc_set : BOOLEAN,
   start : [Clock -> Int], timecache : [Clock -> Int], faketimecache : [Clock -> Int],
   last_data_fetch : Nat, force : BOOLEAN]

\* The static variables of the library keep their types, and so do the shared
\* memory and the files.
TypeOK ==
  /\ now \in Nat /\ mtime \in Nat /\ ticks \in Nat /\ changed \in Nat /\ changes \in Nat
  /\ file \in Setting \cup {NoSetting}
  /\ stamp \in [stored : Int, asked : Int, saved : Setting]
  /\ start_time \in [Clock -> Int]
  /\ lib \in [Proc -> LibType]
  /\ last \in [Proc -> [Clock -> [ans : Int, same : BOOLEAN]]]
  /\ set \in [Proc -> [time : Int, at : Nat]]

\* Process p gets an answer from clock c in this step.
Answers(p, c) == last'[p][c].same /\ now' = now /\ changes' = changes /\ GetTime(p, c)

\* The caching in fake_clock_gettime() delays a new setting by at most
\* FAKETIME_CACHE_DURATION seconds: whoever asks later than that is answered
\* from what the timestamp file says now.
TakesEffect ==
  [][\A p \in Proc, c \in Clock :
       /\ lib[p].parse_config_file
       /\ now - changed > CacheDuration
       /\ Answers(p, c)
       => lib'[p].saved = Source(lib[p])]_vars

\* Time does not run backwards for a process as long as its setting stays the
\* same string, on any clock, in any mode, whatever other processes do.  Only a
\* process that follows a file without FAKETIME_FOLLOW_ABSOLUTE may run ahead of
\* the file, and is set back when it fetches the file's timestamp again.
Monotone ==
  [][\A p \in Proc, c \in Clock :
       /\ last[p][c].same
       /\ lib'[p].saved = lib[p].saved
       /\ lib[p].saved.kind = "follow" => FollowAbsolute
       /\ Answers(p, c)
       => last'[p][c].ans >= last[p][c].ans]_vars

\* All clocks of a process have advanced by the same faked time: their start
\* times in ftpl_starttime are of one instant.
ClocksInStep ==
  \A p \in Proc : lib[p].state = "up" =>
    \A c \in Clock : lib[p].start[c] - Boot[c] = lib[p].start["real"] - Boot["real"]

\* With FAKETIME_DONT_RESET, processes under the same setting see the same
\* time, however late each of them was started or noticed the setting.
SameSettingSameTime ==
  DontReset =>
    \A p, q \in Proc :
      /\ lib[p].state = "up" /\ lib[q].state = "up"
      /\ lib[p].saved = lib[q].saved
      /\ lib[p].saved.kind \in {"absolute", "offset", "at"}
      => /\ lib[p].base = lib[q].base
         /\ lib[p].start = lib[q].start
         /\ lib[p].saved.x > 0 => lib[p].user_rate = lib[q].user_rate

\* A process that sets the time reads it back, plus the time that has passed
\* since, unless a modifier is in force.
SetTimeReadsBack ==
  [][\A p \in Proc :
       /\ set[p].time # Unset
       /\ lib[p].user_rate = 1 /\ ~lib[p].inc_set
       /\ Answers(p, "real")
       => last'[p]["real"].ans = set[p].time + (now - set[p].at)]_vars

\* A timestamp that a process with FAKE_UTIME gives a file is what every process
\* under the same offset reads back with stat(), whatever settings were in force in
\* between and whether the processes tick, unless a rate is.
TimestampReadsBack ==
  \A p \in Proc :
    /\ stamp.asked # Unset
    /\ lib[p].state = "up" /\ lib[p].saved = stamp.saved
    /\ stamp.saved.kind = "offset" /\ lib[p].user_rate = 1
    => Faked([lib[p] EXCEPT !.inc_set = FALSE], "real", stamp.stored, ticks) = stamp.asked

\* With FAKETIME_FOLLOW_ABSOLUTE, the faked time moves only with the timestamp
\* of the follow file, and never past it.
NeverAhead ==
  [][\A p \in Proc, c \in Clock :
       /\ FollowAbsolute
       /\ lib'[p].saved.kind = "follow"
       /\ Answers(p, c)
       => last'[p][c].ans <= mtime]_vars

\* With FAKETIME_XRESET, the faked time does not jump back when the x modifier
\* changes.
NoJumpBack ==
  [][\A p \in Proc, c \in Clock :
       /\ XReset
       /\ last[p][c] # Never
       /\ lib[p].saved.x > 0 /\ lib'[p].saved.x > 0
       /\ Answers(p, c)
       => last'[p][c].ans >= last[p][c].ans]_vars

\* The setting that a process has read last is in force: if it has an i
\* modifier, the process ticks.
InForce ==
  \A p \in Proc :
    lib[p].state = "up" /\ lib[p].saved.i > 0 /\ lib[p].saved.x = 0 => lib[p].inc_set

\* Each process can adjust the time for all: once a process has set the time
\* and put it into the timestamp file, and the caches have expired, whoever asks
\* for the time is answered from the setting in that file.
AdjustsForAll ==
  /\ UpdateFile /\ file # NoSetting
  /\ now - changed > CacheDuration
  /\ \A q \in Proc : lib[q].state # "writing"
  => \A p \in Proc : lib[p].state = "up" => Fetched(lib[p]).saved = file
=============================================================================

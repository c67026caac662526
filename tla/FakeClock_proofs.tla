-------------------------- MODULE FakeClock_proofs --------------------------
(***************************************************************************)
(* Proofs about FakeClock for any processes, clocks, settings and options: *)
(* what the functions of the library make of a setting (Parsing to       *)
(* Starting), that what a process has read last is in force (Settled),     *)
(* what follows for its clocks, for other processes and for files, and how *)
(* an answer relates to what the process did before (History).             *)
(***************************************************************************)
EXTENDS FakeClock, TLAPS

USE ClockAssumption, OptionAssumption

\* What parsing a setting leaves alone.
Kept(l, r) ==
  /\ r.env = l.env /\ r.parse_config_file = l.parse_config_file
  /\ r.timecache = l.timecache /\ r.faketimecache = l.faketimecache
  /\ r.last_data_fetch = l.last_data_fetch /\ r.force = l.force

\* The clocks of a start time are of one instant.
InStep(f) == \A c \in Clock : f[c] - Boot[c] = f["real"] - Boot["real"]

\* The setting read last is in force: the mode, the base and the rate of the
\* clock are what parse_ft_string() makes of it.
Sound(l, m, st) ==
  LET s == l.saved
      exact == ~XReset \/ s.x = 0
  IN  /\ s.kind = "absolute" => l.ft_mode = "freeze" /\ l.base_set /\ (exact => l.base = s.n)
      /\ s.kind = "offset" => /\ l.ft_mode = "start_at" /\ l.offset = s.n
                              /\ exact => l.base = l.start["real"] + s.n
      /\ s.kind = "at" => l.ft_mode = "start_at" /\ (exact => l.base = s.n)
      /\ s.kind \in {"absolute", "offset", "at"} /\ s.x > 0 => l.user_rate = s.x
      /\ s.kind = "follow" /\ FollowAbsolute =>
           l.ft_mode = "freeze" /\ l.base_set /\ l.base <= m
      /\ ~XReset => InStep(l.start)
      /\ ~XReset /\ DontReset => l.start = st

\* parse_ft_string: the string is remembered, and what it says is put into force.
LEMMA Parsing ==
  ASSUME NEW l \in LibType, NEW s \in Setting, now \in Nat, mtime \in Nat
  PROVE  LET r == parse_ft_string(l, s)
         IN  /\ r \in LibType /\ Kept(l, r) /\ r.saved = s
             /\ r.state = IF s.kind = "empty" /\ Parses(l, s) THEN "exited" ELSE l.state
             /\ ~Parses(l, s) => r = l
             /\ s.x = 0 /\ s.i = 0 /\ s.kind = "offset" =>
                  r.user_rate = l.user_rate /\ r.inc_set = l.inc_set
             /\ s.kind = "follow" /\ FollowAbsolute => r.base = mtime
             /\ Sound(l, mtime, start_time) => Sound(r, mtime, start_time)
\* parse_modifiers: the x modifier sets the rate, the i modifier the increment, and
\* but for FAKETIME_XRESET nothing else changes.
<1>mod. ASSUME NEW a \in LibType
        PROVE  LET m == parse_modifiers(a, s)
               IN  /\ m \in LibType /\ Kept(a, m)
                   /\ m.state = a.state /\ m.ft_mode = a.ft_mode
                   /\ m.base_set = a.base_set /\ m.offset = a.offset
                   /\ m.user_rate = IF s.x > 0 THEN s.x ELSE a.user_rate
                   /\ s.x = 0 /\ s.i = 0 => m.inc_set = a.inc_set
                   /\ ~XReset \/ s.x = 0 => m.base = a.base /\ m.start = a.start
  <2> DEFINE m == parse_modifiers(a, s)
  <2>0. s.x \in Nat /\ s.i \in Nat
    BY Zenon DEF Setting
  <2>x. ASSUME NEW k \in LibType
        PROVE  LET r == xreset(k)
               IN  /\ r \in LibType /\ Kept(k, r)
                   /\ r.state = k.state /\ r.ft_mode = k.ft_mode /\ r.user_rate = k.user_rate
                   /\ r.base_set = k.base_set /\ r.offset = k.offset
                   /\ ~XReset => r = k
    <3>1. CASE XReset /\ k.timecache["real"] >= 0
      <4>1. xreset(k) = [k EXCEPT !.base = k.faketimecache["real"], !.start = k.timecache]
        BY <3>1, Zenon DEF xreset
      <4>a. k.timecache \in [Clock -> Int] /\ k.faketimecache["real"] \in Int
        BY Zenon DEF LibType
      <4>b. ASSUME NEW b \in Int, NEW f \in [Clock -> Int]
            PROVE  [k EXCEPT !.base = b, !.start = f] \in LibType
        BY Zenon DEF LibType
      <4>2. xreset(k) \in LibType
        BY <4>1, <4>a, <4>b, Zenon
      <4> QED
        BY <3>1, <4>1, <4>2, Zenon DEF LibType, Kept
    <3>2. CASE ~(XReset /\ k.timecache["real"] >= 0)
      BY <3>2, Zenon DEF xreset, Kept
    <3> QED
      BY <3>1, <3>2, Zenon
  <2>1. CASE s.x > 0
    <3>1. m = xreset([a EXCEPT !.user_rate = s.x])
      BY <2>1, Zenon DEF parse_modifiers
    <3>k. PICK k : k = [a EXCEPT !.user_rate = s.x]
      BY Zenon
    <3>2. k \in LibType
      BY <2>0, <2>1, <3>k DEF LibType
    <3>3. /\ Kept(a, k) /\ k.state = a.state /\ k.ft_mode = a.ft_mode /\ k.user_rate = s.x
          /\ k.base_set = a.base_set /\ k.offset = a.offset /\ k.base = a.base /\ k.start = a.start
      BY <3>k, Zenon DEF LibType, Kept
    <3>4. PICK r : r = xreset(k)
      BY Zenon
    <3>5. /\ r \in LibType /\ Kept(k, r)
          /\ r.state = k.state /\ r.ft_mode = k.ft_mode /\ r.user_rate = k.user_rate
          /\ r.base_set = k.base_set /\ r.offset = k.offset
          /\ ~XReset => r = k
      BY <2>x, <3>2, <3>4, Zenon
    <3>6. m = r
      BY <3>1, <3>k, <3>4, Zenon
    <3> QED
      BY <2>0, <2>1, <3>3, <3>5, <3>6 DEF Kept
  <2>2. CASE s.x = 0 /\ s.i > 0
    <3>1. m = [a EXCEPT !.inc = s.i, !.inc_set = TRUE]
      BY <2>2 DEF parse_modifiers
    <3>2. m \in LibType
      BY <2>0, <3>1, Zenon DEF LibType
    <3>3. /\ Kept(a, m) /\ m.state = a.state /\ m.ft_mode = a.ft_mode
          /\ m.base_set = a.base_set /\ m.offset = a.offset
          /\ m.user_rate = a.user_rate /\ m.base = a.base /\ m.start = a.start
      BY <3>1, Zenon DEF LibType, Kept
    <3> QED
      BY <2>0, <2>2, <3>2, <3>3
  <2>3. CASE s.x = 0 /\ s.i = 0
    BY <2>3 DEF parse_modifiers, Kept
  <2> QED
    BY <2>0, <2>1, <2>2, <2>3
<1> DEFINE r == parse_ft_string(l, s)
<1>0. SystemTime \in [Clock -> Int] /\ InStep(SystemTime)
  BY DEF SystemTime, InStep
<1>s. /\ s.x \in Nat /\ s.i \in Nat /\ s.n \in Int
      /\ s.kind \in {"absolute", "offset", "at", "follow", "mods", "empty"}
  BY Zenon DEF Setting
<1>r. ASSUME NEW k \in LibType
      PROVE  LET t == reset_time(k)
             IN  /\ t \in LibType /\ Kept(k, t) /\ t.state = k.state /\ t.base = k.base
                 /\ t.ft_mode = k.ft_mode /\ t.user_rate = k.user_rate
                 /\ t.base_set = k.base_set /\ t.offset = k.offset
                 /\ DontReset => t = k
                 /\ ~DontReset => t.start = SystemTime
  <2>1. CASE DontReset
    BY <2>1, Zenon DEF reset_time, Kept
  <2>2. CASE ~DontReset
    BY <1>0, <2>2, Zenon DEF reset_time, LibType, Kept
  <2> QED
    BY <2>1, <2>2, Zenon
<1>m. ASSUME NEW k \in LibType, Parses(l, s), r = [k EXCEPT !.saved = s]
      PROVE  /\ r \in LibType /\ Kept(k, r) /\ r.saved = s /\ r.state = k.state
             /\ r.ft_mode = k.ft_mode /\ r.base_set = k.base_set /\ r.base = k.base
             /\ r.offset = k.offset /\ r.user_rate = k.user_rate /\ r.start = k.start
             /\ r.inc_set = k.inc_set
  BY <1>m, Zenon DEF LibType, Kept
<1> USE <1>s
<1>1. CASE ~Parses(l, s)
  BY <1>1, Zenon DEF parse_ft_string, Parses, Kept
<1>2. CASE Parses(l, s) /\ s.kind = "absolute"
  <2>1. PICK k : k = [l EXCEPT !.ft_mode = "freeze", !.base = s.n, !.base_set = TRUE]
    BY Zenon
  <2>2. k \in LibType
    BY <2>1, Zenon DEF LibType
  <2>3. /\ Kept(l, k) /\ k.state = l.state /\ k.ft_mode = "freeze" /\ k.base = s.n
        /\ k.base_set /\ k.start = l.start
    BY <2>1, Zenon DEF LibType, Kept
  <2>4. r = [parse_modifiers(k, s) EXCEPT !.saved = s]
    BY <1>2, <2>1, Zenon DEF parse_ft_string, parse_absolute
  <2>5. PICK m \in LibType : m = parse_modifiers(k, s)
    BY <2>2, <1>mod, Zenon
  <2> QED
    BY <1>2, <1>m, <2>2, <2>3, <2>4, <2>5, <1>mod DEF Kept, Sound
<1>3. CASE Parses(l, s) /\ s.kind = "offset"
  <2>0. l.start["real"] + s.n \in Int
    BY DEF LibType
  <2>1. PICK k : k = [l EXCEPT !.ft_mode = "start_at", !.offset = s.n,
                               !.base = l.start["real"] + s.n]
    BY Zenon
  <2>2. k \in LibType
    BY <2>0, <2>1, Zenon DEF LibType
  <2>3. /\ Kept(l, k) /\ k.state = l.state /\ k.ft_mode = "start_at" /\ k.offset = s.n
        /\ k.base = k.start["real"] + s.n /\ k.start = l.start /\ k.inc_set = l.inc_set
        /\ k.user_rate = l.user_rate
    BY <2>1, Zenon DEF LibType, Kept
  <2>4. r = [parse_modifiers(k, s) EXCEPT !.saved = s]
    BY <1>3, <2>1, Zenon DEF parse_ft_string, parse_offset
  <2>5. PICK m \in LibType : m = parse_modifiers(k, s)
    BY <2>2, <1>mod
  <2> QED
    BY <1>3, <1>m, <2>2, <2>3, <2>4, <2>5, <1>mod DEF Kept, Sound
<1>4. CASE Parses(l, s) /\ s.kind = "at"
  <2>1. PICK j : j = [l EXCEPT !.ft_mode = "start_at", !.base = s.n]
    BY Zenon
  <2>2. j \in LibType
    BY <2>1, Zenon DEF LibType
  <2>3. /\ Kept(l, j) /\ j.state = l.state /\ j.ft_mode = "start_at"
        /\ j.base = s.n /\ j.start = l.start
    BY <2>1, Zenon DEF LibType, Kept
  <2>4. PICK k \in LibType : k = reset_time(j)
    BY <1>r, <2>2, Zenon
  <2>5. /\ Kept(l, k) /\ k.state = l.state /\ k.ft_mode = "start_at" /\ k.base = s.n
        /\ DontReset => k.start = l.start
        /\ ~DontReset => k.start = SystemTime
    BY <1>r, <2>2, <2>3, <2>4, Zenon DEF Kept
  <2>6. r = [parse_modifiers(k, s) EXCEPT !.saved = s]
    BY <1>4, <2>1, <2>4, Zenon DEF parse_ft_string, parse_at
  <2>7. PICK m \in LibType : m = parse_modifiers(k, s)
    BY <1>mod, Zenon
  <2> QED
    BY <1>0, <1>4, <1>m, <2>5, <2>6, <2>7, <1>mod DEF Kept, Sound
<1>5. CASE Parses(l, s) /\ s.kind = "follow"
  <2> DEFINE mode == IF FollowAbsolute THEN "freeze" ELSE "start_at"
  <2>1. PICK j : j = [l EXCEPT !.ft_mode = mode, !.base = mtime,
                               !.base_set = l.base_set \/ FollowAbsolute]
    BY Zenon
  <2>2. j \in LibType
    <3>1. (l.base_set \/ FollowAbsolute) \in BOOLEAN
      BY Zenon
    <3>2. mode \in {"freeze", "start_at"} /\ mtime \in Int
      OBVIOUS
    <3>3. ASSUME NEW a \in {"freeze", "start_at"}, NEW b \in Int, NEW c \in BOOLEAN
          PROVE  [l EXCEPT !.ft_mode = a, !.base = b, !.base_set = c] \in LibType
      BY <3>3, Zenon DEF LibType
    <3> QED
      BY <2>1, <3>1, <3>2, <3>3, Zenon
  <2>3. /\ Kept(l, j) /\ j.state = l.state /\ j.ft_mode = mode
        /\ j.base = mtime /\ j.start = l.start
    BY <2>1, Zenon DEF LibType, Kept
  <2>b. FollowAbsolute => j.base_set
    BY <2>1, Zenon DEF LibType
  <2>4. PICK k \in LibType : k = reset_time(j)
    BY <1>r, <2>2
  <2>5. /\ Kept(l, k) /\ k.state = l.state /\ k.ft_mode = mode /\ k.base = mtime
        /\ FollowAbsolute => k.base_set
        /\ DontReset => k.start = l.start
        /\ ~DontReset => k.start = SystemTime
    BY <1>r, <2>2, <2>3, <2>4, <2>b, Zenon DEF Kept
  <2>6. r = [IF k.base_set THEN k ELSE parse_modifiers(k, s) EXCEPT !.saved = s]
    BY <1>5, <2>1, <2>4, Zenon DEF parse_ft_string, parse_follow
  <2>7. CASE k.base_set
    BY <1>0, <1>5, <1>m, <2>5, <2>6, <2>7 DEF Kept, Sound
  <2>8. CASE ~k.base_set
    <3>1. PICK m \in LibType : m = parse_modifiers(k, s)
      BY <1>mod
    <3> QED
      BY <1>0, <1>5, <1>m, <2>5, <2>6, <2>8, <3>1, <1>mod DEF Kept, Sound
  <2> QED
    BY <2>7, <2>8, Zenon
<1>6. CASE Parses(l, s) /\ s.kind = "mods"
  <2>1. r = [parse_modifiers(l, s) EXCEPT !.saved = s]
    BY <1>6, Zenon DEF parse_ft_string
  <2>2. PICK m \in LibType : m = parse_modifiers(l, s)
    BY <1>mod, Zenon
  <2> QED
    BY <1>6, <1>m, <2>1, <2>2, <1>mod DEF Kept, Sound
<1>7. CASE Parses(l, s) /\ s.kind = "empty"
  <2>1. PICK k : k = [l EXCEPT !.state = "exited"]
    BY Zenon
  <2>2. k \in LibType /\ Kept(l, k) /\ k.state = "exited" /\ k.start = l.start
    BY <2>1, Zenon DEF LibType, Kept
  <2>3. r = [k EXCEPT !.saved = s]
    BY <1>7, <2>1, Zenon DEF parse_ft_string
  <2> QED
    BY <1>7, <1>m, <2>2, <2>3, Zenon DEF Kept, Sound
<1> QED
  BY <1>1, <1>2, <1>3, <1>4, <1>5, <1>6, <1>7, Zenon

\* Two states of the library that give the same time, but for the i modifier.
SameClock(l, r) ==
  /\ r.saved = l.saved /\ r.ft_mode = l.ft_mode /\ r.base = l.base /\ r.base_set = l.base_set
  /\ r.offset = l.offset /\ r.user_rate = l.user_rate /\ r.inc = l.inc /\ r.start = l.start

\* Two states of the library that differ in nothing but what it remembers for xreset.
Alike(l, r) ==
  /\ SameClock(l, r) /\ r.inc_set = l.inc_set
  /\ r.state = l.state /\ r.env = l.env /\ r.parse_config_file = l.parse_config_file
  /\ r.last_data_fetch = l.last_data_fetch /\ r.force = l.force

\* What the proofs below need to know of the files and of the present.
World ==
  /\ now \in Nat /\ mtime \in Nat /\ file \in Setting \cup {NoSetting}
  /\ start_time \in [Clock -> Int]

\* Fetching the setting: an expired cache is filled from the source and parsed, and
\* the clock changes only if the string is another one, or is followed.
LEMMA Fetching ==
  ASSUME World, NEW l \in LibType
  PROVE  LET f == Fetched(l)
         IN  /\ Source(l) \in Setting
             /\ f \in LibType /\ f.env = l.env /\ f.parse_config_file = l.parse_config_file
             /\ f.timecache = l.timecache /\ f.faketimecache = l.faketimecache
             /\ f.state = l.state \/ f.state = "exited"
             /\ Sound(l, mtime, start_time) => Sound(f, mtime, start_time)
             /\ ~cache_expired(l) => f = l
             /\ cache_expired(l) => /\ f.saved = Source(l) /\ ~f.force
                                    /\ f.last_data_fetch = SystemTime["real"]
             /\ cache_expired(l) /\ f.saved.kind = "follow" /\ FollowAbsolute => f.base = mtime
             /\ ~Parses(l, f.saved) => SameClock(l, f) /\ f.inc_set = l.inc_set
             /\ Source(l).x = 0 /\ Source(l).i = 0 /\ Source(l).kind = "offset" =>
                  f.user_rate = l.user_rate /\ f.inc_set = l.inc_set
<1> DEFINE f == Fetched(l)
<1>1. Source(l) \in Setting
  BY DEF World, Source, Default, LibType, Setting
<1>2. CASE ~cache_expired(l)
  BY <1>1, <1>2, Zenon DEF Fetched, SameClock
<1>3. CASE cache_expired(l)
  <2>1. PICK r : r = parse_ft_string(l, Source(l))
    BY Zenon
  <2>2. /\ r \in LibType /\ Kept(l, r) /\ r.saved = Source(l)
        /\ r.state = l.state \/ r.state = "exited"
        /\ ~Parses(l, r.saved) => r = l
        /\ Source(l).x = 0 /\ Source(l).i = 0 /\ Source(l).kind = "offset" =>
             r.user_rate = l.user_rate /\ r.inc_set = l.inc_set
        /\ Source(l).kind = "follow" /\ FollowAbsolute => r.base = mtime
        /\ Sound(l, mtime, start_time) => Sound(r, mtime, start_time)
    BY <1>1, <2>1, Parsing, Zenon DEF World
  <2>3. SystemTime["real"] \in Nat
    BY DEF World, SystemTime
  <2>4. f = [r EXCEPT !.last_data_fetch = SystemTime["real"], !.force = FALSE]
    BY <1>3, <2>1, Zenon DEF Fetched
  <2>5. f \in LibType
    BY <2>2, <2>3, <2>4, Zenon DEF LibType
  <2>6. /\ SameClock(r, f) /\ f.inc_set = r.inc_set /\ f.state = r.state
        /\ f.env = r.env /\ f.parse_config_file = r.parse_config_file
        /\ f.timecache = r.timecache /\ f.faketimecache = r.faketimecache
        /\ f.last_data_fetch = SystemTime["real"] /\ ~f.force
    BY <2>2, <2>4, Zenon DEF LibType, SameClock
  <2>7. Sound(r, mtime, start_time) => Sound(f, mtime, start_time)
    BY <2>6, Zenon DEF Sound, SameClock
  <2> QED
    BY <1>1, <1>3, <2>2, <2>5, <2>6, <2>7, Zenon DEF Kept, SameClock
<1> QED
  BY <1>2, <1>3, Zenon

\* The faked time is a number, and remembering it changes nothing but the caches.
LEMMA Caching ==
  ASSUME NEW l \in LibType, NEW c \in Clock, NEW tp \in Int
  PROVE  /\ \A k \in Nat : Faked(l, c, tp, k) \in Int
         /\ \A a \in Int : Cached(l, c, tp, a) \in LibType /\ Alike(l, Cached(l, c, tp, a))
<1>1. ASSUME NEW k \in Nat PROVE Faked(l, c, tp, k) \in Int
  <2>1. /\ l.base \in Int /\ l.inc \in Int /\ l.user_rate \in Int /\ l.start[c] \in Int
    BY DEF LibType
  <2>2. l.inc * k \in Int /\ (tp - l.start[c]) * l.user_rate \in Int
    BY <2>1
  <2> QED
    BY <2>1, <2>2 DEF Faked
<1>2. ASSUME NEW a \in Int
      PROVE  Cached(l, c, tp, a) \in LibType /\ Alike(l, Cached(l, c, tp, a))
  <2>1. CASE ~XReset
    BY <2>1, Zenon DEF Cached, SameClock, Alike
  <2>2. CASE XReset
    <3>1. PICK f, g : f = [l.timecache EXCEPT ![c] = tp] /\ g = [l.faketimecache EXCEPT ![c] = a]
      BY Zenon
    <3>2. f \in [Clock -> Int] /\ g \in [Clock -> Int]
      BY <3>1, Zenon DEF LibType
    <3>3. PICK r : r = [l EXCEPT !.timecache = f, !.faketimecache = g]
      BY Zenon
    <3>4. Cached(l, c, tp, a) = r
      BY <2>2, <3>1, <3>3, Zenon DEF Cached
    <3>5. r \in LibType
      BY <3>2, <3>3, Zenon DEF LibType
    <3>6. Alike(l, r)
      BY <3>3, Zenon DEF LibType, SameClock, Alike
    <3> QED
      BY <3>4, <3>5, <3>6, Zenon
  <2> QED
    BY <2>1, <2>2, Zenon
<1> QED
  BY <1>1, <1>2, Zenon

\* A process starts with the session's start time, and with what FAKETIME or else
\* the timestamp file says in force.
LEMMA Starting ==
  ASSUME World, start_time["real"] >= 0, InStep(start_time), NEW e \in Setting \cup {NoSetting}
  PROVE  LET r == Configured(Started(Loaded(e)))
         IN  /\ r \in LibType /\ Sound(r, mtime, start_time) /\ r.env = e /\ r.last_data_fetch = 0
             /\ r.state \in {"up", "exited"}
             /\ Off \in LibType /\ Off.state = "off" /\ Off.last_data_fetch = 0
\* The library as it is loaded is well typed.
<1>load. /\ Loaded(e) \in LibType /\ Off \in LibType
         /\ Off.state = "off" /\ Off.last_data_fetch = 0
  <2>1. Empty \in Setting /\ NoTime \in [Clock -> Int] /\ Unset \in Int
    BY DEF Empty, Setting, NoTime, Unset
  <2>2. ASSUME NEW d \in Setting \cup {NoSetting} PROVE Loaded(d) \in LibType
    <3>1. 1 \in Nat \ {0} /\ 0 \in Nat /\ 0 \in Int
      OBVIOUS
    <3> QED
      BY <2>1, <3>1, Zenon DEF Loaded, LibType
  <2>3. PICK l \in LibType : l = Loaded(NoSetting)
    BY <2>2, Zenon
  <2>4. Off = [l EXCEPT !.state = "off"] /\ l.last_data_fetch = 0
    BY <2>3, Zenon DEF Off, Loaded
  <2> QED
    BY <2>2, <2>4, Zenon DEF LibType
<1>1. PICK k : k = Loaded(e)
  BY Zenon
<1>2. k \in LibType /\ k.env = e /\ k.last_data_fetch = 0 /\ k.state = "up" /\ k.saved = Empty
  BY <1>1, <1>load, Zenon DEF Loaded
<1>3. PICK l : l = [k EXCEPT !.start = start_time]
  BY Zenon
<1>4. /\ l \in LibType /\ l.env = e /\ l.last_data_fetch = 0 /\ l.state = "up"
      /\ l.saved = Empty /\ l.start = start_time
  BY <1>2, <1>3, Zenon DEF LibType, World
<1>5. Started(Loaded(e)) = l
  BY <1>1, <1>3 DEF Started, Unset, World
<1>6. Sound(l, mtime, start_time)
  BY <1>4 DEF Sound, Empty
<1>7. CASE e # NoSetting
  <2>1. PICK r : r = parse_ft_string(l, e)
    BY Zenon
  <2>2. r \in LibType /\ Kept(l, r) /\ r.state \in {"up", "exited"} /\ Sound(r, mtime, start_time)
    BY <1>4, <1>6, <1>7, <2>1, Parsing, Zenon DEF World
  <2>3. PICK q : q = [r EXCEPT !.parse_config_file = FALSE]
    BY Zenon
  <2>4. q \in LibType
    BY <2>2, <2>3, Zenon DEF LibType
  <2>5. /\ q.env = r.env /\ q.last_data_fetch = r.last_data_fetch /\ q.state = r.state
        /\ SameClock(r, q)
    BY <2>2, <2>3, Zenon DEF LibType, SameClock
  <2>6. Configured(l) = q
    BY <1>4, <1>7, <2>1, <2>3, Zenon DEF Configured
  <2>7. Sound(q, mtime, start_time)
    BY <2>2, <2>5, Zenon DEF Sound, SameClock
  <2> QED
    BY <1>load, <1>4, <1>5, <2>2, <2>4, <2>5, <2>6, <2>7, Zenon DEF Kept
<1>8. CASE e = NoSetting /\ file # NoSetting
  BY <1>load, <1>4, <1>5, <1>6, <1>8, Parsing DEF World, Configured, Kept
<1>9. CASE e = NoSetting /\ file = NoSetting
  BY <1>load, <1>4, <1>5, <1>6, <1>9, Zenon DEF Configured
<1> QED
  BY <1>7, <1>8, <1>9, Zenon

\* The types, and what is in force in every process that has started: the
\* setting it has read last, over a start time that all its clocks share.  A
\* timestamp faked under an offset is stored with the offset taken off.
Settled ==
  /\ TypeOK
  /\ start_time["real"] >= 0 /\ InStep(start_time)
  /\ \A p \in Proc : lib[p].state # "off" => Sound(lib[p], mtime, start_time)
  /\ stamp.asked # Unset /\ stamp.saved.kind = "offset" =>
       stamp.stored = stamp.asked - stamp.saved.n

\* Every call fetches, parses and applies the setting so that what it read last is
\* in force, whatever the other processes and the user do to the files meanwhile.
LEMMA SettledInvariant == Spec => []Settled
<1> USE ProcAssumption, SettingAssumption
<1>1. Init => Settled
  <2> SUFFICES ASSUME Init PROVE Settled
    BY Zenon
  <2>1. PICK e \in FirstEnv, f \in FirstFile :
          /\ now = 1 /\ file = f /\ mtime = 0 /\ ticks = 0 /\ changed = 0 /\ changes = 0
          /\ start_time = SystemTime
          /\ lib = [p \in Proc |-> IF p = Root THEN Configured(Started(Loaded(e))) ELSE Off]
          /\ stamp = [stored |-> 0, asked |-> Unset, saved |-> Empty]
          /\ last = [p \in Proc |-> [c \in Clock |-> Never]]
          /\ set = [p \in Proc |-> NotSet]
    BY Zenon DEF Init
  <2>2. World /\ start_time["real"] >= 0 /\ InStep(start_time)
    BY <2>1 DEF World, SystemTime, InStep
  <2>3. PICK r \in LibType : /\ r = Configured(Started(Loaded(e)))
                            /\ Sound(r, mtime, start_time)
    BY <2>1, <2>2, Starting, Zenon
  <2>4. Off \in LibType /\ Off.state = "off"
    BY <2>1, <2>2, Starting, Zenon
  <2>5. lib \in [Proc -> LibType]
    BY <2>1, <2>3, <2>4, Zenon
  <2>6. \A p \in Proc : lib[p].state # "off" => Sound(lib[p], mtime, start_time)
    BY <2>1, <2>3, <2>4, Zenon
  <2>7. stamp \in [stored : Int, asked : Int, saved : Setting]
    BY <2>1 DEF Empty, Setting, Unset
  <2>8. last \in [Proc -> [Clock -> [ans : Int, same : BOOLEAN]]]
    <3>1. Never \in [ans : Int, same : BOOLEAN]
      BY DEF Never, Unset
    <3> QED
      BY <2>1, <3>1, Zenon
  <2>9. set \in [Proc -> [time : Int, at : Nat]]
    BY <2>1 DEF NotSet, Unset
  <2> QED
    BY <2>1, <2>2, <2>5, <2>6, <2>7, <2>8, <2>9, Zenon DEF Settled, TypeOK, World
<1>2. Settled /\ [Next]_vars => Settled'
<2> SUFFICES ASSUME Settled, [Next]_vars PROVE Settled'
  BY Zenon
<2>w. World /\ SystemTime \in [Clock -> Nat] /\ InStep(SystemTime)
  BY DEF Settled, TypeOK, World, SystemTime, InStep
<2>t. /\ lib \in [Proc -> LibType] /\ ticks \in Nat /\ changes \in Nat /\ changed \in Nat
      /\ stamp \in [stored : Int, asked : Int, saved : Setting]
      /\ last \in [Proc -> [Clock -> [ans : Int, same : BOOLEAN]]]
      /\ set \in [Proc -> [time : Int, at : Nat]]
  BY Zenon DEF Settled, TypeOK
\* The shared start time is set by reset_time() alone.
<2>b. ASSUME NEW l
      PROVE  /\ FetchedStart(l) \in {start_time, SystemTime}
             /\ DontReset => FetchedStart(l) = start_time
  BY Zenon DEF FetchedStart, Resets
\* What is in force stays so when the follow file is touched or the start time is set.
<2>s. ASSUME NEW l \in LibType, Sound(l, mtime, start_time), mtime' \in Nat, mtime' >= mtime,
             DontReset => start_time' = start_time
      PROVE  Sound(l, mtime', start_time')
  <3>1. l.base \in Int
    BY Zenon DEF LibType
  <3> QED
    BY <2>s, <2>w, <3>1 DEF Sound, World
\* A step of one process.
<2>l. ASSUME NEW p \in Proc, NEW r \in LibType, lib' = [lib EXCEPT ![p] = r],
             r.state # "off" => Sound(r, mtime, start_time), mtime' = mtime,
             start_time' \in {start_time, SystemTime}, DontReset => start_time' = start_time
      PROVE  /\ lib' \in [Proc -> LibType] /\ start_time' \in [Clock -> Int]
             /\ start_time'["real"] >= 0 /\ InStep(start_time')
             /\ \A q \in Proc : lib'[q].state # "off" => Sound(lib'[q], mtime', start_time')
  <3>1. mtime' \in Nat /\ mtime' >= mtime
    BY <2>l, <2>w DEF World
  <3>2. ASSUME NEW q \in Proc, q # p, lib[q].state # "off"
        PROVE  Sound(lib[q], mtime', start_time')
    BY <2>l, <2>s, <2>t, <3>1, <3>2, Zenon DEF Settled
  <3>3. r.state # "off" => Sound(r, mtime', start_time')
    BY <2>l, <2>s, <3>1, Zenon
  <3>4. \A q \in Proc : lib'[q].state # "off" => Sound(lib'[q], mtime', start_time')
    BY <2>l, <2>t, <3>2, <3>3, Zenon
  <3>5. start_time' \in [Clock -> Int] /\ start_time'["real"] >= 0 /\ InStep(start_time')
    BY <2>l, <2>w DEF Settled, World
  <3> QED
    BY <2>l, <2>t, <3>4, <3>5, Zenon
\* A call of fake_clock_gettime() with the setting fetched.
<2>f. ASSUME NEW l \in LibType, Sound(l, mtime, start_time),
             NEW c \in Clock, NEW tp \in Int, NEW k \in Nat,
             NEW f, f = Fetched(l), NEW a, a = Faked(f, c, tp, k),
             NEW r, r = Cached(f, c, tp, a)
      PROVE  f \in LibType /\ a \in Int /\ r \in LibType /\ Sound(r, mtime, start_time)
  <3>1. f \in LibType /\ Sound(f, mtime, start_time)
    BY <2>f, <2>w, Fetching, Zenon
  <3>2. a \in Int /\ r \in LibType /\ SameClock(f, r)
    BY <2>f, <3>1, Caching, Zenon DEF Alike
  <3>3. Sound(r, mtime, start_time)
    BY <3>1, <3>2, Zenon DEF Sound, SameClock
  <3> QED
    BY <3>1, <3>2, <3>3, Zenon
<2>m. ASSUME NEW p \in Proc, NEW l
      PROVE  Remember(p, l) \in [Clock -> [ans : Int, same : BOOLEAN]]
  <3>1. Never \in [ans : Int, same : BOOLEAN]
    BY DEF Never, Unset
  <3>2. \A x \in [ans : Int, same : BOOLEAN] :
          [x EXCEPT !.same = FALSE] \in [ans : Int, same : BOOLEAN]
    BY Zenon
  <3>3. CASE ~Parses(lib[p], l.saved)
    BY <2>t, <3>3, Zenon DEF Remember
  <3>4. CASE Parses(lib[p], l.saved) /\ XReset
    <4>1. Remember(p, l) = [c \in Clock |-> [last[p][c] EXCEPT !.same = FALSE]]
      BY <3>4, Zenon DEF Remember
    <4>2. \A c \in Clock : last[p][c] \in [ans : Int, same : BOOLEAN]
      BY <2>t
    <4> QED
      BY <3>2, <4>1, <4>2, Zenon
  <3>5. CASE Parses(lib[p], l.saved) /\ ~XReset
    BY <3>1, <3>5, Zenon DEF Remember
  <3> QED
    BY <3>3, <3>4, <3>5, Zenon
<2>u. ASSUME NEW p \in Proc, lib[p].state = "up"
      PROVE  lib[p] \in LibType /\ Sound(lib[p], mtime, start_time)
  BY <2>t, <2>u, Zenon DEF Settled
<2>e. Empty \in Setting
  BY DEF Empty, Setting
<2>d. ASSUME NEW t \in SetTimes \cup FileTimes PROVE t \in Int
  <3>1. SetTimes \subseteq Nat /\ FileTimes \subseteq Nat
    BY Zenon
  <3> QED
    BY <3>1
\* Setting the time changes what is to be read next, not the clock.
<2>v. ASSUME NEW l \in LibType, NEW t \in Int, NEW r, r = clock_settime(l, t)
      PROVE  r \in LibType /\ SameClock(l, r)
  <3>1. PICK e : e = [kind |-> "offset", n |-> t - SystemTime["real"], x |-> 0, i |-> 0]
    BY Zenon
  <3>2. e \in Setting
    BY <2>w, <3>1 DEF Setting
  <3>3. PICK st \in {"writing", "up"} : st = IF UpdateFile THEN "writing" ELSE "up"
    BY Zenon
  <3>4. r = [l EXCEPT !.env = e, !.parse_config_file = FALSE, !.force = TRUE, !.state = st]
    BY <2>v, <3>1, <3>3, Zenon DEF clock_settime
  <3>5. r \in LibType
    BY <3>2, <3>3, <3>4, ZenonT(60) DEF LibType
  <3> QED
    BY <3>4, <3>5, Zenon DEF LibType, SameClock
<2>1. ASSUME NEW p \in Proc, NEW c \in Clock, GetTime(p, c) PROVE Settled'
  <3>0. PICK f, a, r : /\ f = Fetched(lib[p])
                       /\ a = Faked(f, c, SystemTime[c], ticks)
                       /\ r = Cached(f, c, SystemTime[c], a)
    BY Zenon
  <3>1. /\ lib[p].state = "up" /\ lib' = [lib EXCEPT ![p] = r]
        /\ ticks' = IF Ticks(f) THEN ticks + 1 ELSE ticks
        /\ start_time' = FetchedStart(lib[p])
        /\ last' = [last EXCEPT ![p] = [Remember(p, f) EXCEPT ![c] = [ans |-> a, same |-> TRUE]]]
        /\ UNCHANGED <<now, file, mtime, stamp, changed, changes, set>>
    BY <2>1, <3>0, Zenon DEF GetTime
  <3>2. SystemTime[c] \in Int
    BY <2>w
  <3>3. a \in Int /\ r \in LibType /\ Sound(r, mtime, start_time)
    BY <2>f, <2>t, <2>u, <3>0, <3>1, <3>2, Zenon
  <3>4. /\ lib' \in [Proc -> LibType] /\ start_time' \in [Clock -> Int]
        /\ start_time'["real"] >= 0 /\ InStep(start_time')
        /\ \A q \in Proc : lib'[q].state # "off" => Sound(lib'[q], mtime', start_time')
    BY <2>b, <2>l, <3>1, <3>3, Zenon
  <3>5. last' \in [Proc -> [Clock -> [ans : Int, same : BOOLEAN]]]
    <4>1. [ans |-> a, same |-> TRUE] \in [ans : Int, same : BOOLEAN]
      BY <3>3, Zenon
    <4> QED
      BY <2>m, <2>t, <3>1, <4>1, Zenon
  <3> QED
    BY <2>t, <2>w, <3>1, <3>4, <3>5 DEF Settled, TypeOK, World
<2>2. ASSUME NEW p \in Proc, NEW tp \in FileTimes \cup {stamp.stored}, Stat(p, tp) PROVE Settled'
  <3>0. PICK j, f, o, a, r : /\ j = [lib[p] EXCEPT !.inc_set = FALSE] /\ f = Fetched(j)
                             /\ o = [f EXCEPT !.inc_set = lib[p].inc_set]
                             /\ a = Faked(f, "real", tp, ticks + 2)
                             /\ r = Cached(o, "real", tp, a)
    BY Zenon
  <3>1. /\ lib[p].state = "up" /\ lib' = [lib EXCEPT ![p] = r]
        /\ ticks' = IF Ticks(f) THEN ticks + 3 ELSE ticks
        /\ start_time' = FetchedStart(lib[p])
        /\ last' = [last EXCEPT ![p] = Remember(p, f)]
        /\ UNCHANGED <<now, file, mtime, stamp, changed, changes, set>>
    BY <2>2, <3>0, Zenon DEF Stat
  <3>2. tp \in Int /\ ticks + 2 \in Nat
    <4>1. CASE tp = stamp.stored
      BY <2>t, <4>1
    <4>2. CASE tp \in FileTimes
      BY <2>d, <2>t, <4>2
    <4> QED
      BY <4>1, <4>2, Zenon
  <3>3. lib[p] \in LibType /\ lib[p].inc_set \in BOOLEAN /\ Sound(lib[p], mtime, start_time)
    BY <2>u, <3>1, Zenon DEF LibType
  <3>4. j \in LibType /\ SameClock(lib[p], j)
    BY <3>0, <3>3, Zenon DEF LibType, SameClock
  <3>5. f \in LibType /\ Sound(f, mtime, start_time)
    <4>1. Sound(j, mtime, start_time)
      BY <3>3, <3>4, Zenon DEF Sound, SameClock
    <4> QED
      BY <2>w, <3>0, <3>4, <4>1, Fetching, Zenon
  <3>6. o \in LibType /\ SameClock(f, o)
    BY <3>0, <3>3, <3>5, Zenon DEF LibType, SameClock
  <3>7. a \in Int /\ r \in LibType /\ SameClock(o, r)
    <4>1. a \in Int
      BY <3>0, <3>2, <3>5, Caching, Zenon
    <4>2. r \in LibType /\ Alike(o, r)
      BY <3>0, <3>2, <3>6, <4>1, Caching, Zenon
    <4> QED
      BY <4>1, <4>2, Zenon DEF Alike
  <3>8. Sound(r, mtime, start_time)
    BY <3>5, <3>6, <3>7 DEF Sound, SameClock
  <3>9. /\ lib' \in [Proc -> LibType] /\ start_time' \in [Clock -> Int]
        /\ start_time'["real"] >= 0 /\ InStep(start_time')
        /\ \A q \in Proc : lib'[q].state # "off" => Sound(lib'[q], mtime', start_time')
    BY <2>b, <2>l, <3>1, <3>7, <3>8, Zenon
  <3> QED
    BY <2>m, <2>t, <2>w, <3>1, <3>9 DEF Settled, TypeOK, World
<2>3. ASSUME NEW p \in Proc, NEW t \in SetTimes, SetTime(p, t) PROVE Settled'
  <3>0. PICK r : r = clock_settime(lib[p], t)
    BY Zenon
  <3>1. /\ lib[p].state = "up" /\ lib' = [lib EXCEPT ![p] = r]
        /\ file' \in {file, Empty} /\ changed' \in {changed, now}
        /\ set' = [set EXCEPT ![p] = [time |-> t, at |-> now]]
        /\ changes' = changes + 1
        /\ UNCHANGED <<now, mtime, stamp, start_time, ticks, last>>
    BY <2>3, <3>0, Zenon DEF SetTime, Truncate
  <3>2. r \in LibType /\ SameClock(lib[p], r)
    BY <2>d, <2>u, <2>v, <3>0, <3>1, Zenon
  <3>3. Sound(r, mtime, start_time)
    BY <2>u, <3>1, <3>2 DEF Sound, SameClock
  <3>4. /\ lib' \in [Proc -> LibType]
        /\ \A q \in Proc : lib'[q].state # "off" => Sound(lib'[q], mtime', start_time')
    BY <2>l, <3>1, <3>2, <3>3, Zenon
  <3> QED
    BY <2>t, <2>w, <2>e, <3>1, <3>4 DEF Settled, TypeOK, World
<2>4. ASSUME NEW p \in Proc, NEW d \in SetTimes, AdjTime(p, d) PROVE Settled'
  <3>0. PICK f, a, k, r : /\ f = Fetched(lib[p])
                          /\ a = Faked(f, "real", SystemTime["real"], ticks)
                          /\ k = Cached(f, "real", SystemTime["real"], a)
                          /\ r = clock_settime(k, a + d)
    BY Zenon
  <3>1. /\ lib[p].state = "up" /\ lib' = [lib EXCEPT ![p] = r]
        /\ ticks' = IF Ticks(f) THEN ticks + 1 ELSE ticks
        /\ start_time' = FetchedStart(lib[p])
        /\ last' = [last EXCEPT ![p] = Remember(p, f)]
        /\ file' \in {file, Empty} /\ changed' \in {changed, now}
        /\ set' = [set EXCEPT ![p] = [time |-> a + d, at |-> now]]
        /\ changes' = changes + 1
        /\ UNCHANGED <<now, mtime, stamp>>
    BY <2>4, <3>0, Zenon DEF AdjTime, Truncate
  <3>2. SystemTime["real"] \in Int
    BY <2>w
  <3>3. a \in Int /\ k \in LibType /\ Sound(k, mtime, start_time)
    BY <2>f, <2>t, <2>u, <3>0, <3>1, <3>2, Zenon
  <3>d. d \in Int
    BY <2>d, Zenon
  <3>4. a + d \in Int
    BY <3>3, <3>d
  <3>5. r \in LibType /\ SameClock(k, r)
    BY <2>v, <3>0, <3>3, <3>4, Zenon
  <3>6. Sound(r, mtime, start_time)
    BY <3>3, <3>5, Zenon DEF Sound, SameClock
  <3>7. /\ lib' \in [Proc -> LibType] /\ start_time' \in [Clock -> Int]
        /\ start_time'["real"] >= 0 /\ InStep(start_time')
        /\ \A q \in Proc : lib'[q].state # "off" => Sound(lib'[q], mtime', start_time')
    BY <2>b, <2>l, <3>1, <3>5, <3>6, Zenon
  <3> QED
    BY <2>e, <2>m, <2>t, <2>w, <3>1, <3>4, <3>7 DEF Settled, TypeOK, World
<2>5. ASSUME NEW p \in Proc, NEW t \in SetTimes, Utime(p, t) PROVE Settled'
  <3>1. lib[p] \in LibType /\ Sound(lib[p], mtime, start_time) /\ t \in Int
    BY <2>5, <2>d, <2>u, Zenon DEF Utime
  <3>2. lib[p].offset \in Int /\ lib[p].saved \in Setting
    BY <3>1, Zenon DEF LibType
  <3>3. /\ stamp' \in [stored : Int, asked : Int, saved : Setting]
        /\ stamp'.asked # Unset /\ stamp'.saved.kind = "offset" =>
             stamp'.stored = stamp'.asked - stamp'.saved.n
    <4>1. CASE p \in FakeUtime
      <5>1. stamp' = [stored |-> t - lib[p].offset, asked |-> t, saved |-> lib[p].saved]
        BY <2>5, <4>1, Zenon DEF Utime
      <5>2. lib[p].saved.kind = "offset" => lib[p].offset = lib[p].saved.n
        BY <3>1, Zenon DEF Sound
      <5> QED
        BY <3>1, <3>2, <5>1, <5>2
    <4>2. CASE p \notin FakeUtime
      BY <2>5, <2>e, <3>1, <4>2 DEF Utime, Unset
    <4> QED
      BY <4>1, <4>2, Zenon
  <3> QED
    BY <2>5, <2>t, <2>w, <3>3 DEF Utime, Settled, TypeOK, World
<2>6. ASSUME NEW p \in Proc, UtimeNow(p) PROVE Settled'
  <3>0. PICK f, a, r : /\ f = Fetched(lib[p])
                       /\ a = Faked(f, "real", SystemTime["real"], ticks)
                       /\ r = Cached(f, "real", SystemTime["real"], a)
    BY Zenon
  <3>1. lib[p].state = "up" /\ changes' = changes + 1 /\ UNCHANGED <<now, file, mtime, changed, set>>
    BY <2>6, Zenon DEF UtimeNow
  <3>2. SystemTime["real"] \in Int
    BY <2>w
  <3>3. CASE p \in FakeUtime
    <4>1. /\ stamp' = [stored |-> SystemTime["real"], asked |-> Unset, saved |-> Empty]
          /\ UNCHANGED <<start_time, ticks, lib, last>>
      BY <2>6, <3>3, Zenon DEF UtimeNow
    <4>2. stamp' \in [stored : Int, asked : Int, saved : Setting] /\ stamp'.asked = Unset
      BY <2>e, <3>2, <4>1 DEF Unset
    <4> QED
      BY <2>t, <2>w, <3>1, <4>1, <4>2 DEF Settled, TypeOK, World
  <3>4. CASE p \notin FakeUtime
    <4>1. /\ stamp' = [stored |-> a, asked |-> Unset, saved |-> Empty]
          /\ lib' = [lib EXCEPT ![p] = r]
          /\ ticks' = IF Ticks(f) THEN ticks + 1 ELSE ticks
          /\ start_time' = FetchedStart(lib[p])
          /\ last' = [last EXCEPT ![p] = Remember(p, f)]
      BY <2>6, <3>0, <3>4, Zenon DEF UtimeNow
    <4>2. a \in Int /\ r \in LibType /\ Sound(r, mtime, start_time)
      BY <2>f, <2>t, <2>u, <3>0, <3>1, <3>2, Zenon
    <4>3. /\ lib' \in [Proc -> LibType] /\ start_time' \in [Clock -> Int]
          /\ start_time'["real"] >= 0 /\ InStep(start_time')
          /\ \A q \in Proc : lib'[q].state # "off" => Sound(lib'[q], mtime', start_time')
      BY <2>b, <2>l, <3>1, <4>1, <4>2, Zenon
    <4>4. stamp' \in [stored : Int, asked : Int, saved : Setting] /\ stamp'.asked = Unset
      BY <2>e, <4>1, <4>2 DEF Unset
    <4>5. last' \in [Proc -> [Clock -> [ans : Int, same : BOOLEAN]]] /\ ticks' \in Nat
      BY <2>m, <2>t, <4>1
    <4> QED
      BY <2>t, <2>w, <3>1, <4>3, <4>4, <4>5 DEF Settled, TypeOK, World
  <3> QED
    BY <3>3, <3>4, Zenon
<2>7. ASSUME NEW p \in Proc, WriteFile(p) \/ Exit(p) PROVE Settled'
  <3>1. PICK st \in {"up", "exited"} : lib' = [lib EXCEPT ![p].state = st]
    BY <2>7, Zenon DEF WriteFile, Exit
  <3>2. /\ lib[p] \in LibType /\ lib[p].state # "off" /\ file' \in {file, lib[p].env}
        /\ file' = file \/ lib[p].env \in Setting \cup {NoSetting}
        /\ changed' \in {changed, now}
        /\ UNCHANGED <<now, mtime, stamp, start_time, ticks, changes, last, set>>
    BY <2>7, <2>t, Zenon DEF WriteFile, Exit, LibType
  <3>3. PICK r : r = [lib[p] EXCEPT !.state = st]
    BY Zenon
  <3>4. lib' = [lib EXCEPT ![p] = r]
    BY <2>t, <3>1, <3>3, Zenon
  <3>5. r \in LibType /\ SameClock(lib[p], r)
    BY <3>2, <3>3, Zenon DEF LibType, SameClock
  <3>6. Sound(r, mtime, start_time)
    BY <3>2, <3>5 DEF Settled, Sound, SameClock
  <3>7. /\ lib' \in [Proc -> LibType]
        /\ \A q \in Proc : lib'[q].state # "off" => Sound(lib'[q], mtime', start_time')
    BY <2>l, <3>2, <3>4, <3>5, <3>6, Zenon
  <3> QED
    BY <2>t, <2>w, <3>2, <3>7, Zenon DEF Settled, TypeOK, World
<2>8. ASSUME NEW p \in Proc, NEW q \in Proc, Exec(p, q) PROVE Settled'
  <3>0. PICK r : r = Configured(Started(Loaded(lib[p].env)))
    BY Zenon
  <3>1. /\ lib' = [lib EXCEPT ![q] = r] /\ start_time' \in {start_time, SystemTime}
        /\ DontReset => start_time' = start_time
        /\ UNCHANGED <<now, file, mtime, stamp, ticks, changed, changes, last, set>>
    BY <2>8, <3>0, Zenon DEF Exec, Resets
  <3>2. lib[p].env \in Setting \cup {NoSetting}
    BY <2>t, Zenon DEF LibType
  <3>3. r \in LibType /\ Sound(r, mtime, start_time)
    BY <2>w, <3>0, <3>2, Starting, Zenon DEF Settled
  <3>4. /\ lib' \in [Proc -> LibType] /\ start_time' \in [Clock -> Int]
        /\ start_time'["real"] >= 0 /\ InStep(start_time')
        /\ \A u \in Proc : lib'[u].state # "off" => Sound(lib'[u], mtime', start_time')
    BY <2>l, <3>1, <3>3, Zenon
  <3> QED
    BY <2>t, <2>w, <3>1, <3>4, Zenon DEF Settled, TypeOK, World
<2>9. ASSUME NEW s \in Edits, Edit(s) PROVE Settled'
  BY <2>9, <2>t, <2>w DEF Edit, Settled, TypeOK, World
<2>10. CASE Second
  BY <2>10, <2>t, <2>w DEF Second, Settled, TypeOK, World
<2>11. CASE Touch
  <3>1. /\ mtime' \in Nat /\ mtime' >= mtime /\ changes' \in Nat
        /\ UNCHANGED <<now, file, stamp, start_time, ticks, lib, changed, last, set>>
    BY <2>11, <2>t, <2>w DEF Touch, World
  <3>2. ASSUME NEW q \in Proc, lib[q].state # "off" PROVE Sound(lib[q], mtime', start_time')
    BY <2>s, <2>t, <3>1, <3>2, Zenon DEF Settled
  <3> QED
    BY <2>t, <2>w, <3>1, <3>2, Zenon DEF Settled, TypeOK, World
<2>12. CASE UNCHANGED vars
  BY <2>12, <2>t, <2>w, Zenon DEF vars, Settled, TypeOK, World
<2> QED
  BY <2>1, <2>2, <2>3, <2>4, <2>5, <2>6, <2>7, <2>8, <2>9, <2>10, <2>11, <2>12, Zenon DEF Next
<1> QED
  BY <1>1, <1>2, PTL DEF Spec

\* The static variables of the library, the shared memory and the files keep their
\* types, for every setting that parse_ft_string() takes and every option.
THEOREM FakeTypeCorrect == Spec => []TypeOK
<1>1. Settled => TypeOK
  BY Zenon DEF Settled
<1> QED
  BY SettledInvariant, <1>1, PTL

\* Without FAKETIME_XRESET all clocks of a process have advanced by the same faked
\* time, whatever reset_time() and the shared start time were used for.
THEOREM ClocksTogether == ASSUME ~XReset PROVE Spec => []ClocksInStep
<1>1. Settled => ClocksInStep
  BY Zenon DEF Settled, ClocksInStep, Sound, InStep
<1> QED
  BY SettledInvariant, <1>1, PTL

\* Without FAKETIME_XRESET, FAKETIME_DONT_RESET makes processes under the same setting
\* see the same time, however late ftpl_init() or fake_clock_gettime() parsed it.
THEOREM SameTime == ASSUME ~XReset PROVE Spec => []SameSettingSameTime
<1>1. Settled => SameSettingSameTime
  BY DEF Settled, SameSettingSameTime, Sound
<1> QED
  BY SettledInvariant, <1>1, PTL

\* Without FAKETIME_XRESET the timestamp that utime() was asked to give a file is what
\* stat() says it is, in every process under the same offset.
THEOREM StampReadsBack == ASSUME ~XReset PROVE Spec => []TimestampReadsBack
<1>1. Settled => TimestampReadsBack
  <2> SUFFICES ASSUME Settled, NEW p \in Proc, stamp.asked # Unset, lib[p].state = "up",
                      lib[p].saved = stamp.saved, stamp.saved.kind = "offset",
                      lib[p].user_rate = 1
               PROVE  Faked([lib[p] EXCEPT !.inc_set = FALSE], "real", stamp.stored, ticks)
                        = stamp.asked
    BY Zenon DEF TimestampReadsBack
  <2>1. lib[p] \in LibType /\ stamp \in [stored : Int, asked : Int, saved : Setting]
    BY Zenon DEF Settled, TypeOK
  <2>2. PICK l : l = [lib[p] EXCEPT !.inc_set = FALSE]
    BY Zenon
  <2>3. /\ SameClock(lib[p], l) /\ ~l.inc_set
    BY <2>1, <2>2, Zenon DEF LibType, SameClock
  <2>4. /\ l.ft_mode = "start_at" /\ l.base = l.start["real"] + stamp.saved.n
        /\ l.user_rate = 1
    BY <2>3, Zenon DEF Settled, Sound, SameClock
  <2>5. l.start["real"] \in Int /\ stamp.saved.n \in Int
    BY <2>1, <2>3, Zenon DEF LibType, SameClock, Setting
  <2>6. stamp.stored = stamp.asked - stamp.saved.n
    BY Zenon DEF Settled
  <2>7. Faked(l, "real", stamp.stored, ticks) = l.base + (stamp.stored - l.start["real"]) * 1
    BY <2>3, <2>4, Zenon DEF Faked
  <2> QED
    BY <2>1, <2>2, <2>4, <2>5, <2>6, <2>7
<1> QED
  BY SettledInvariant, <1>1, PTL

\* The answer a process gets is the faked time under the setting it has fetched,
\* and that setting is in force.
LEMMA Answering ==
  ASSUME Settled, NEW p \in Proc, NEW c \in Clock, GetTime(p, c), NEW f, f = Fetched(lib[p])
  PROVE  /\ World /\ ticks \in Nat /\ SystemTime[c] \in Nat
         /\ lib[p] \in LibType /\ Sound(lib[p], mtime, start_time)
         /\ f \in LibType /\ Sound(f, mtime, start_time)
         /\ lib'[p].saved = f.saved
         /\ last'[p][c].ans = Faked(f, c, SystemTime[c], ticks)
<1>1. World /\ ticks \in Nat /\ SystemTime[c] \in Nat
  BY DEF Settled, TypeOK, World, SystemTime
<1>2. lib[p] \in LibType /\ Sound(lib[p], mtime, start_time)
  BY Zenon DEF Settled, TypeOK, GetTime
<1>3. f \in LibType /\ Sound(f, mtime, start_time)
  BY <1>1, <1>2, Fetching, Zenon
<1>4. PICK a, r : a = Faked(f, c, SystemTime[c], ticks) /\ r = Cached(f, c, SystemTime[c], a)
  BY Zenon
<1>5. SameClock(f, r)
  <2>1. SystemTime[c] \in Int
    BY <1>1
  <2>2. a \in Int
    BY <1>1, <1>3, <1>4, <2>1, Caching, Zenon
  <2> QED
    BY <1>1, <1>3, <1>4, <2>1, <2>2, Caching, Zenon DEF Alike
<1>6. /\ lib' = [lib EXCEPT ![p] = r]
      /\ last' = [last EXCEPT ![p] = [Remember(p, f) EXCEPT ![c] = [ans |-> a, same |-> TRUE]]]
  BY <1>4, Zenon DEF GetTime
<1>7. /\ lib \in [Proc -> LibType]
      /\ last \in [Proc -> [Clock -> [ans : Int, same : BOOLEAN]]]
  BY Zenon DEF Settled, TypeOK
<1>8. DOMAIN Remember(p, f) = Clock
  BY <1>7, Zenon DEF Remember
<1>9. lib'[p] = r /\ last'[p][c].ans = a
  BY <1>6, <1>7, <1>8, Zenon
<1> QED
  BY <1>1, <1>2, <1>3, <1>4, <1>5, <1>9, Zenon DEF SameClock

\* With FAKETIME_FOLLOW_ABSOLUTE no answer is ahead of the follow file, whichever mode
\* the process was in before it began to follow.
THEOREM NotAheadOfFile == Spec => NeverAhead
<1> DEFINE Behind(p, c) ==
      /\ FollowAbsolute
      /\ lib'[p].saved.kind = "follow"
      /\ Answers(p, c)
      => last'[p][c].ans <= mtime
<1>1. Settled /\ [Next]_vars => [\A p \in Proc, c \in Clock : Behind(p, c)]_vars
  <2> SUFFICES ASSUME Settled, NEW p \in Proc, NEW c \in Clock,
                      FollowAbsolute, lib'[p].saved.kind = "follow", Answers(p, c)
               PROVE  last'[p][c].ans <= mtime
    BY Zenon
  <2>1. PICK f : f = Fetched(lib[p])
    BY Zenon
  <2>2. /\ Sound(f, mtime, start_time) /\ f.saved.kind = "follow"
        /\ last'[p][c].ans = Faked(f, c, SystemTime[c], ticks)
    BY <2>1, Answering, Zenon DEF Answers
  <2>3. f.ft_mode = "freeze" /\ f.base_set /\ f.base <= mtime
    BY <2>2, Zenon DEF Sound
  <2> QED
    BY <2>2, <2>3, Zenon DEF Faked
<1> QED
  BY SettledInvariant, <1>1, PTL DEF Spec, NeverAhead
-----------------------------------------------------------------------------
(* What a process did before: when it fetched its setting, what it set the *)
(* time to, what it was answered last *)

\* A process that has set the time reads the offset that clock_settime() put into its
\* FAKETIME, now or with the next call.
SetInv(p) ==
  set[p].time # Unset =>
    /\ lib[p].state # "off" /\ ~lib[p].parse_config_file
    /\ lib[p].env = [kind |-> "offset", n |-> set[p].time - (set[p].at + Boot["real"]),
                     x |-> 0, i |-> 0]
    /\ lib[p].force \/ lib[p].saved = lib[p].env

\* What a process has fetched since the timestamp file last changed is what its source
\* says now.
FetchInv(p) ==
  /\ lib[p].last_data_fetch <= now + Boot["real"]
  /\ lib[p].parse_config_file /\ lib[p].last_data_fetch > changed + Boot["real"] =>
       lib[p].saved = Source(lib[p])

\* The last answer under the present setting is not later than the faked time.
AnswerInv(p, c) ==
  last[p][c].same =>
    lib[p].state # "off" /\ last[p][c].ans <= Faked(lib[p], c, now + Boot[c], ticks)

History ==
  /\ changed <= now
  /\ \A p \in Proc : SetInv(p) /\ FetchInv(p) /\ \A c \in Clock : AnswerInv(p, c)

\* What a call that goes through fake_clock_gettime() does to the library.
Refreshed(l, r) ==
  /\ r.env = l.env /\ r.parse_config_file = l.parse_config_file
  /\ r.state = l.state \/ r.state = "exited"
  /\ cache_expired(l) => /\ r.saved = Source(l) /\ ~r.force
                         /\ r.last_data_fetch = SystemTime["real"]
  /\ ~cache_expired(l) => /\ r.saved = l.saved /\ r.force = l.force
                          /\ r.last_data_fetch = l.last_data_fetch
  /\ ~Parses(l, r.saved) => SameClock(l, r) /\ r.inc_set = l.inc_set

\* What clock_settime(t) does to it.
Adjusted(l, r, t) ==
  /\ SameClock(l, r) /\ r.inc_set = l.inc_set /\ r.state \in {"up", "writing"}
  /\ r.env = [kind |-> "offset", n |-> t - (now + Boot["real"]), x |-> 0, i |-> 0]
  /\ ~r.parse_config_file /\ r.force /\ r.last_data_fetch = l.last_data_fetch

\* What each process set, fetched and was answered stays in accord with its clock,
\* through every call of its own and every change that the others make.
LEMMA HistoryInvariant == Spec => []History
\* The faked time does not run backwards while the clock stays the same.
<1>adv. ASSUME NEW l \in LibType, NEW r \in LibType, SameClock(l, r), r.inc_set = l.inc_set,
               NEW c \in Clock, NEW tp \in Int, NEW tq \in Int, tp <= tq,
               NEW k \in Nat, NEW m \in Nat, k <= m
        PROVE  Faked(l, c, tp, k) <= Faked(r, c, tq, m)
  <2>1. /\ l.base \in Int /\ l.inc \in Nat /\ l.user_rate \in Nat /\ l.start[c] \in Int
    BY Zenon DEF LibType
  <2>2. l.inc * k <= l.inc * m /\ l.inc * k \in Int /\ l.inc * m \in Int
    <3>1. ASSUME NEW x \in Nat, NEW y \in Nat, x <= y, NEW z \in Nat
          PROVE  z * x <= z * y /\ z * x \in Int /\ z * y \in Int
      BY <3>1
    <3> QED
      BY <1>adv, <2>1, <3>1, Zenon
  <2>3. PICK x, y : x = tp - l.start[c] /\ y = tq - l.start[c]
    BY Zenon
  <2>x. x \in Int /\ y \in Int /\ x <= y
    BY <1>adv, <2>1, <2>3
  <2>4. x * l.user_rate <= y * l.user_rate /\ x * l.user_rate \in Int /\ y * l.user_rate \in Int
    <3>1. ASSUME NEW z \in Nat PROVE x * z <= y * z /\ x * z \in Int /\ y * z \in Int
      BY <2>x
    <3> QED
      BY <2>1, <3>1, Zenon
  <2>5. /\ r.ft_mode = l.ft_mode /\ r.base = l.base /\ r.base_set = l.base_set /\ r.inc = l.inc
        /\ r.start = l.start /\ r.user_rate = l.user_rate
    BY <1>adv, Zenon DEF SameClock
  <2>6. CASE l.ft_mode = "freeze"
    BY <1>adv, <2>1, <2>5, <2>6 DEF Faked
  <2>7. CASE l.ft_mode # "freeze" /\ l.inc_set
    <3>1. Faked(l, c, tp, k) = l.base + l.inc * k /\ Faked(r, c, tq, m) = l.base + l.inc * m
      BY <1>adv, <2>5, <2>7, Zenon DEF Faked
    <3> QED
      BY <2>1, <2>2, <3>1
  <2>8. CASE l.ft_mode # "freeze" /\ ~l.inc_set
    <3>1. /\ Faked(l, c, tp, k) = l.base + x * l.user_rate
          /\ Faked(r, c, tq, m) = l.base + y * l.user_rate
      BY <1>adv, <2>3, <2>5, <2>8, Zenon DEF Faked
    <3> QED
      BY <2>1, <2>4, <3>1
  <2> QED
    BY <2>6, <2>7, <2>8, Zenon
<1> USE ProcAssumption, SettingAssumption
<1>1. Init => History
  <2> SUFFICES ASSUME Init PROVE History
    BY Zenon
  <2>1. PICK e \in FirstEnv, f \in FirstFile :
          /\ now = 1 /\ file = f /\ mtime = 0 /\ changed = 0
          /\ start_time = SystemTime
          /\ lib = [p \in Proc |-> IF p = Root THEN Configured(Started(Loaded(e))) ELSE Off]
          /\ last = [p \in Proc |-> [c \in Clock |-> Never]]
          /\ set = [p \in Proc |-> NotSet]
    BY Zenon DEF Init
  <2>2. World /\ start_time["real"] >= 0 /\ InStep(start_time)
    BY <2>1 DEF World, SystemTime, InStep
  <2>3. Configured(Started(Loaded(e))).last_data_fetch = 0
    BY <2>1, <2>2, Starting, Zenon
  <2>4. Off.last_data_fetch = 0
    BY <2>1, <2>2, Starting, Zenon
  <2>5. ASSUME NEW p \in Proc PROVE lib[p].last_data_fetch = 0
    BY <2>1, <2>3, <2>4, Zenon
  <2>6. ASSUME NEW p \in Proc PROVE FetchInv(p)
    BY <2>1, <2>5 DEF FetchInv
  <2>7. ASSUME NEW p \in Proc, NEW c \in Clock PROVE SetInv(p) /\ AnswerInv(p, c)
    BY <2>1, Zenon DEF SetInv, AnswerInv, Never, NotSet
  <2> QED
    <3>1. changed <= now
      BY <2>1
    <3> QED
      BY <2>6, <2>7, <3>1, Zenon DEF History
<1>2. Settled /\ Settled' /\ History /\ [Next]_vars => History'
<2> SUFFICES ASSUME Settled, Settled', History, [Next]_vars PROVE History'
  BY Zenon
<2>w. World /\ SystemTime["real"] = now + Boot["real"] /\ Boot["real"] \in Nat
  BY Zenon DEF Settled, TypeOK, World, SystemTime
<2>t. /\ lib \in [Proc -> LibType] /\ ticks \in Nat /\ changed \in Nat /\ now \in Nat
      /\ last \in [Proc -> [Clock -> [ans : Int, same : BOOLEAN]]]
      /\ set \in [Proc -> [time : Int, at : Nat]]
  BY Zenon DEF Settled, TypeOK
<2>p. lib' \in [Proc -> LibType] /\ ticks' \in Nat /\ changed' \in Nat /\ now' \in Nat
  BY Zenon DEF Settled, TypeOK
<2>h. changed <= now /\ \A p \in Proc : SetInv(p) /\ FetchInv(p) /\ \A c \in Clock : AnswerInv(p, c)
  BY Zenon DEF History
\* The answers so far are not later than what the same clock shows from now on.
<2>a. ASSUME NEW p \in Proc, NEW c \in Clock, last'[p][c] = last[p][c],
             SameClock(lib[p], lib'[p]), lib'[p].inc_set = lib[p].inc_set,
             lib[p].state # "off" => lib'[p].state # "off",
             now' >= now, ticks' >= ticks
      PROVE  AnswerInv(p, c)'
  <3> SUFFICES ASSUME last[p][c].same
               PROVE  last[p][c].ans <= Faked(lib'[p], c, now' + Boot[c], ticks')
    BY <2>a, <2>h, Zenon DEF AnswerInv
  <3>1. last[p][c].ans <= Faked(lib[p], c, now + Boot[c], ticks)
    BY <2>h, Zenon DEF AnswerInv
  <3>2. now + Boot[c] \in Int /\ now' + Boot[c] \in Int /\ now + Boot[c] <= now' + Boot[c]
    BY <2>a, <2>p, <2>t
  <3>3. lib[p] \in LibType /\ lib'[p] \in LibType /\ last[p][c].ans \in Int /\ ticks <= ticks'
    BY <2>a, <2>p, <2>t, Zenon
  <3>4. Faked(lib[p], c, now + Boot[c], ticks) <= Faked(lib'[p], c, now' + Boot[c], ticks')
    BY <2>a, <2>p, <2>t, <3>2, <3>3, <1>adv, Zenon
  <3>5. /\ Faked(lib[p], c, now + Boot[c], ticks) \in Int
        /\ Faked(lib'[p], c, now' + Boot[c], ticks') \in Int
    BY <2>p, <2>t, <3>2, <3>3, Caching, Zenon
  <3> QED
    BY <3>1, <3>3, <3>4, <3>5
\* A process that does nothing.
<2>o. ASSUME NEW q \in Proc, lib'[q] = lib[q], last'[q] = last[q], set'[q] = set[q],
             now' >= now, ticks' >= ticks,
             changed' = now \/ (changed' = changed /\ file' = file)
      PROVE  SetInv(q)' /\ FetchInv(q)' /\ \A c \in Clock : AnswerInv(q, c)'
  <3>1. SetInv(q)'
    BY <2>h, <2>o, Zenon DEF SetInv
  <3>2. FetchInv(q)'
    <4>1. lib[q].last_data_fetch \in Nat
      BY <2>t, Zenon DEF LibType
    <4>2. FetchInv(q)
      BY <2>h, Zenon
    <4> QED
      BY <2>o, <2>p, <2>t, <2>w, <4>1, <4>2 DEF FetchInv, Source
  <3>3. SameClock(lib[q], lib'[q]) /\ lib'[q].inc_set = lib[q].inc_set
    BY <2>o, Zenon DEF SameClock
  <3> QED
    BY <2>a, <2>o, <3>1, <3>2, <3>3, Zenon
\* What a call makes of the library, unless it sets the time.
<2>r. ASSUME NEW p \in Proc, lib[p].state = "up", Refreshed(lib[p], lib'[p]),
             set' = set, now' = now, file' = file, changed' = changed
      PROVE  SetInv(p)' /\ FetchInv(p)'
  <3>1. SetInv(p) /\ FetchInv(p)
    BY <2>h, Zenon
  <3>2. SetInv(p)'
    <4> SUFFICES ASSUME set[p].time # Unset
                 PROVE  /\ lib'[p].state # "off" /\ ~lib'[p].parse_config_file
                        /\ lib'[p].env = [kind |-> "offset",
                                          n |-> set[p].time - (set[p].at + Boot["real"]),
                                          x |-> 0, i |-> 0]
                        /\ lib'[p].force \/ lib'[p].saved = lib'[p].env
      BY <2>r, Zenon DEF SetInv
    <4>1. /\ ~lib[p].parse_config_file
          /\ lib[p].env = [kind |-> "offset", n |-> set[p].time - (set[p].at + Boot["real"]),
                           x |-> 0, i |-> 0]
          /\ lib[p].force \/ lib[p].saved = lib[p].env
      BY <3>1, Zenon DEF SetInv
    <4>2. set[p].time - (set[p].at + Boot["real"]) \in Int
      BY <2>t, <2>w
    <4>3. lib[p].env \in Setting
      BY <4>1, <4>2 DEF Setting
    <4>4. Source(lib[p]) = lib[p].env
      BY <4>1, <4>3, Zenon DEF Source
    <4> QED
      BY <2>r, <4>1, <4>4, Zenon DEF Refreshed
  <3>3. FetchInv(p)'
    <4>1. Source(lib[p])' = Source(lib[p])
      BY <2>r, Zenon DEF Source, Refreshed
    <4>2. CASE cache_expired(lib[p])
      <5>1. lib'[p].saved = Source(lib[p]) /\ lib'[p].last_data_fetch = now + Boot["real"]
        BY <2>r, <2>w, <4>2, Zenon DEF Refreshed
      <5> QED
        BY <2>r, <2>t, <2>w, <4>1, <5>1 DEF FetchInv
    <4>3. CASE ~cache_expired(lib[p])
      BY <2>r, <3>1, <4>1, <4>3, Zenon DEF FetchInv, Refreshed
    <4> QED
      BY <4>2, <4>3, Zenon
  <3> QED
    BY <3>2, <3>3, Zenon
\* The answers of a call that parsed another string are forgotten, or marked.
<2>m. ASSUME NEW p \in Proc, NEW f, NEW c \in Clock, NEW k, Refreshed(lib[p], k), k.saved = f.saved,
             SameClock(k, lib'[p]), lib'[p].inc_set = k.inc_set,
             lib[p].state # "off" => lib'[p].state # "off",
             last'[p][c] = Remember(p, f)[c], now' = now, ticks' >= ticks
      PROVE  AnswerInv(p, c)'
  <3>1. CASE Parses(lib[p], f.saved)
    <4>1. ~Remember(p, f)[c].same
      <5>1. CASE XReset
        <6>1. Remember(p, f)[c] = [last[p][c] EXCEPT !.same = FALSE]
          BY <3>1, <5>1, Zenon DEF Remember
        <6>2. last[p][c] \in [ans : Int, same : BOOLEAN]
          BY <2>t
        <6> QED
          BY <6>1, <6>2, Zenon
      <5>2. CASE ~XReset
        BY <3>1, <5>2, Zenon DEF Remember, Never
      <5> QED
        BY <5>1, <5>2, Zenon
    <4> QED
      BY <2>m, <4>1, Zenon DEF AnswerInv
  <3>2. CASE ~Parses(lib[p], f.saved)
    <4>1. last'[p][c] = last[p][c]
      BY <2>m, <3>2, Zenon DEF Remember
    <4>2. SameClock(lib[p], lib'[p]) /\ lib'[p].inc_set = lib[p].inc_set
      BY <2>m, <3>2, Zenon DEF Refreshed, SameClock
    <4>3. now' >= now
      BY <2>m, <2>t
    <4> QED
      BY <2>a, <2>m, <4>1, <4>2, <4>3, Zenon
  <3> QED
    BY <3>1, <3>2, Zenon
<2>n. ASSUME NEW p \in Proc, NEW f, NEW c \in Clock, Refreshed(lib[p], lib'[p]),
             lib'[p].saved = f.saved, lib'[p].state # "off",
             last'[p][c] = Remember(p, f)[c], now' = now, ticks' >= ticks
      PROVE  AnswerInv(p, c)'
  <3>1. SameClock(lib'[p], lib'[p])
    BY Zenon DEF SameClock
  <3> QED
    BY <2>m, <2>n, <3>1, Zenon
\* A call of fake_clock_gettime() with the setting fetched.
<2>f. ASSUME NEW p \in Proc, NEW c \in Clock, NEW f, f = Fetched(lib[p]),
             NEW a, a = Faked(f, c, SystemTime[c], ticks), NEW r, r = Cached(f, c, SystemTime[c], a)
      PROVE  f \in LibType /\ a \in Int /\ r \in LibType /\ Alike(f, r) /\ Refreshed(lib[p], r)
  <3>1. f \in LibType /\ Refreshed(lib[p], f)
    BY <2>f, <2>t, <2>w, Fetching, Zenon DEF Refreshed
  <3>2. SystemTime[c] \in Int
    BY <2>t DEF SystemTime
  <3>3. a \in Int
    BY <2>f, <2>t, <3>1, <3>2, Caching, Zenon
  <3>4. r \in LibType /\ Alike(f, r)
    BY <2>f, <2>t, <3>1, <3>2, <3>3, Caching, Zenon
  <3> QED
    BY <3>1, <3>3, <3>4, Zenon DEF Alike, Refreshed, SameClock
\* Setting the time.
<2>v. ASSUME NEW l \in LibType, NEW t \in Int PROVE Adjusted(l, clock_settime(l, t), t)
  <3>1. PICK e : e = [kind |-> "offset", n |-> t - (now + Boot["real"]), x |-> 0, i |-> 0]
    BY Zenon
  <3>2. PICK st \in {"writing", "up"} : st = IF UpdateFile THEN "writing" ELSE "up"
    BY Zenon
  <3>3. clock_settime(l, t)
          = [l EXCEPT !.env = e, !.parse_config_file = FALSE, !.force = TRUE, !.state = st]
    BY <2>w, <3>1, <3>2, Zenon DEF clock_settime
  <3> QED
    <4>1. PICK r : r = clock_settime(l, t)
      BY Zenon
    <4> QED
      BY <3>1, <3>2, <3>3, <4>1, Zenon DEF LibType, SameClock, Adjusted
<2>s. ASSUME NEW p \in Proc, NEW k \in LibType, NEW t \in Int, lib'[p] = clock_settime(k, t),
             k.last_data_fetch <= now + Boot["real"],
             set' = [set EXCEPT ![p] = [time |-> t, at |-> now]], now' = now
      PROVE  SetInv(p)' /\ FetchInv(p)'
  <3>1. Adjusted(k, lib'[p], t)
    BY <2>s, <2>v, Zenon
  <3>3. set'[p].time = t /\ set'[p].at = now
    BY <2>s, <2>t, Zenon
  <3>4. SetInv(p)'
    BY <3>1, <3>3, Zenon DEF SetInv, Adjusted
  <3>5. FetchInv(p)'
    BY <2>s, <3>1, Zenon DEF FetchInv, Adjusted
  <3> QED
    BY <3>4, <3>5, Zenon
\* One process calls, the others do not.
<2>q. ASSUME NEW p \in Proc, NEW r, lib' = [lib EXCEPT ![p] = r],
             \A q \in Proc : q # p => last'[q] = last[q] /\ set'[q] = set[q],
             now' = now, ticks' >= ticks,
             changed' = now \/ (changed' = changed /\ file' = file),
             SetInv(p)' /\ FetchInv(p)', \A c \in Clock : AnswerInv(p, c)'
      PROVE  History'
  <3>1. now' >= now /\ changed' <= now'
    BY <2>h, <2>q, <2>t
  <3>2. ASSUME NEW q \in Proc, q # p PROVE SetInv(q)' /\ FetchInv(q)' /\ \A c \in Clock : AnswerInv(q, c)'
    <4>1. lib'[q] = lib[q] /\ last'[q] = last[q] /\ set'[q] = set[q]
      BY <2>q, <2>t, <3>2, Zenon
    <4> QED
      BY <2>o, <2>q, <3>1, <4>1, Zenon
  <3> QED
    BY <2>q, <3>1, <3>2, Zenon DEF History
<2>1. ASSUME NEW p \in Proc, NEW c \in Clock, GetTime(p, c) PROVE History'
  <3>0. PICK f, a, r : /\ f = Fetched(lib[p])
                       /\ a = Faked(f, c, SystemTime[c], ticks)
                       /\ r = Cached(f, c, SystemTime[c], a)
    BY Zenon
  <3>1. /\ lib[p].state = "up" /\ f.state # "exited" /\ lib' = [lib EXCEPT ![p] = r]
        /\ ticks' = IF Ticks(f) THEN ticks + 1 ELSE ticks
        /\ last' = [last EXCEPT ![p] = [Remember(p, f) EXCEPT ![c] = [ans |-> a, same |-> TRUE]]]
        /\ now' = now /\ file' = file /\ changed' = changed /\ set' = set
    BY <2>1, <3>0, Zenon DEF GetTime
  <3>2. f \in LibType /\ r \in LibType /\ Alike(f, r) /\ Refreshed(lib[p], r)
    BY <2>f, <3>0, Zenon
  <3>3. lib'[p] = r /\ \A q \in Proc : q # p => last'[q] = last[q] /\ set'[q] = set[q]
    BY <2>t, <3>1, Zenon
  <3>4. ticks' >= ticks
    BY <2>t, <3>1
  <3>5. SetInv(p)' /\ FetchInv(p)'
    BY <2>r, <3>1, <3>2, <3>3, Zenon
  <3>6. DOMAIN Remember(p, f) = Clock /\ DOMAIN last = Proc
    BY <2>t, Zenon DEF Remember
  <3>7. ASSUME NEW d \in Clock, d # c
        PROVE  AnswerInv(p, d)'
    <4>1. last'[p][d] = Remember(p, f)[d]
      BY <3>1, <3>6, <3>7, Zenon
    <4>2. /\ Refreshed(lib[p], lib'[p]) /\ lib'[p].saved = f.saved
          /\ lib'[p].state # "off"
      BY <3>1, <3>2, <3>3, Zenon DEF Alike, SameClock, Refreshed
    <4> QED
      BY <2>n, <3>1, <3>4, <4>1, <4>2, Zenon
  <3>8. /\ lib'[p].state # "off"
        /\ last'[p][c].ans <= Faked(lib'[p], c, now' + Boot[c], ticks')
    <4>1. last'[p][c].ans = a /\ lib'[p].state # "off"
      BY <3>1, <3>2, <3>3, <3>6, Zenon DEF Refreshed
    <4>2. now + Boot[c] \in Int /\ now + Boot[c] <= now + Boot[c] /\ ticks <= ticks'
      BY <2>p, <2>t, <3>4
    <4>3. Faked(f, c, now + Boot[c], ticks) <= Faked(r, c, now + Boot[c], ticks')
      BY <2>p, <2>t, <3>2, <4>2, <1>adv, Zenon DEF Alike
    <4> QED
      BY <3>0, <3>1, <3>3, <4>1, <4>3, Zenon DEF SystemTime
  <3>9. AnswerInv(p, c)'
    BY <3>8, Zenon DEF AnswerInv
  <3> QED
    BY <2>q, <3>1, <3>3, <3>4, <3>5, <3>7, <3>9, Zenon
<2>2. ASSUME NEW p \in Proc, NEW tp \in FileTimes \cup {stamp.stored}, Stat(p, tp) PROVE History'
  <3>0. PICK j, f, o, a, r : /\ j = [lib[p] EXCEPT !.inc_set = FALSE] /\ f = Fetched(j)
                             /\ o = [f EXCEPT !.inc_set = lib[p].inc_set]
                             /\ a = Faked(f, "real", tp, ticks + 2)
                             /\ r = Cached(o, "real", tp, a)
    BY Zenon
  <3>1. /\ lib[p].state = "up" /\ f.state # "exited" /\ lib' = [lib EXCEPT ![p] = r]
        /\ ticks' = IF Ticks(f) THEN ticks + 3 ELSE ticks
        /\ last' = [last EXCEPT ![p] = Remember(p, f)]
        /\ now' = now /\ file' = file /\ changed' = changed /\ set' = set
    BY <2>2, <3>0, Zenon DEF Stat
  <3>2. tp \in Int /\ ticks + 2 \in Nat
    <4>0. stamp \in [stored : Int, asked : Int, saved : Setting] /\ FileTimes \subseteq Nat
      BY Zenon DEF Settled, TypeOK
    <4>1. CASE tp = stamp.stored
      BY <2>t, <4>0, <4>1
    <4>2. CASE tp \in FileTimes
      BY <2>t, <4>0, <4>2
    <4> QED
      BY <4>1, <4>2, Zenon
  <3>3. lib[p] \in LibType /\ lib[p].inc_set \in BOOLEAN
    BY <2>t, Zenon DEF LibType
  <3>4. /\ j \in LibType /\ SameClock(lib[p], j) /\ j.env = lib[p].env /\ j.force = lib[p].force
        /\ j.parse_config_file = lib[p].parse_config_file /\ j.state = lib[p].state
        /\ j.last_data_fetch = lib[p].last_data_fetch
    BY <3>0, <3>3, Zenon DEF LibType, SameClock
  <3>5. f \in LibType /\ Refreshed(j, f)
    BY <2>w, <3>0, <3>4, Fetching, Zenon DEF Refreshed
  <3>6. /\ o \in LibType /\ SameClock(f, o) /\ o.inc_set = lib[p].inc_set /\ o.state = f.state
        /\ o.env = f.env /\ o.parse_config_file = f.parse_config_file
        /\ o.last_data_fetch = f.last_data_fetch /\ o.force = f.force
    BY <3>0, <3>3, <3>5, ZenonT(60) DEF LibType, SameClock
  <3>7. Alike(o, r)
    <4>1. a \in Int
      BY <3>0, <3>2, <3>5, Caching, Zenon
    <4> QED
      BY <3>0, <3>2, <3>6, <4>1, Caching, Zenon
  <3>8. Refreshed(lib[p], r) /\ r.saved = f.saved /\ r.state # "off"
    <4>1. Source(j) = Source(lib[p]) /\ (cache_expired(j) <=> cache_expired(lib[p]))
      BY <3>4, Zenon DEF Source, cache_expired
    <4>2. Parses(j, r.saved) <=> Parses(lib[p], r.saved)
      BY <3>4, Zenon DEF Parses, SameClock
    <4> QED
      BY <3>1, <3>4, <3>5, <3>6, <3>7, <4>1, <4>2 DEF Alike, Refreshed, SameClock
  <3>9. lib'[p] = r /\ (\A q \in Proc : q # p => last'[q] = last[q] /\ set'[q] = set[q])
        /\ last'[p] = Remember(p, f)
    BY <2>t, <3>1, Zenon
  <3>10. ticks' >= ticks
    BY <2>t, <3>1
  <3>11. SetInv(p)' /\ FetchInv(p)'
    BY <2>r, <3>1, <3>8, <3>9, Zenon
  <3>12. ASSUME NEW c \in Clock PROVE AnswerInv(p, c)'
    <4>1. /\ Refreshed(lib[p], lib'[p]) /\ lib'[p].saved = f.saved
          /\ lib'[p].state # "off" /\ last'[p][c] = Remember(p, f)[c]
      BY <3>8, <3>9, Zenon
    <4> QED
      BY <2>n, <3>1, <3>10, <4>1, Zenon
  <3> QED
    BY <2>q, <3>1, <3>9, <3>10, <3>11, <3>12, Zenon
<2>3. ASSUME NEW p \in Proc, NEW t \in SetTimes, SetTime(p, t) PROVE History'
  <3>1. /\ lib[p].state = "up" /\ lib' = [lib EXCEPT ![p] = clock_settime(lib[p], t)]
        /\ changed' = now \/ (changed' = changed /\ file' = file)
        /\ set' = [set EXCEPT ![p] = [time |-> t, at |-> now]]
        /\ now' = now /\ ticks' = ticks /\ last' = last
    BY <2>3, Zenon DEF SetTime, Truncate
  <3>2. t \in Int /\ ticks' >= ticks /\ now' >= now
    <4>1. SetTimes \subseteq Nat
      BY Zenon
    <4> QED
      BY <2>t, <3>1, <4>1
  <3>3. /\ lib'[p] = clock_settime(lib[p], t)
        /\ \A q \in Proc : q # p => last'[q] = last[q] /\ set'[q] = set[q]
    BY <2>t, <3>1, Zenon
  <3>4. SetInv(p)' /\ FetchInv(p)'
    BY <2>h, <2>s, <2>t, <3>1, <3>2, <3>3, Zenon DEF FetchInv
  <3>5. /\ SameClock(lib[p], lib'[p]) /\ lib'[p].inc_set = lib[p].inc_set
        /\ lib'[p].state # "off"
    <4>1. lib[p] \in LibType
      BY <2>t, Zenon
    <4>2. Adjusted(lib[p], clock_settime(lib[p], t), t)
      BY <2>v, <3>2, <4>1, Zenon
    <4> QED
      BY <3>3, <4>2, Zenon DEF Adjusted
  <3>6. ASSUME NEW c \in Clock PROVE AnswerInv(p, c)'
    BY <2>a, <3>1, <3>2, <3>5, Zenon
  <3> QED
    BY <2>q, <3>1, <3>2, <3>3, <3>4, <3>6, Zenon
<2>4. ASSUME NEW p \in Proc, NEW d \in SetTimes, AdjTime(p, d) PROVE History'
  <3>0. PICK f, a, k : /\ f = Fetched(lib[p])
                       /\ a = Faked(f, "real", SystemTime["real"], ticks)
                       /\ k = Cached(f, "real", SystemTime["real"], a)
    BY Zenon
  <3>1. /\ lib[p].state = "up" /\ f.state # "exited"
        /\ lib' = [lib EXCEPT ![p] = clock_settime(k, a + d)]
        /\ ticks' = IF Ticks(f) THEN ticks + 1 ELSE ticks
        /\ last' = [last EXCEPT ![p] = Remember(p, f)]
        /\ changed' = now \/ (changed' = changed /\ file' = file)
        /\ set' = [set EXCEPT ![p] = [time |-> a + d, at |-> now]]
        /\ now' = now
    BY <2>4, <3>0, Zenon DEF AdjTime, Truncate
  <3>2. a \in Int /\ k \in LibType /\ Alike(f, k) /\ Refreshed(lib[p], k)
    BY <2>f, <3>0, Zenon
  <3>3. a + d \in Int /\ ticks' >= ticks
    <4>1. SetTimes \subseteq Nat
      BY Zenon
    <4> QED
      BY <2>t, <3>1, <3>2, <4>1
  <3>4. /\ lib'[p] = clock_settime(k, a + d) /\ last'[p] = Remember(p, f)
        /\ \A q \in Proc : q # p => last'[q] = last[q] /\ set'[q] = set[q]
    BY <2>t, <3>1, Zenon
  <3>5. k.last_data_fetch <= now + Boot["real"]
    <4>1. lib[p].last_data_fetch <= now + Boot["real"]
      BY <2>h, Zenon DEF FetchInv
    <4>2. k.last_data_fetch = lib[p].last_data_fetch \/ k.last_data_fetch = now + Boot["real"]
      BY <2>w, <3>2, Zenon DEF Refreshed
    <4> QED
      BY <2>t, <2>w, <4>1, <4>2
  <3>6. SetInv(p)' /\ FetchInv(p)'
    BY <2>s, <3>1, <3>2, <3>3, <3>4, <3>5, Zenon
  <3>7. /\ SameClock(k, lib'[p]) /\ lib'[p].inc_set = k.inc_set
        /\ lib'[p].state # "off" /\ k.saved = f.saved
    <4>1. Adjusted(k, lib'[p], a + d)
      BY <2>v, <3>2, <3>3, <3>4, Zenon
    <4> QED
      BY <3>2, <4>1, Zenon DEF Adjusted, Alike, SameClock
  <3>8. ASSUME NEW c \in Clock PROVE AnswerInv(p, c)'
    BY <2>m, <3>1, <3>2, <3>3, <3>4, <3>7, Zenon
  <3> QED
    BY <2>q, <3>1, <3>3, <3>4, <3>6, <3>8, Zenon
<2>5. ASSUME NEW p \in Proc, UtimeNow(p), p \notin FakeUtime PROVE History'
  <3>0. PICK f, a, r : /\ f = Fetched(lib[p])
                       /\ a = Faked(f, "real", SystemTime["real"], ticks)
                       /\ r = Cached(f, "real", SystemTime["real"], a)
    BY Zenon
  <3>1. /\ lib[p].state = "up" /\ f.state # "exited" /\ lib' = [lib EXCEPT ![p] = r]
        /\ ticks' = IF Ticks(f) THEN ticks + 1 ELSE ticks
        /\ last' = [last EXCEPT ![p] = Remember(p, f)]
        /\ now' = now /\ file' = file /\ changed' = changed /\ set' = set
    BY <2>5, <3>0, Zenon DEF UtimeNow
  <3>2. Alike(f, r) /\ Refreshed(lib[p], r)
    BY <2>f, <3>0, Zenon
  <3>3. /\ lib'[p] = r /\ last'[p] = Remember(p, f) /\ lib[p].state # "off"
        /\ \A q \in Proc : q # p => last'[q] = last[q] /\ set'[q] = set[q]
    BY <2>t, <3>1, Zenon
  <3>4. ticks' >= ticks
    BY <2>t, <3>1
  <3>5. SetInv(p)' /\ FetchInv(p)'
    BY <2>r, <3>1, <3>2, <3>3, Zenon
  <3>6. ASSUME NEW c \in Clock PROVE AnswerInv(p, c)'
    <4>1. /\ Refreshed(lib[p], lib'[p]) /\ lib'[p].saved = f.saved
          /\ lib'[p].state # "off" /\ last'[p][c] = Remember(p, f)[c]
      BY <3>1, <3>2, <3>3, Zenon DEF Alike, SameClock, Refreshed
    <4> QED
      BY <2>n, <3>1, <3>4, <4>1, Zenon
  <3> QED
    BY <2>q, <3>1, <3>3, <3>4, <3>5, <3>6, Zenon
<2>6. ASSUME NEW p \in Proc, WriteFile(p) \/ Exit(p) PROVE History'
  <3>1. PICK st \in {"up", "exited"} : lib' = [lib EXCEPT ![p].state = st]
    BY <2>6, Zenon DEF WriteFile, Exit
  <3>2. /\ lib[p] \in LibType /\ lib[p].state # "off"
        /\ changed' = now \/ (changed' = changed /\ file' = file)
        /\ now' = now /\ ticks' = ticks /\ last' = last /\ set' = set
    BY <2>6, <2>t, Zenon DEF WriteFile, Exit
  <3>3. PICK r : r = [lib[p] EXCEPT !.state = st]
    BY Zenon
  <3>4. lib' = [lib EXCEPT ![p] = r] /\ lib'[p] = r
    BY <2>t, <3>1, <3>3, Zenon
  <3>5. /\ SameClock(lib[p], r) /\ r.inc_set = lib[p].inc_set /\ r.state # "off"
        /\ r.env = lib[p].env /\ r.parse_config_file = lib[p].parse_config_file
        /\ r.last_data_fetch = lib[p].last_data_fetch /\ r.force = lib[p].force
    BY <3>1, <3>2, <3>3, Zenon DEF LibType, SameClock
  <3>6. ticks' >= ticks /\ now' >= now
    BY <2>t, <3>2
  <3>7. SetInv(p)'
    BY <2>h, <3>2, <3>4, <3>5, Zenon DEF SetInv, SameClock
  <3>8. FetchInv(p)'
    <4>1. FetchInv(p) /\ lib[p].last_data_fetch \in Nat /\ r.saved = lib[p].saved
      BY <2>h, <3>2, <3>5, Zenon DEF LibType, SameClock
    <4> QED
      BY <2>t, <2>w, <3>2, <3>4, <3>5, <4>1 DEF FetchInv, Source
  <3>9. ASSUME NEW c \in Clock PROVE AnswerInv(p, c)'
    BY <2>a, <3>2, <3>4, <3>5, <3>6, Zenon
  <3> QED
    BY <2>q, <3>2, <3>4, <3>6, <3>7, <3>8, <3>9, Zenon
<2>7. ASSUME NEW p \in Proc, NEW q \in Proc, Exec(p, q) PROVE History'
  <3>0. PICK r : r = Configured(Started(Loaded(lib[p].env)))
    BY Zenon
  <3>1. /\ lib[q].state = "off" /\ lib' = [lib EXCEPT ![q] = r]
        /\ now' = now /\ ticks' = ticks /\ last' = last /\ set' = set
        /\ file' = file /\ changed' = changed
    BY <2>7, <3>0, Zenon DEF Exec
  <3>2. lib[p].env \in Setting \cup {NoSetting}
    BY <2>t, Zenon DEF LibType
  <3>3. r.last_data_fetch = 0 /\ lib'[q] = r
    BY <2>t, <2>w, <3>0, <3>1, <3>2, Starting, Zenon DEF Settled
  <3>4. SetInv(q)' /\ \A c \in Clock : AnswerInv(q, c)'
    BY <2>h, <3>1, Zenon DEF SetInv, AnswerInv
  <3>5. FetchInv(q)' /\ ticks' >= ticks
    BY <2>p, <2>t, <2>w, <3>1, <3>3 DEF FetchInv
  <3> QED
    BY <2>q, <3>1, <3>4, <3>5, Zenon
\* Nobody calls: the setting or a file changes, or time passes.
<2>8. CASE /\ lib' = lib /\ last' = last /\ set' = set /\ ticks' = ticks
           /\ \/ now' = now /\ changed' = now
              \/ now' = now /\ changed' = changed /\ file' = file
              \/ now' = now + 1 /\ changed' = changed /\ file' = file
  <3>1. now' >= now /\ ticks' >= ticks /\ changed' <= now'
    BY <2>8, <2>h, <2>t
  <3>2. ASSUME NEW q \in Proc PROVE SetInv(q)' /\ FetchInv(q)' /\ \A c \in Clock : AnswerInv(q, c)'
    BY <2>8, <2>o, <3>1, Zenon
  <3> QED
    BY <3>1, <3>2, Zenon DEF History
<2>9. ASSUME NEW p \in Proc, (\E t \in SetTimes : Utime(p, t)) \/ (UtimeNow(p) /\ p \in FakeUtime)
      PROVE  History'
  BY <2>8, <2>9, Zenon DEF Utime, UtimeNow
<2>10. CASE (\E s \in Edits : Edit(s)) \/ Second \/ Touch \/ UNCHANGED vars
  BY <2>8, <2>10, Zenon DEF Edit, Second, Touch, vars
<2> QED
  BY <2>1, <2>2, <2>3, <2>4, <2>5, <2>6, <2>7, <2>9, <2>10, Zenon DEF Next
<1> QED
  BY SettledInvariant, <1>1, <1>2, PTL DEF Spec

\* The caching in fake_clock_gettime() delays a new setting by at most
\* FAKETIME_CACHE_DURATION seconds.
THEOREM EditsTakeEffect == Spec => TakesEffect
<1> DEFINE Effective(p, c) ==
      /\ lib[p].parse_config_file
      /\ now - changed > CacheDuration
      /\ Answers(p, c)
      => lib'[p].saved = Source(lib[p])
<1>1. Settled /\ History /\ [Next]_vars => [\A p \in Proc, c \in Clock : Effective(p, c)]_vars
  <2> SUFFICES ASSUME Settled, History, NEW p \in Proc, NEW c \in Clock,
                      lib[p].parse_config_file, now - changed > CacheDuration, Answers(p, c)
               PROVE  lib'[p].saved = Source(lib[p])
    BY Zenon
  <2>1. PICK f : f = Fetched(lib[p])
    BY Zenon
  <2>2. World /\ lib[p] \in LibType /\ lib'[p].saved = f.saved
    BY <2>1, Answering, Zenon DEF Answers
  <2>3. CASE cache_expired(lib[p])
    BY <2>1, <2>2, <2>3, Fetching, Zenon
  <2>4. CASE ~cache_expired(lib[p])
    <3>1. lib[p].saved = f.saved
      BY <2>1, <2>2, <2>4, Fetching, Zenon
    <3>2. /\ now \in Nat /\ changed \in Nat /\ Boot["real"] \in Nat
          /\ lib[p].last_data_fetch \in Nat
      BY <2>2, Zenon DEF Settled, TypeOK, LibType
    <3>3. ~(SystemTime["real"] - lib[p].last_data_fetch > CacheDuration)
      BY <2>4, Zenon DEF cache_expired
    <3>4. SystemTime["real"] = now + Boot["real"]
      BY Zenon DEF SystemTime
    <3>5. lib[p].last_data_fetch > changed + Boot["real"]
      BY <3>2, <3>3, <3>4
    <3> QED
      BY <2>2, <3>1, <3>5, Zenon DEF History, FetchInv
  <2> QED
    BY <2>3, <2>4, Zenon
<1> QED
  BY SettledInvariant, HistoryInvariant, <1>1, PTL DEF Spec, TakesEffect

\* Time does not run backwards for a process as long as fake_clock_gettime() finds the
\* same setting, whatever the mode, the modifiers and the options.
THEOREM NeverBack == Spec => Monotone
<1> DEFINE Onward(p, c) ==
      /\ last[p][c].same
      /\ lib'[p].saved = lib[p].saved
      /\ lib[p].saved.kind = "follow" => FollowAbsolute
      /\ Answers(p, c)
      => last'[p][c].ans >= last[p][c].ans
<1>1. Settled /\ History /\ [Next]_vars => [\A p \in Proc, c \in Clock : Onward(p, c)]_vars
  <2> SUFFICES ASSUME Settled, History, NEW p \in Proc, NEW c \in Clock,
                      last[p][c].same, lib'[p].saved = lib[p].saved,
                      lib[p].saved.kind = "follow" => FollowAbsolute, Answers(p, c)
               PROVE  last'[p][c].ans >= last[p][c].ans
    BY Zenon
  <2>1. PICK f : f = Fetched(lib[p])
    BY Zenon
  <2>2. /\ World /\ ticks \in Nat /\ SystemTime[c] \in Nat /\ SystemTime[c] = now + Boot[c]
        /\ lib[p] \in LibType /\ Sound(lib[p], mtime, start_time)
        /\ f \in LibType /\ Sound(f, mtime, start_time) /\ f.saved = lib[p].saved
        /\ last'[p][c].ans = Faked(f, c, SystemTime[c], ticks)
    BY <2>1, Answering, Zenon DEF Answers, SystemTime
  <2>3. last[p][c].ans <= Faked(lib[p], c, SystemTime[c], ticks) /\ last[p][c].ans \in Int
    <3>1. AnswerInv(p, c)
      BY Zenon DEF History
    <3>2. last[p][c].ans \in Int
      <4>1. last \in [Proc -> [Clock -> [ans : Int, same : BOOLEAN]]]
        BY Zenon DEF Settled, TypeOK
      <4>2. last[p][c] \in [ans : Int, same : BOOLEAN]
        BY <4>1, Zenon
      <4> QED
        BY <4>2
    <3> QED
      BY <2>2, <3>1, <3>2, Zenon DEF AnswerInv
  <2>4. CASE ~Parses(lib[p], f.saved) \/ ~cache_expired(lib[p])
    <3>1. SameClock(lib[p], f) /\ f.inc_set = lib[p].inc_set
      BY <2>1, <2>2, <2>4, Fetching, Zenon DEF SameClock
    <3>2. Faked(f, c, SystemTime[c], ticks) = Faked(lib[p], c, SystemTime[c], ticks)
      BY <3>1, Zenon DEF Faked, SameClock
    <3> QED
      BY <2>2, <2>3, <3>2, Zenon
  <2>5. CASE Parses(lib[p], f.saved) /\ cache_expired(lib[p])
    <3>1. lib[p].saved.kind = "follow" /\ FollowAbsolute
      BY <2>2, <2>5, Zenon DEF Parses
    <3>2. /\ f.ft_mode = "freeze" /\ f.base_set /\ f.base = mtime
          /\ lib[p].ft_mode = "freeze" /\ lib[p].base_set /\ lib[p].base <= mtime
      <4>1. f.base = mtime
        BY <2>1, <2>2, <2>5, <3>1, Fetching, ZenonT(60)
      <4> QED
        BY <2>2, <3>1, <4>1, Zenon DEF Sound
    <3>3. /\ Faked(f, c, SystemTime[c], ticks) = mtime
          /\ Faked(lib[p], c, SystemTime[c], ticks) = lib[p].base
      BY <3>2, Zenon DEF Faked
    <3>4. lib[p].base \in Int /\ mtime \in Nat
      BY <2>2, Zenon DEF LibType, World
    <3> QED
      BY <2>2, <2>3, <3>2, <3>3, <3>4
  <2> QED
    BY <2>4, <2>5, Zenon
<1> QED
  BY SettledInvariant, HistoryInvariant, <1>1, PTL DEF Spec, Monotone

\* A process that sets the time with clock_settime(), settimeofday() or adjtime() reads
\* it back, plus the time that has passed since.
THEOREM SetReadsBack == Spec => SetTimeReadsBack
<1> DEFINE ReadsBack(p) ==
      /\ set[p].time # Unset
      /\ lib[p].user_rate = 1 /\ ~lib[p].inc_set
      /\ Answers(p, "real")
      => last'[p]["real"].ans = set[p].time + (now - set[p].at)
<1>1. Settled /\ History /\ [Next]_vars => [\A p \in Proc : ReadsBack(p)]_vars
  <2> SUFFICES ASSUME Settled, History, NEW p \in Proc, set[p].time # Unset,
                      lib[p].user_rate = 1, ~lib[p].inc_set, Answers(p, "real")
               PROVE  last'[p]["real"].ans = set[p].time + (now - set[p].at)
    BY Zenon
  <2>1. PICK f : f = Fetched(lib[p])
    BY Zenon
  <2>2. /\ World /\ lib[p] \in LibType /\ f \in LibType /\ Sound(f, mtime, start_time)
        /\ last'[p]["real"].ans = Faked(f, "real", SystemTime["real"], ticks)
    BY <2>1, Answering, Zenon DEF Answers
  <2>3. PICK n : n = set[p].time - (set[p].at + Boot["real"])
    BY Zenon
  <2>4. PICK e : e = [kind |-> "offset", n |-> n, x |-> 0, i |-> 0]
    BY Zenon
  <2>5. /\ ~lib[p].parse_config_file /\ lib[p].env = e /\ (lib[p].force \/ lib[p].saved = e)
    BY <2>3, <2>4, Zenon DEF History, SetInv
  <2>6. set[p].time \in Int /\ set[p].at \in Nat /\ now \in Nat /\ Boot["real"] \in Nat
    BY Zenon DEF Settled, TypeOK
  <2>7. n \in Int /\ e \in Setting
    BY <2>3, <2>4, <2>6 DEF Setting
  <2>8. Source(lib[p]) = e
    BY <2>5, <2>7, SettingAssumption, Zenon DEF Source
  <2>9. f.saved = e /\ f.user_rate = 1 /\ ~f.inc_set
    <3>1. CASE cache_expired(lib[p])
      <4>1. e.kind = "offset" /\ e.x = 0 /\ e.i = 0
        BY <2>4, Zenon
      <4>2. f.saved = e /\ f.user_rate = lib[p].user_rate /\ f.inc_set = lib[p].inc_set
        BY <2>1, <2>2, <2>8, <3>1, <4>1, Fetching, Zenon
      <4> QED
        BY <4>2, Zenon
    <3>2. CASE ~cache_expired(lib[p])
      BY <2>1, <2>2, <2>5, <3>2, Fetching, ZenonT(60) DEF cache_expired
    <3> QED
      BY <3>1, <3>2, Zenon
  <2>10. f.ft_mode = "start_at" /\ f.base = f.start["real"] + n
    BY <2>2, <2>4, <2>9 DEF Sound
  <2>11. f.start["real"] \in Int /\ SystemTime["real"] = now + Boot["real"]
    BY <2>2, Zenon DEF LibType, SystemTime
  <2>12. Faked(f, "real", SystemTime["real"], ticks)
           = f.base + (SystemTime["real"] - f.start["real"]) * 1
    BY <2>9, <2>10, Zenon DEF Faked
  <2>13. last'[p]["real"].ans = n + (now + Boot["real"])
    BY <2>2, <2>6, <2>7, <2>10, <2>11, <2>12
  <2> QED
    BY <2>3, <2>6, <2>13
<1> QED
  BY SettledInvariant, HistoryInvariant, <1>1, PTL DEF Spec, SetTimeReadsBack
=============================================================================

-------------------------------- MODULE Gate --------------------------------
(***************************************************************************)
(* Whether a call for the time is faked at all.  Threads of one process    *)
(* initialise the library on first use, through a mutex that checks for    *)
(* errors so that an initialiser that calls back does not block itself;    *)
(* then every call passes dont_fake of its thread, the limits on the       *)
(* seconds and the number of calls, the command to be spawned and the      *)
(* mode.  Whether the clock is faked, real or refused is all that is kept  *)
(* of the time itself.                                                     *)
(***************************************************************************)
EXTENDS Integers, FiniteSets

CONSTANTS
  Thread,
  Settings,     \* environments; see Setting
  CounterMax,   \* LONG_MAX
  MaxElapsed,   \* bound on the seconds that pass
  MaxCalls,     \* bound on the calls
  None

Unset == -1

\* What the environment of a process says:
\*   skip               the command is skipped, or not among the only ones
\*   at                 the time is given as @... or %..., which parse_ft_string
\*                      lets override FT_NOOP
\*   startSecs, stopSecs, startCalls, stopCalls   FAKETIME_START_AFTER_..., ...
\*   spawn, spawnSecs, spawnCalls   FAKETIME_SPAWN_...
\*   mt                 built with PTHREAD_SINGLETHREADED_TIME
Setting ==
  [skip : BOOLEAN, at : BOOLEAN, startSecs : Int, stopSecs : Int, startCalls : Int,
   stopCalls : Int, spawn : BOOLEAN, spawnSecs : Int, spawnCalls : Int, mt : BOOLEAN]

ASSUME GateAssumption ==
  /\ Settings \subseteq Setting
  /\ CounterMax \in Nat
  /\ MaxElapsed \in Nat
  /\ None \notin Thread

VARIABLES
  env,          \* the environment
  elapsed,      \* seconds since the start
  state,        \* of ft_init_once_generic: "uninitialized", "initializing", "ready"
  initMutex,    \* the thread that holds initialized_once_mutex, or None
  ft_mode,      \* "noop" or "fake"
  dont_fake,    \* of each thread
  callcounter,
  spawned,
  time_mutex,   \* the thread that holds it, or None
  pc, call,     \* where a thread is, and in which function
  back,         \* the thread is in a call its initialiser made
  tp,           \* the reading of the real clock
  loaded,       \* the value of callcounter it increments
  answer,       \* "real", "fake" or "error"
  calls,        \* calls begun
  phase,        \* of this call: 0 before faking starts, 1 faked, 2 after it stops
  reached,      \* the largest phase of a call that has returned
  since,        \* the value of reached when this call began
  launches      \* times the command was run

vars == <<env, elapsed, state, initMutex, ft_mode, dont_fake, callcounter, spawned,
          time_mutex, pc, call, back, tp, loaded, answer, calls, phase, reached,
          since, launches>>
history == <<calls, reached, since>>
shared == <<env, elapsed, state, initMutex, ft_mode, dont_fake>>

GateInit ==
  /\ env \in Settings
  /\ elapsed = 0
  /\ state = "uninitialized"
  /\ initMutex = None
  /\ ft_mode = "fake"
  /\ dont_fake = [t \in Thread |-> FALSE]
  /\ callcounter = 0
  /\ spawned = 0
  /\ time_mutex = None
  /\ pc = [t \in Thread |-> "idle"]
  /\ call = [t \in Thread |-> "time"]
  /\ back = [t \in Thread |-> FALSE]
  /\ tp = [t \in Thread |-> 0]
  /\ loaded = [t \in Thread |-> 0]
  /\ answer = [t \in Thread |-> "real"]
  /\ calls = 0
  /\ phase = [t \in Thread |-> 1]
  /\ reached = 0
  /\ since = [t \in Thread |-> 0]
  /\ launches = 0

Goto(t, label) == pc' = [pc EXCEPT ![t] = label]
At(t, label) == pc[t] = label

-----------------------------------------------------------------------------
(* Initialisation *)

\* time ignores an error of fake_clock_gettime; clock_gettime and
\* gettimeofday return it.  Both call ftpl_init first.
Enter(t, f) ==
  /\ At(t, "idle") /\ calls < MaxCalls
  /\ call' = [call EXCEPT ![t] = f]
  /\ calls' = calls + 1
  /\ since' = [since EXCEPT ![t] = reached]
  /\ Goto(t, "lock")
  /\ UNCHANGED <<shared, callcounter, spawned, time_mutex, back, tp, loaded, answer, phase,
                 reached, launches>>

time(t) == Enter(t, "time")
clock_gettime(t) == Enter(t, "clock_gettime")

TakeInit(t) ==
  /\ initMutex = None
  /\ initMutex' = t
  /\ IF state = "uninitialized"
     THEN /\ state' = "initializing"
          /\ dont_fake' = [dont_fake EXCEPT ![t] = TRUE]
          /\ Goto(t, "init")
     ELSE Goto(t, "unlock") /\ UNCHANGED <<state, dont_fake>>

GoOn(t) == Goto(t, "read") /\ UNCHANGED <<initMutex, state, dont_fake>>

KeepRest == UNCHANGED <<env, elapsed, ft_mode, callcounter, spawned, time_mutex, call, back,
                        tp, loaded, answer, phase, launches, history>>

\* Mutant: a mutex that does not check; the initialiser waits for itself.
InitLock_plain(t) == At(t, "lock") /\ TakeInit(t) /\ KeepRest

\* Mutant: every thread that finds initialisation under way goes on.
InitLock_racing(t) ==
  /\ At(t, "lock")
  /\ TakeInit(t) \/ (state = "initializing" /\ GoOn(t))
  /\ KeepRest

\* pthread_mutex_lock of ft_init_once_generic: the thread that initialises
\* gets EDEADLK and goes on with what is there.
InitLock(t) ==
  /\ At(t, "lock")
  /\ TakeInit(t) \/ (initMutex = t /\ state = "initializing" /\ GoOn(t))
  /\ KeepRest

\* A function the initialiser uses asks for the time.
CallBack(t) ==
  /\ At(t, "init") /\ ~back[t]
  /\ back' = [back EXCEPT ![t] = TRUE]
  /\ Goto(t, "lock")
  /\ UNCHANGED <<shared, callcounter, spawned, time_mutex, call, tp, loaded, answer, phase,
                 launches, history>>

\* Mutant: a skipped command only leaves the mode, which the time overrides.
ftpl_really_init_mode(t) ==
  /\ At(t, "init")
  /\ ft_mode' = IF env.skip /\ ~env.at THEN "noop" ELSE "fake"
  /\ dont_fake' = [dont_fake EXCEPT ![t] = FALSE]
  /\ state' = "ready"
  /\ Goto(t, "unlock")
  /\ UNCHANGED <<env, elapsed, initMutex, callcounter, spawned, time_mutex, call, back, tp,
                 loaded, answer, phase, launches, history>>

\* The rest of ftpl_really_init: the commands, the limits, the time.
ftpl_really_init(t) ==
  /\ At(t, "init")
  /\ ft_mode' = IF env.skip /\ ~env.at THEN "noop" ELSE "fake"
  /\ dont_fake' = [dont_fake EXCEPT ![t] = env.skip]
  /\ state' = "ready"
  /\ Goto(t, "unlock")
  /\ UNCHANGED <<env, elapsed, initMutex, callcounter, spawned, time_mutex, call, back, tp,
                 loaded, answer, phase, launches, history>>

InitUnlock(t) ==
  /\ At(t, "unlock")
  /\ initMutex' = None
  /\ back' = [back EXCEPT ![t] = FALSE]
  /\ Goto(t, "read")
  /\ UNCHANGED <<env, elapsed, state, ft_mode, dont_fake, callcounter, spawned, time_mutex,
                 call, tp, loaded, answer, phase, launches, history>>

-----------------------------------------------------------------------------
(* The call *)

\* The real clock is read before fake_clock_gettime takes any lock.
ReadReal(t) ==
  /\ At(t, "read")
  /\ tp' = [tp EXCEPT ![t] = elapsed]
  /\ Goto(t, "fake")
  /\ UNCHANGED <<shared, callcounter, spawned, time_mutex, call, back, loaded, answer, phase,
                 launches, history>>

\* dont_fake returns at once; the multithreaded build takes time_mutex.
fake_clock_gettime(t) ==
  /\ At(t, "fake")
  /\ dont_fake[t] \/ ~env.mt \/ time_mutex = None
  /\ IF dont_fake[t]
     THEN Goto(t, "return") /\ UNCHANGED time_mutex
     ELSE Goto(t, "count") /\ time_mutex' = (IF env.mt THEN t ELSE time_mutex)
  /\ UNCHANGED <<shared, callcounter, spawned, call, back, tp, loaded, answer, phase,
                 launches, history>>

limited_faking ==
  \E l \in {env.startSecs, env.stopSecs, env.startCalls, env.stopCalls} : l # Unset
Counting ==
  \/ env.startCalls # Unset \/ env.stopCalls # Unset
  \/ env.spawn /\ env.spawnCalls # 0

\* Mutant: the counter is not kept from LONG_MAX.
Count_unguarded(t) ==
  /\ At(t, "count")
  /\ loaded' = [loaded EXCEPT ![t] = callcounter]
  /\ Goto(t, IF Counting THEN "increment" ELSE "limits")
  /\ UNCHANGED <<shared, callcounter, spawned, time_mutex, call, back, tp, answer, phase,
                 launches, history>>

\* Calls are counted up to LONG_MAX.
Count(t) ==
  /\ At(t, "count")
  /\ loaded' = [loaded EXCEPT ![t] = callcounter]
  /\ Goto(t, IF Counting /\ callcounter < CounterMax THEN "increment" ELSE "limits")
  /\ UNCHANGED <<shared, callcounter, spawned, time_mutex, call, back, tp, answer, phase,
                 launches, history>>

\* Mutant: the counter wraps.
Increment_wraps(t) ==
  /\ At(t, "increment")
  /\ callcounter' = (loaded[t] + 1) % CounterMax
  /\ Goto(t, "limits")
  /\ UNCHANGED <<shared, spawned, time_mutex, call, back, tp, loaded, answer, phase, launches,
                 history>>

Increment(t) ==
  /\ At(t, "increment")
  /\ callcounter' = loaded[t] + 1
  /\ Goto(t, "limits")
  /\ UNCHANGED <<shared, spawned, time_mutex, call, back, tp, loaded, answer, phase, launches,
                 history>>

NotStarted(t) ==
  \/ env.startSecs # Unset /\ tp[t] < env.startSecs
  \/ env.startCalls # Unset /\ callcounter < env.startCalls
Stopped(t) ==
  \/ env.stopSecs # Unset /\ tp[t] >= env.stopSecs
  \/ env.stopCalls # Unset /\ callcounter >= env.stopCalls

\* Outside the limits the answer is the real time.
Limits(t) ==
  /\ At(t, "limits")
  /\ phase' = [phase EXCEPT ![t] = IF Stopped(t) THEN 2 ELSE IF NotStarted(t) THEN 0 ELSE 1]
  /\ Goto(t, IF limited_faking /\ (NotStarted(t) \/ Stopped(t)) THEN "abort"
             ELSE IF env.spawn THEN "spawn" ELSE "mode")
  /\ UNCHANGED <<shared, callcounter, spawned, time_mutex, call, back, tp, loaded, answer,
                 launches, history>>

\* The command is run once, when its seconds have passed or at its call.
Spawn(t) ==
  /\ At(t, "spawn")
  /\ Goto(t, IF /\ spawned = 0
                /\ \/ env.spawnSecs > Unset /\ tp[t] >= env.spawnSecs
                   \/ callcounter = env.spawnCalls
             THEN "launch" ELSE "mode")
  /\ UNCHANGED <<shared, callcounter, spawned, time_mutex, call, back, tp, loaded, answer,
                 phase, launches, history>>

\* Mutant: the command is marked as run only when it has ended well.
Launch_unmarked(t) ==
  /\ At(t, "launch")
  /\ launches' = launches + 1
  /\ spawned' \in {spawned, 1}
  /\ Goto(t, "mode")
  /\ UNCHANGED <<shared, callcounter, time_mutex, call, back, tp, loaded, answer, phase, history>>

Launch(t) ==
  /\ At(t, "launch")
  /\ launches' = launches + 1
  /\ spawned' = 1
  /\ Goto(t, "mode")
  /\ UNCHANGED <<shared, callcounter, time_mutex, call, back, tp, loaded, answer, phase, history>>

\* FT_NOOP is an error, which time ignores.
Mode(t) ==
  /\ At(t, "mode")
  /\ answer' = [answer EXCEPT ![t] = IF ft_mode # "noop" THEN "fake"
                                     ELSE IF call[t] = "time" THEN "real" ELSE "error"]
  /\ Goto(t, "abort")
  /\ UNCHANGED <<shared, callcounter, spawned, time_mutex, call, back, tp, loaded, phase,
                 launches, history>>

Abort(t) ==
  /\ At(t, "abort")
  /\ time_mutex' = IF env.mt THEN None ELSE time_mutex
  /\ Goto(t, "return")
  /\ UNCHANGED <<shared, callcounter, spawned, call, back, tp, loaded, answer, phase, launches,
                 history>>

Return(t) ==
  /\ At(t, "return")
  /\ Goto(t, IF back[t] THEN "init" ELSE "idle")
  /\ reached' = IF ~dont_fake[t] /\ phase[t] > reached THEN phase[t] ELSE reached
  /\ tp' = [tp EXCEPT ![t] = 0]
  /\ loaded' = [loaded EXCEPT ![t] = 0]
  /\ answer' = [answer EXCEPT ![t] = "real"]
  /\ phase' = [phase EXCEPT ![t] = 1]
  /\ UNCHANGED <<shared, callcounter, spawned, time_mutex, call, back, launches, calls, since>>

Tick ==
  /\ elapsed < MaxElapsed
  /\ elapsed' = elapsed + 1
  /\ UNCHANGED <<env, state, initMutex, ft_mode, dont_fake, callcounter, spawned, time_mutex,
                 pc, call, back, tp, loaded, answer, phase, launches, history>>

\* The steps of a thread inside a call.
Step(t) ==
  \/ InitLock(t) \/ ftpl_really_init(t) \/ InitUnlock(t) \/ ReadReal(t)
  \/ fake_clock_gettime(t) \/ Count(t) \/ Increment(t) \/ Limits(t) \/ Spawn(t)
  \/ Launch(t) \/ Mode(t) \/ Abort(t) \/ Return(t)

GateNext ==
  \/ \E t \in Thread : time(t) \/ clock_gettime(t) \/ CallBack(t) \/ Step(t)
  \/ Tick

\* A thread inside a call goes on; the program need not call.
GateSpec == GateInit /\ [][GateNext]_vars /\ \A t \in Thread : WF_vars(Step(t))

-----------------------------------------------------------------------------
(* Properties *)

GateTypeOK ==
  /\ env \in Settings
  /\ elapsed \in 0..MaxElapsed
  /\ state \in {"uninitialized", "initializing", "ready"}
  /\ {initMutex, time_mutex} \subseteq Thread \union {None}
  /\ ft_mode \in {"noop", "fake"}
  /\ dont_fake \in [Thread -> BOOLEAN]
  /\ callcounter \in 0..CounterMax
  /\ spawned \in {0, 1}
  /\ loaded \in [Thread -> 0..CounterMax]
  /\ answer \in [Thread -> {"real", "fake", "error"}]

\* No thread is given a faked or a refused time before ftpl_really_init has
\* finished, neither one that waits for it nor the initialiser in a call of
\* its own: what it sees is the whole configuration or the real time.
FakedOnlyWhenReady ==
  \A t \in Thread : pc[t] \in {"count", "increment", "limits", "spawn", "launch", "mode"}
                      => state = "ready"

\* A command that is skipped, or is not among the only ones, is not given a
\* faked time: by dont_fake in the thread that initialised the library, in
\* the others by FT_NOOP, which a time given as @ or % overrides.
SkippedSeesReal ==
  \A t \in Thread :
    env.skip /\ answer[t] = "fake" => env.at /\ \E u \in Thread \ {t} : dont_fake[u]

\* Faking starts and stops once: a call that begins after another one has
\* returned is not before it in the order before, faked, stopped, even when
\* the counter of calls has reached its end.
LimitsInOrder ==
  env.mt => \A t \in Thread : At(t, "return") /\ ~dont_fake[t] => phase[t] >= since[t]

\* Where calls are counted under time_mutex, the command is run at most once,
\* and without limits it has been run when the count is past its call.
SpawnOnce ==
  env.mt /\ env.spawn =>
    /\ launches <= 1
    /\ ~limited_faking /\ callcounter > env.spawnCalls /\ env.spawnCalls > 0 => launches = 1

\* Every call returns, the one that initialises and calls back included: no
\* thread waits for itself or for ever for another.
EveryCallReturns ==
  \A t \in Thread : pc[t] # "idle" ~> pc[t] = "idle"
=============================================================================

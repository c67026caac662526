# A TLA+ model of libfaketime

libfaketime is preloaded into a program (`LD_PRELOAD`) and intercepts the calls
through which the program learns, sets or waits for the time.  It answers them
with a *faked* time computed from the system clock and a setting: the `FAKETIME`
environment variable or a timestamp file.  A `faketime` session is a tree of
processes that share one tick counter, one replay position and one start time in
POSIX shared memory, guarded by a semaphore.

This directory holds the TLA+ modules of that system, the TLC configurations that
check them on small instances, and proofs for TLAPS.  `PROJECT.json` lists the
components, the runs, which source lines each definition stands for, the hazards,
the findings and the theorems.  Paths below are relative to the repository; plain
line numbers are of `src/libfaketime.c`.

    tlc -workers 2 -config SharedFlock.cfg MCSharedClock     # one run
    tlapm SharedClockInv_proofs.tla                          # one proof module

## 1. Inventory

| Component | State | Operations | Interacts through | What makes it correct |
|---|---|---|---|---|
| Shared state and its lock (`ft_sem.c`, 690-852, 1400-1430, 1610-1650) | `ticks`, `file_idx`, `start_time_*` in shared memory; semaphore or lock file; `time_mutex` | `ft_sem_lock/unlock`, `next_time`, `reset_time`, `system_time_to_shared`, `shared_to_system_time`, `lock_for_stat` | shared memory between processes, static variables between threads | mutual exclusion; every call of the session gets its own tick; all processes agree on the start time |
| Replay and record (1433-1610) | mapped `FAKETIME_LOAD_FILE`, descriptor of `FAKETIME_SAVE_FILE` | `load_time`, `save_time`, `write_all` | the shared lock and index; the files | records are replayed once and in order, then ticking starts; the saved file consists of whole records |
| Clock computation (4515-4900) | `ft_mode`, base time, rate, tick increment, four caches | `fake_clock_gettime` | called by every getter, `stat`, the timers | answers are the base time plus scaled elapsed time; monotone; all clocks in step |
| Settings (3595-3760, 4080-4510) | saved string, `last_data_fetch`, `force_cache_expiration`, `parse_config_file` | `parse_ft_string`, `read_config_file`, cache expiry | environment, timestamp file, followed file | a changed setting takes effect; the same setting gives all processes the same time |
| Time getters (3200-3590) | none of their own | `time`, `gettimeofday`, `clock_gettime`, `ftime`, `timespec_get` | call `fake_clock_gettime` | agree with each other |
| Time setters (5280-5460) | environment, timestamp file | `clock_settime`, `settimeofday`, `adjtime` | settings of this process, of its children and, through the file, of others | the time set is the time read |
| File timestamps (1610-2110) | `user_per_tick_inc_set_backup` | the `stat` family; `utime`, `utimensat` | the lock, `fake_clock_gettime` | timestamps are shifted without ticking the clock |
| One-time initialisation (1058-1130, 4200-4510) | `pthread_once`-like flags, thread-local `dont_fake` | `ft_init_once_generic`, `ftpl_really_init` | every intercepted call | initialised once; recursive entry does not block |
| Life cycle of shared objects (833-1056, 1147-1320) | names of semaphore and shared memory, creator pid | `ft_shm_create`, `ft_shm_init`, `ft_shm_destroy`, `ft_cleanup` | environment `FAKETIME_SHARED`, wrapper | children find the pair; the creator removes it |
| Waiting calls (2113-3050, 5020-5274, 5579-5701) | timerfd table, set of monotonic condition variables | sleeps, `poll`, `select`, timers, `sem_timedwait`, condition variables, futex | rate and faked time | a faked deadline becomes the right real one |
| Time arithmetic (`time_ops.h`) | none | add, subtract, multiply `timespec` | everything | normalised results, correct carries |
| Limits and spawning (4540-4610) | `callcounter`, spawn flag | `FAKETIME_START_AFTER_*`, `_STOP_AFTER_*`, `_SPAWN_*` | `fake_clock_gettime` | faking only within the limits; one spawn |
| `faketime` wrapper (`faketime.c`) | names of the shared objects | option handling, `fork`, `exec`, clean-up | environment, shared objects | creates the pair, runs the command, removes the pair |
| Random numbers, process ids (5468-5577) | seed | `getrandom`, `getpid` | - | - |
| Symbol resolution | function pointers | `dlsym` | dynamic linker | - |
| uthash | hash table | vendored | condition variables | - |

What is hard here:

* **Concurrency.**  Threads share static variables without a lock in the default
  build (`time_mutex` exists only in `libfaketimeMT`); processes share memory
  under a lock whose meaning depends on the backend.  `flock` belongs to an open
  file description, which a forked child shares with its parent.  A counting
  semaphore is not recursive, yet `stat()` holds it while it calls functions that
  take it.
* **Failure.**  A process may be killed while it holds the lock or is half way
  through a record of the save file; a write may fail.
* **Ordering.**  The end of replay changes tick counter and start time in several
  writes; processes join the session late; settings change at any instant and
  are cached; what a setting means depends on those parsed before.
* **State leaking through one function into another.**  `stat()` shares
  `fake_clock_gettime()` and its caches with the getters.

## 2. How the modules divide the system

| Module | Granularity | Question |
|---|---|---|
| `SharedClock`, abstract `GlobalClock` | one access to shared memory per step, threads and processes interleaved | do concurrent calls see one clock? |
| `ShmLifecycle`, abstract `SharedPair` | one system call on a shared name per step | who makes, joins and removes the shared pair? |
| `Gate` | one access to a shared variable per step, threads interleaved | which calls are faked at all, and does every call return? |
| `FakeClock` | one call per step | what does the clock show, and which setting applies? |
| `Waits` over `TimeOps`, `ClockTables` | one call, expiry or signal per step | does a wait end when the faked clock says so? |
| `TimeOps` | operators | is `timespec` arithmetic exact up to rounding and clamping? |

They meet at `fake_clock_gettime()`: `Gate` models its first half (from entry to
the choice of the mode), `FakeClock` its second (from the cache to the answer),
`SharedClock` the locks and the shared memory under both.  `FakeClock` takes a
call as one step, as `SharedClock` justifies where the lock excludes.
`ShmLifecycle` supplies the pair that `SharedClock` takes as given.  `MCWaits`
composes `Waits` with `ClockTables`.

What could be added: a frozen clock and settings that change during a wait in
`Waits`, and an invariant for the exclusion in libfaketimeMT, whose `time_mutex` lies
around the lock of the session.

## 3. Modules

### SharedClock and GlobalClock

`SharedClock` models the struct `ft_shared_s`, the semaphore of `ft_sem.c` and
every function that uses the two.  A thread is a program counter `pc[t]`; each
access to shared memory, each lock operation and each write to the save file is a
step of its own, so that others run in between.

| Model | Code |
|---|---|
| `ft_sem_lock`, `ft_sem_unlock` with `Backend` "flock" or "sem" | `ft_sem.c:169-199`; "sem" stands for the POSIX and System V backends |
| `sem_fd`, `open_fds`, `flock_owner` | the lock file's open file description, which `fork()` shares and `exec` + reopening does not |
| `Init*` steps | `ftpl_really_init`: take or make the start time |
| `Reset*` steps | `reset_time` and `system_time_to_shared`, one clock per step |
| `Load*` steps | `load_time`, up to the hand-over from replay to ticking |
| `Tick*` steps | `next_time` |
| `Save*` steps | `save_time`, `write_all` in two halves that may be separated by a failure or a crash |
| `Stat*` steps | `lock_for_stat`, `fake_statbuf`, `unlock_for_stat` |
| `Begin`, `Mode`, `Release`, `time_mutex` | the frame of `fake_clock_gettime` |
| `Spawn`, `Fork`, `Exit`, `Die`, `Fault`, `Clock` | fork with and without exec, the end of a process, a kill inside a critical section, the passing of time: the operating system, from how the library relies on it |

An answer is abstracted to what it is computed from: a record of the replay file,
a tick, or a start time.  `served` is the history of answers.

`GlobalClock` says what the session promises: a position in the replay file that
advances by one, then a tick counter that advances by one with every answer.

`SharedClockInv` holds the inductive invariant, the `*_proofs` modules the proofs.  `MCSharedClock` gives the
process structures.

### FakeClock

Here a call is one step and the subject is its result.  `lib[p]` is the record of
the library's static variables in process `p`; a setting is the record of what
`parse_ft_string` takes from the string (its kind, number and modifiers).
`Fetched` is cache expiry, choice of source and parsing; `Faked` is the
computation at the end of `fake_clock_gettime`; `Cached` the caches that
`FAKETIME_XRESET` reads.  The actions are `GetTime`, `Stat`, `SetTime`,
`AdjTime` (with `WriteFile` for the second half of the update of the timestamp
file), `Utime` and `UtimeNow` (`utime`, `utimes`, `utimensat`, `futimens`), `Exit` (an empty setting ends the process), `Exec` (a new process joins),
and the world: `Second` passes, the user `Edit`s the timestamp file or `Touch`es
the followed file.  Times are whole seconds and rates whole numbers.
`FakeUtime` are the processes started with `FAKE_UTIME=1`: whatever the comments
at `src/Makefile:35` and line 3972 say, `fake_utime_disabled` is 1 without it (1597).

### ShmLifecycle and SharedPair

Every process that loads the library makes or joins a pair of named objects, a
semaphore and shared memory; the wrapper `faketime` makes one for its command.
`sem[n]` and `shm[n]` say what made the object of name `n`: a process of the
session, something older (`Old`), or nothing.

| Model | Code |
|---|---|
| `CreateSem`, `CreateShm`, `InitHeader`, `Export`, `InitFails`, `ExportFails` | `ft_shm_create` (854-999), with its clean-up after each failure |
| `Load`, `CheckStale`, `OpenShared`, `RetryShared`, `MapShared`, `MapFails` | `ft_shm_really_init` (1147-1275) |
| `ft_cleanup`, `OpenToDestroy`, `UnlinkSem`, `UnlinkShm` | `ft_cleanup`, `ft_shm_destroy` (1017-1056, 1277-1320) |
| `WrapperSem` ... `WrapperUnlinkShm` | `main` of `faketime.c` (441-677) and `cleanup_shobjs` |
| `Fork`, `Exec`, `CloseDescriptors`, `Exit`, `Kill`, `GhostEnds` | the operating system; `keepalive` is the write end of the wrapper's pipe |

`FAKETIME_SHARED` may hold nothing, garbage or the names of a pair of an earlier
session that is being removed meanwhile; objects may be left over under the id of
a new process; up to `MaxFaults` system calls fail.  `SharedPair` says what comes
out: a pair is made whole, and a process joins a whole pair or none.

### Gate

A thread that asks for the time passes `ft_init_once_generic` (`InitLock`,
`CallBack`, `ftpl_really_init`, `InitUnlock`), reads the real clock (`ReadReal`),
is let through or not by `dont_fake` and takes `time_mutex` (`fake_clock_gettime`), is
counted (`Count`, `Increment`: a load and a store), is judged by the limits
(`Limits`), may run the command (`Spawn`, `Launch`), and gets an answer that is
faked, real or an error (`Mode`, `Abort`, `Return`).  The initialiser may call
back once.  `env` is what the environment says; `mt` is the build with
`PTHREAD_SINGLETHREADED_TIME`.  The time itself is abstracted to the seconds since
the start, which the limits compare.  The library is also initialised by a
constructor (707); threads meet in it only if they exist while it is loaded, so
the model lets them.

### Waits, ClockTables and TimeOps

`TimeOps` is `time_ops.h` on pairs of seconds and parts of a second, with
arbitrary sizes of both; a rate is a fraction `num / den`, applied with the
truncation of the C conversion.

`Waits` holds the settings of a process (`conf`: rate, whether the monotonic clock
is faked, whether this thread fakes at all, `FAKETIME_WAIT_MS`), the elapsed real
time and one `slot`: the call or timer under way, as what the real function was
given.  The slot also keeps `due`, the exact moment at which the faked clock has
advanced as the program asked.  There is an action for each blocking call, and
`Resume` (a signal interrupts a sleep and the program goes on with what is left),
`Fire` (a timer expires and rearms), `FutexWoken`, `Tick` and `Return`.
`pthread_cond_timedwait` is two steps, `CondRead` and the wait, because it reads
two clocks.

`ClockTables` models the two tables the calls consult: `timerfd_clocks` with
`/proc` mounted or not, under creation, `close`, `dup2` and reuse of descriptors;
and the set of condition variables on the monotonic clock, under initialisation
and destruction at the same address.

## 4. Runs

`CHECK_DEADLOCK FALSE` everywhere: a bounded session ends, and with counting
semaphores a `stat()` that replays or saves really does wait for itself.

| Run | Result | Shows |
|---|---|---|
| `shared_flock` | passes | The default backend with single-threaded processes, which replay one record, tick, save, call `stat()` and are killed anywhere.  No two are in a critical section at once (`MutualExclusion`); all use one start time (`StartAgreement`); the save file consists of whole records apart from those a crash cut (`WholeRecords`); an answer is saved before its call returns (`SavedBeforeReturn`); while ticking nobody is answered from the system clock (`TickingIgnoresSystemClock`); the session implements GlobalClock (`OneGlobalClock`). |
| `shm_lifecycle` | passes | The wrapper or a program starts a session of three processes.  Who exits in order leaves nothing (`NothingLeft`); only the maker of an object removes it (`OnlyMakerRemoves`); whoever holds the wrapper's pipe shares the wrapper's pair (`OneSession`); nobody joins half a pair (`JoinsWholePair`, the refinement of `SharedPair`); initialisation ends however often pairs disappear (`InitEnds`); the wrapper removes its pair when the last holder of the pipe is gone (`WrapperRemoves`). |
| `gate` | passes | Two threads from before initialisation on, nine environments.  Nothing is faked from half a configuration (`FakedOnlyWhenReady`); a skipped command sees the real time (`SkippedSeesReal`); limits are passed once and in order, and the command is run once (`LimitsInOrder`, `SpawnOnce`, with `time_mutex`); every call returns (`EveryCallReturns`). |
| `waits` | passes | Every blocking call and timer at rates 1, 2, 3 and 1/2: it ends when the clock the program sees has advanced as it asked, up to the rounding of the call (`DeadlineKept`); timers report the time left (`RemainingKept`); the tables give each object its own clock (`RightClock`). |
| `shared_sem` | passes | The counting semaphores with two threads in one process, forks, failing writes and crashes. |
| `shared_mt` | passes | libfaketimeMT on `flock`: `time_mutex` supplies the exclusion between threads that `flock` lacks, and every call returns (`CallsReturn`). |
| `shared_fork` | violation of `EveryCallSteps` | finding 1 |
| `shared_mt_stat` | violation of `TickingIgnoresSystemClock` | finding 2 |
| `fake_clock` | passes | Two processes share a timestamp file that is edited and updated.  The clocks of a process stay in step (`ClocksInStep`); processes under the same setting count from the same base and start time (`SameSettingSameTime`); a changed setting takes effect once the cache has expired (`TakesEffect`); under one setting a clock never goes back (`Monotone`), unless it follows a file without `FAKETIME_FOLLOW_ABSOLUTE`, which may set it back; a time that was set is read back (`SetTimeReadsBack`); a clock that follows a file absolutely is never ahead of it (`NeverAhead`); a timestamp that one process gives a file is read back by all under the same offset (`TimestampReadsBack`). |
| `fake_xreset` | violation of `NoJumpBack` | finding 3 |
| `fake_stat` | violation of `InForce` | finding 4 |
| `fake_update` | violation of `AdjustsForAll` | finding 5 |

**Bounds.**  `MaxCalls` bounds the calls of a session, `MaxNow` the system clock,
`MaxChanges` how often somebody edits or touches a file or sets the time,
`MaxTicks` the tick counter in FakeClock.  Two processes or three threads suffice
for what goes wrong between two actors with a third to observe it; three or four
calls include the last replayed record, the hand-over and a tick; two changes let
one process set the time after another has; two instants separate an expired
cache from a valid one with `CacheDuration` 0.  `fake_update` needs less: one time
to set, no edits of the user, and the seconds 0 to 2.

In `shm_lifecycle` three processes give a wrapper, its command and a grandchild
that outlives it, or a maker, a child and one that is started meanwhile; one
failing system call (`MaxFaults`) reaches every error path, and one `exec`
(`MaxExecs`) separates a process from its destructor.  In `gate`, `CounterMax` 4
stands for `LONG_MAX`, so that five calls (`MaxCalls`) reach and pass the end of
the counter, and the limits and the command lie at calls 2 to 4 and at second 1.
In `waits` a second has four parts and time ends at second 63, so that lengths
can be rounded and saturated; two entries of the table of descriptors are fewer
than the three descriptors that can be in it.

The theorems of section 5 do not depend on the values of the bounds.

**Fairness.**  In SharedClock only `CallsReturn` needs it.  `FairSpec` asks for weak fairness of
each thread's next step inside the library: the operating system runs runnable
threads, and the lock is handed on because its holder takes only finitely many
steps.  That a thread gets the lock itself needs no more in that run, as the
session makes finitely many calls.  Nothing obliges a program to make calls.
`GateSpec` asks the same of the threads for `EveryCallReturns`.  `FairShmSpec`
asks it of each process's own steps in initialisation, clean-up and the wrapper,
for `InitEnds` and `WrapperRemoves`: nothing obliges a program to exit, a system
call to fail or anybody to kill.

**Exceptions the properties name.**  Some calls do not keep the deadline they
were given.  `Exempt` in `Waits` lists them, each with its line; every entry was
found by a counterexample and is needed.

* `sem_timedwait` under a rate multiplies where it should divide (2632);
  `sem_clockwait` on a faked monotonic clock adds what is left to the start time
  (2719).
* An `alarm` of less than a real second is truncated to 0, which cancels it (2386).
* `nanosleep` and the `clock_nanosleep` system call report what is left in real
  time (2159, 5803); `clock_nanosleep` scales it for the CPU clock, whose lengths
  are not scaled (2249); `select` scales it in a thread that fakes nothing (2554).
* Deadlines of `clock_nanosleep` (2193) and condition variables (5223) are
  converted in threads that fake nothing, and the rate is applied to condition
  variables on a monotonic clock that is not faked.
* `FUTEX_WAIT_BITSET` shifts its deadline but does not scale it, and once woken
  compares with a reading it never took (5636-5676).
* A POSIX timer on the monotonic clock is converted as one on the real clock
  (3103, 3126).

`SkippedSeesReal` excepts the threads that did not initialise the library when the
time is given with `@` or `%`, which overrides `FT_NOOP` (3614, 3646).  In the
default build `callcounter` and `spawned` are updated without a lock (4543, 4597),
so `LimitsInOrder` and `SpawnOnce` are claimed with `time_mutex` only.
`RightClock` excepts descriptor 0 and, without `/proc`, descriptors beyond the
table or made by `dup` (2795).

### Findings

1. **A forked child shares the tick of its parent** (`ft_sem.c:181`).  `flock`
   does not exclude two processes that share an open file description, so
   `next_time()` can hand both the same tick, against `README:416-418`.
2. **Ticking is off in all threads while one is in `stat()`** (1634): another
   thread's `time()` is then computed from the system clock, against the same
   lines.
3. **`stat()` spoils the cache of `FAKETIME_XRESET`** (3708): the cached "last
   real time" may be a file's timestamp, and after the next change of rate the
   wall clock jumps back, against `README:544`.
4. **An `i` modifier first read inside `stat()` is lost** (1640):
   `unlock_for_stat` restores the flag of before the call, and the saved string
   keeps it from being parsed again, against `README:464`.
5. **Who has set the time no longer follows the timestamp file** (5351), against
   "each can adjust the time for all" (`README:598`).

## 5. Proofs

All constants are arbitrary within the named assumptions of the modules
(`ThreadsAssumption`, `ConfigAssumption`, `BoundsAssumption` of `SharedClock`,
`GateAssumption`, `TimeAssumption`, `ShmAssumption`, `ProcAssumption`,
`ClockAssumption`, `SettingAssumption`, `OptionAssumption` of `FakeClock`,
`TableAssumption` of `ClockTables`, and `WaitAssumption`, `RangeAssumption` of
`Waits`).  A hypothesis that a theorem adds is named with it.

**SharedClock**

* **`TypeCorrect`** (`SharedClock_proofs`): `Spec => []TypeOK`, by one step per
  action over the groups of variables that `TypeOK` is split into.
* **`Exclusion`** (`SharedClockInv_proofs`): `MutualExclusion` holds with counting
  semaphores, and with `flock` when each process has one thread and none forks
  without exec (`Alone`).  Finding 1 and the MT run show that the hypothesis is
  needed.
* **`OneClock`** (`SharedClockInv_proofs`): under the same hypothesis every
  behaviour of `Spec` is one of GlobalClock's, crashes included.
* **`OneStart`** (`SharedClockInv_proofs`): under the same hypothesis
  `StartAgreement`.
* **`WholeInFile`** (`SharedClockInv_proofs`): under the same hypothesis
  `WholeRecords`.
* **`SavedFirst`** (`SharedClock_proofs`): `SavedBeforeReturn`, with any lock.
* **`TicksOnly`** (`SharedClock_proofs`): `TickingIgnoresSystemClock`, with any lock,
  where no other thread of the process can be inside `stat()` (`StatAlone`).  Finding 2
  is what happens otherwise.

`MutualExclusion` is not inductive: a state in which a thread is about to enter
while another, inside, does not hold the lock satisfies it.  The invariant adds

* `ProcInv`: which steps a process can be at while it is off, initialising or up;
  without it a thread of a process that is not initialised could hold a lock;
* `SemInv`, `FlockInv` (together `LockInv`): a thread inside holds the lock.  For
  the semaphore the holders include every thread inside a `stat()`, and a nested
  critical section is never entered; for `flock` it is entered, and releases the
  outer lock early;
* `CounterInv`: what a thread has read is still so.  The value read by
  `next_time()` is the counter, the index read by `load_time()` is in range, and
  ticks are handed out only once replay is over;
* `StartInv`: a process that is up has a start time, and so has the session;
* `AgreeInv`, for `StartAgreement` without resets: while a thread is between the two
  writes of `system_time_to_shared()` no process that counts from the start time
  exists, because in the initialisation nobody is up yet and at the end of the
  replay everybody is still replaying; and when it releases the lock its own start
  time is the one in shared memory.  All this is given up once a process has been
  killed between the writes.

The answers need a second group, which does not depend on the lock but for the last:

* `AnswerInv`: where a thread has an answer and where not, and of which kind it is when
  `next_time()` or `load_time()` has given it;
* `TickInv`: `user_per_tick_inc_set` is on for every thread outside `stat()`, and
  inside it the backup is.  `TickingIgnoresSystemClock` looks at one step of a
  call only, and says nothing of the flag that decides it;
* `SavedInv`: from the end of `save_time()` on the answer is in the file, also while
  the lock is still to be released;
* `OnceInv`: no two threads have the same answer to save, and what is still to be saved
  is not in the file.  Answers are numbered by `served`, so this holds without the lock;
* `PairInv`: the file ends in half a record exactly while a thread is between the
  two writes of `write_all`, and then it is that thread's.  This needs the exclusion.

Each preservation proof has one step per action, after facts for each kind of step
(threads that stay where they are, take the lock, release it).

**FakeClock** (`FakeClock_proofs`), for any processes,
clocks, settings, cache duration and options.  The lemmas `Parsing`,
`Fetching`, `Caching` and `Starting` say once what each function of the
library does to its static variables.  Two invariants rest on them.

`Settled` (proved in `SettledInvariant`): the types, and for every process that is up
`Sound`: the setting it read last is in force, that is, mode, base, offset and rate
are what `parse_ft_string()` makes of it, the start times of its clocks are of one
instant, and with `FAKETIME_DONT_RESET` they are the ones in shared memory.
`ClocksInStep` and `SameSettingSameTime` say this of two clocks or two processes
only, and are not inductive: the next parse keeps whatever the string leaves out.

* **`FakeTypeCorrect`**: `TypeOK`.
* **`ClocksTogether`**: `ClocksInStep`; **`SameTime`**: `SameSettingSameTime`;
  **`StampReadsBack`**: `TimestampReadsBack`; all three for `~XReset`.  The hypothesis
  is needed: `FAKETIME_XRESET` restarts the clock from cached times that may be of
  different instants and are each process's own (finding 3 is one consequence).
* **`NotAheadOfFile`**: `NeverAhead`, with or without `FAKETIME_XRESET`.

`History` (proved in `HistoryInvariant`, over `Settled`) relates a process to its past:

* `FetchInv`: nothing was fetched later than now, and what was fetched after the last
  change of the timestamp file is what the file says;
* `SetInv`: a process that has set the time has the offset in its `FAKETIME`, does not
  read the file, and is on that setting or about to parse it;
* `AnswerInv`: the last answer under the present setting is at most the faked time of
  the present instant.  `Monotone` compares two answers and says nothing of what
  happens between them; this does.

From it, for all options including `FAKETIME_XRESET`:

* **`EditsTakeEffect`**: `TakesEffect`.
* **`NeverBack`**: `Monotone`: in every mode the faked time grows
  with the instant and the ticks (`<1>adv` of `HistoryInvariant`).  The attempt to prove it without its third
  conjunct failed for a reason in the code: a process that follows a file without
  `FAKETIME_FOLLOW_ABSOLUTE` runs on from the file's timestamp, and every expiry of
  the cache parses the string again (3521-3526) and sets it back to it.  The property now says so.
* **`SetReadsBack`**: `SetTimeReadsBack`.

**ShmLifecycle** (`ShmLifecycle_proofs`), for any number of
processes, left-over objects, failing system calls, retries and executed programs:

* **`ShmTypeCorrect`**: `TypeOK`, from `Typed`, which bounds the attempts of a process
  that is not ending by `RetryLimit`.
* **`MakerRemoves`**: the action property `OnlyMakerRemoves`, from `Made`: what is under
  a name was made by the process of that id or is older than the session, how far a
  process is tells which of its two objects exist, and what it is about to remove
  is its own.
* **`LeavesNothing`**: `NothingLeft`, from `Tidy`: a process that can still clean up
  owns objects only at the steps from which it will come to remove them, and then its
  environment names them and `shmCreator` is set.
* **`WholePairs`**: `JoinsWholePair`, the refinement of `SharedPair`, one step per
  action, from `Joined`: memory is mapped only by a process that runs or begins to exit, and the
  semaphore opened before is of the same pair.
* **`SessionShares`**: `OneSession`, from `Session`: as long as somebody holds the
  wrapper's pipe the wrapper's pair exists, and who holds the pipe has its name and
  never makes a pair.

**Gate** (`Gate_proofs`), for any number of threads:

* **`GateTypeCorrect`**: `GateTypeOK`, from `Typed`, which adds that a thread about
  to increment has loaded a count below `CounterMax`.
* **`ReadyFirst`**: `FakedOnlyWhenReady`, from `InitInv`: until the library is ready
  every thread but the holder of the mutex is outside, and the holder has
  `dont_fake`.
* **`SkippedIsReal`**: `SkippedSeesReal`, from `SkipInv`: a thread with `dont_fake`
  is never past it, a skipped command has one, and an answer that is not real
  is held only by a thread about to return.
* **`SpawnsOnce`**: `SpawnOnce`, from `MutexInv` (with `time_mutex` one thread is
  inside, and what it loaded is the counter) and `SpawnInv` (the call that is to
  run the command has run it or is on its way).
* **`LimitsOrdered`**: `LimitsInOrder`, from `MutexInv` and `LimitInv`: the limits
  that returned calls have passed are still passed, because seconds and the
  count only grow; a call that began later judges by a later reading.

**TimeOps** (`WaitCalls_proofs`), for every number of parts of a second, every width
of the seconds and every normalised argument:

* **`AddClamped`**, **`SubClamped`**: `timespecadd` and `timespecsub` return the
  normalised sum and difference, clamped to the range of `time_t`.
* **`MulRounds`**: `timespecmul` is the exact product truncated to a whole part of
  a second, and clamped.

**ClockTables** (`ClockTables_proofs`):

* **`ClocksFound`**: `RightClock`, for any descriptors, condition variables and size of
  the table.  `RightClock` speaks of open objects; the invariant also says that the
  entries in use come before the free ones and no descriptor has two, since
  `remember_timerfd_clock` stops at the first that fits, and that an address is in the
  set exactly while its condition variable lives on the monotonic clock.

**Waits** (`WaitCalls_proofs`, `Waits_proofs`), over the theorems of `TimeOps`:

* **`WaitsTyped`**: `WaitTypeOK`; **`DeadlinesKept`**: `DeadlineKept`;
  **`RemainingTold`**: `RemainingKept`; for every size of the second and of
  `time_t`, all rates, start times, lengths, deadlines, periods and values of
  `FAKETIME_WAIT_MS`, and any number of interruptions and expiries.

The lemmas say what a conversion does.  `Conversions`: a length divided or multiplied by
the rate is truncated by less than a part of a second, or saturated.
`LengthKept`, `DeadlineMoved`: a length added to the real clock, and a deadline moved to it,
is off by less than one unit of each clock.  `Reading`: the fake clock shows the elapsed
time, scaled and rounded down.  `CallStep` and `WaitStep` show that every action keeps
`WaitInv`, which says of the slot which kind of record it is, that it keeps its
deadline, and

* of a call that reports what is left (`WaitGood`), that it has an end, and that what is
  left fits `time_t` on the fake clock, as `Resume` converts it back and once more;
* of a timer (`TimerGood`), that it is saturated exactly if its end is the last moment of
  `time_t`, that its end is not before the epoch, and that its interval is the period asked
  for, rounded: `Fire` adds both, so the error must not grow by more than the slack of an
  expiry;
* of `pthread_cond_timedwait` between its readings (`ReadGood`), that both are of one
  moment, not later than now, so that the error is the time in between.

`RangeAssumption` says what the bounds of the clocks must be for this: the clocks and
what the rate makes of them stay inside `time_t` for the time of a run, a deadline is not before
the epoch, and a microsecond divides a second.  Lengths may saturate, and do.  The run
evaluates it.  The proof changed two definitions.  `Slack` was too small for `select`
by one unit of the real clock for each resumption, whose remaining time the kernel rounds
too.  The rates of the run do not show it; at rate 7/2, with four parts in a
microsecond, TLC finds a `select` of ten microseconds that exceeds the old bound when
it is resumed once.  And a timer counts as saturated when its
end is the last moment, also where a shorter length added to the clock reaches it.

`Settled`, `History`, `WaitInv` and the invariants of `ShmLifecycle` and `SharedClock` were
also checked by TLC on the instances of the runs before they were proved.

**Only model-checked:** the liveness properties `CallsReturn`,
`EveryCallReturns`, `InitEnds` and `WrapperRemoves`, which rest on fairness, beyond
the prover; and exclusion in libfaketimeMT (run `shared_mt`), which `Exclusion` does not
cover, and with it `OneGlobalClock` there.  Every safety property of a passing run has a
theorem.  The violations of section 4 are counterexamples and need none.

## 6. Not modelled

* A fork of a multi-threaded process with `time_mutex` held: the Makefile
  (`src/Makefile:76`) gives it as the reason why that build is not the default.
* In `FakeClock`: the syntax of numbers and dates, fractions of seconds, the
  CPU-time clocks.
* In `ShmLifecycle`: the two calls with which the System V backend creates and
  raises its semaphore are one step.
* In `Gate`: a failing `pthread_once()` or mutex (`FT_INIT_FAILED`).
* In `Waits`: a frozen clock, on which no deadline has a moment; settings that
  change during a wait; `FAKETIME_FORCE_MONOTONIC_FIX=0`; the fallbacks for
  missing real functions; `old_value` of `timer_settime`, which is overwritten with
  the faked time of day (2985); the results of `alarm` and `sleep`.  A converted
  deadline before the epoch, which the real function rejects, counts as one that
  ends at once.
* The option handling of the wrapper, symbol resolution, the macOS and 32-bit
  variants of the same functions, random numbers, process ids and uthash keep no
  state that a property would be about.

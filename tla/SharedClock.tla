----------------------------- MODULE SharedClock -----------------------------
(***************************************************************************)
(* The clock that all processes of one faketime session share: the struct  *)
(* ft_shared_s in shared memory, the semaphore of ft_sem.c that guards it, *)
(* and every library function that touches the two: the agreement on the   *)
(* start time in ftpl_really_init(), reset_time(), load_time(),            *)
(* next_time(), save_time() and lock_for_stat()/unlock_for_stat(), called  *)
(* from fake_clock_gettime() and from the stat() family.                   *)
(*                                                                         *)
(* Processes have threads; a thread is a program counter over the steps    *)
(* between which others can run.  Every access to shared memory is a step  *)
(* of its own, so that what the lock does not protect can go wrong.        *)
(* Time is abstracted to what the answers depend on: an answer names the   *)
(* record, the tick or the start time it was computed from.                *)
(***************************************************************************)
EXTENDS Integers, Sequences, FiniteSets

CONSTANTS
  Thread,      \* thread identities, over all processes
  Proc,        \* process identities
  ProcOf,      \* the process of each thread
  Root,        \* the thread that starts the session
  NoThread,    \* no thread holds time_mutex
  Free,        \* no open file description holds the flock
  Backend,     \* FT_SEMAPHORE_BACKEND: "flock", or "sem" for FT_POSIX and FT_SYSV
  MT,          \* PTHREAD_SINGLETHREADED_TIME, set in libfaketimeMT
  Ticking,     \* FAKETIME has an "i" modifier
  LoadLen,     \* number of records in FAKETIME_LOAD_FILE, 0 if it is not set
  Saving,      \* FAKETIME_SAVE_FILE is set
  Resets,      \* "init": FAKETIME starts with "@"; "always": with "%"; "never": with
               \* neither, or with "@" and FAKETIME_DONT_RESET is set
  Stats,       \* the program calls stat()
  StatFields,  \* how many time stamps fake_statbuf() converts
  Forks,       \* the program forks without exec
  Crashes,     \* processes may be killed inside a critical section
  WriteFails,  \* writing to the save file may fail half way
  MaxCalls,    \* bound: calls made by the whole session
  MaxNow       \* bound: the system clock stops there

ASSUME ThreadsAssumption ==
  /\ ProcOf \in [Thread -> Proc]
  /\ Root \in Thread
  /\ NoThread \notin Thread
  /\ Free \notin Proc

ASSUME ConfigAssumption ==
  /\ Backend \in {"flock", "sem"}
  /\ \A b \in {MT, Ticking, Saving, Stats, Forks, Crashes, WriteFails} : b \in BOOLEAN
  /\ Resets \in {"never", "init", "always"}

ASSUME BoundsAssumption ==
  /\ LoadLen \in Nat
  /\ StatFields \in Nat \ {0}
  /\ MaxCalls \in Nat
  /\ MaxNow \in Nat

VARIABLES
  \* the kernel
  now,          \* the system clock
  sem_value,    \* value of the semaphore (backend "sem")
  flock_owner,  \* the open file description that holds the lock (backend "flock")
  outfile,      \* the save file, in half records: <<answer, half>>
  torn,         \* history: the answers whose record was left half written
  \* struct ft_shared_s
  ticks, file_idx, start_time,
  \* per process
  proc,         \* "off", "init", "up" or "dead"
  sem_fd,       \* open file description of shared_sem, named by the process that opened it
  open_fds,     \* every such description the process has open, inherited ones included
  ftpl_starttime, infile_set, user_per_tick_inc_set, user_per_tick_inc_set_backup,
  time_mutex,   \* the thread that holds time_mutex
  \* per thread
  pc,
  reg,          \* the shared value the thread has read
  ans,          \* index in served of the answer of the current call, 0 if none yet
  fields,       \* time stamps of the current stat() still to convert
  \* history
  calls,        \* calls made so far
  served        \* answers in the order in which they were fixed

kernelVars  == <<now, outfile, torn>>
semVars     == <<sem_value, flock_owner>>
sharedVars  == <<ticks, file_idx, start_time>>
procVars    == <<proc, sem_fd, open_fds>>
configVars  == <<ftpl_starttime, infile_set, user_per_tick_inc_set,
                 user_per_tick_inc_set_backup>>
threadVars  == <<reg, ans, fields>>
historyVars == <<calls, served>>
allButSem   == <<kernelVars, sharedVars, procVars, configVars, time_mutex, threadVars,
                 historyVars>>   \* and pc
vars == <<kernelVars, semVars, sharedVars, procVars, configVars, time_mutex,
          pc, threadVars, historyVars>>

-----------------------------------------------------------------------------
Unset   == -1                      \* the nsec sentinel
Instant == 0..MaxNow
Time    == [real : Instant \cup {Unset}, mon : Instant \cup {Unset}]
NoTime  == [real |-> Unset, mon |-> Unset]
Now     == [real |-> now, mon |-> now]

G == INSTANCE GlobalClock

Threads(p) == {t \in Thread : ProcOf[t] = p}
Live(t)    == proc[ProcOf[t]] \in {"init", "up"}

\* The steps inside the critical section of each function.
InitCS  == {"init_get", "init_real", "init_mon", "init_unlock"}
ResetCS == {"reset_real", "reset_mon", "reset_unlock"}
LoadCS  == {"load_idx", "load_take", "load_ticks", "load_one", "load_real",
            "load_mon", "load_unset", "load_unlock"}
TickCS  == {"tick_read", "tick_inc", "tick_unlock"}
SaveCS  == {"save_write", "save_rest", "save_unlock"}
CS      == InitCS \cup ResetCS \cup LoadCS \cup TickCS \cup SaveCS
Waiting == {"init_lock", "reset_lock", "load_lock", "tick_lock", "save_lock", "stat_lock"}
Outside == {"off", "idle", "begin", "load", "mode", "release",
            "stat_clear", "stat_restore", "stat_unlock"}
Step    == CS \cup Waiting \cup Outside

Goto(t, l)          == pc' = [pc EXCEPT ![t] = l]
Move(t, from, to)   == Live(t) /\ pc[t] = from /\ Goto(t, to)
-----------------------------------------------------------------------------
(* ft_sem.c *)

\* Mutant: LOCK_SH instead of LOCK_EX.
ft_sem_lock_shared(p) ==
  /\ flock_owner' = sem_fd[p]
  /\ UNCHANGED sem_value

\* An flock belongs to the open file description: whoever shares it already
\* has the lock.  The other backends are counting semaphores.
ft_sem_lock(p) ==
  \/ /\ Backend = "sem"
     /\ sem_value > 0
     /\ sem_value' = sem_value - 1
     /\ UNCHANGED flock_owner
  \/ /\ Backend = "flock"
     /\ flock_owner \in {Free, sem_fd[p]}
     /\ flock_owner' = sem_fd[p]
     /\ UNCHANGED sem_value

\* LOCK_UN through a description that does not hold the lock changes nothing.
ft_sem_unlock(p) ==
  \/ /\ Backend = "sem"
     /\ sem_value' = sem_value + 1
     /\ UNCHANGED flock_owner
  \/ /\ Backend = "flock"
     /\ flock_owner' = IF flock_owner = sem_fd[p] THEN Free ELSE flock_owner
     /\ UNCHANGED sem_value

Lock(t, from, to)   == Move(t, from, to) /\ ft_sem_lock(ProcOf[t])
Unlock(t, from, to) == Move(t, from, to) /\ ft_sem_unlock(ProcOf[t])
-----------------------------------------------------------------------------
(* ftpl_really_init(): the start time of the session *)

InitLock(t) ==
  /\ Lock(t, "init_lock", "init_get")
  /\ UNCHANGED allButSem

\* Mutant: every process takes the system time of its own start.
InitGet_own(t) ==
  /\ ftpl_starttime' = [ftpl_starttime EXCEPT ![ProcOf[t]] = Now]
  /\ Move(t, "init_get", IF start_time.real = Unset THEN "init_real" ELSE "init_unlock")
  /\ UNCHANGED <<kernelVars, semVars, sharedVars, procVars, infile_set,
                 user_per_tick_inc_set, user_per_tick_inc_set_backup, time_mutex,
                 threadVars, historyVars>>

\* Only the sentinel of the realtime field is looked at.
InitGet(t) ==
  LET p == ProcOf[t] IN
  /\ \/ /\ start_time.real = Unset
        /\ ftpl_starttime' = [ftpl_starttime EXCEPT ![p] = Now]
        /\ Move(t, "init_get", "init_real")
     \/ /\ start_time.real # Unset
        /\ ftpl_starttime' = [ftpl_starttime EXCEPT ![p] = start_time]
        /\ Move(t, "init_get", "init_unlock")
  /\ UNCHANGED <<kernelVars, semVars, sharedVars, procVars, infile_set,
                 user_per_tick_inc_set, user_per_tick_inc_set_backup, time_mutex,
                 threadVars, historyVars>>

\* system_time_to_shared() writes the fields one after the other.
PutReal(t, from, to) ==
  /\ Move(t, from, to)
  /\ start_time' = [start_time EXCEPT !.real = ftpl_starttime[ProcOf[t]].real]
  /\ UNCHANGED <<kernelVars, semVars, ticks, file_idx, procVars, configVars,
                 time_mutex, threadVars, historyVars>>

PutMon(t, from, to) ==
  /\ Move(t, from, to)
  /\ start_time' = [start_time EXCEPT !.mon = ftpl_starttime[ProcOf[t]].mon]
  /\ UNCHANGED <<kernelVars, semVars, ticks, file_idx, procVars, configVars,
                 time_mutex, threadVars, historyVars>>

\* After the constructor has run, main() and the other threads can.
Up(t) ==
  LET p == ProcOf[t] IN
  /\ proc' = [proc EXCEPT ![p] = "up"]
  /\ pc' = [u \in Thread |-> IF ProcOf[u] = p THEN "idle" ELSE pc[u]]

\* parse_ft_string(FAKETIME) ends the initialisation; for "@" and "%" it
\* calls reset_time(), which reads the clocks before it takes the lock.
InitUnlock(t) ==
  LET p == ProcOf[t] IN
  /\ Live(t) /\ pc[t] = "init_unlock"
  /\ ft_sem_unlock(p)
  /\ user_per_tick_inc_set' = [user_per_tick_inc_set EXCEPT ![p] = Ticking]
  /\ \/ /\ Resets = "never" /\ Up(t)
        /\ UNCHANGED ftpl_starttime
     \/ /\ Resets # "never" /\ Goto(t, "reset_lock")
        /\ ftpl_starttime' = [ftpl_starttime EXCEPT ![p] = Now]
        /\ UNCHANGED proc
  /\ UNCHANGED <<kernelVars, sharedVars, sem_fd, open_fds, infile_set,
                 user_per_tick_inc_set_backup, time_mutex, threadVars, historyVars>>

InitStep(t) ==
  \/ InitLock(t)
  \/ InitGet(t)
  \/ PutReal(t, "init_real", "init_mon")
  \/ PutMon(t, "init_mon", "init_unlock")
  \/ InitUnlock(t)
-----------------------------------------------------------------------------
(* reset_time() *)

ResetLock(t) ==
  /\ Lock(t, "reset_lock", "reset_real")
  /\ UNCHANGED allButSem

\* Called from the initialisation, or from fake_clock_gettime() after the
\* cache has expired: there load_time() is next, once the rest of
\* parse_ft_string() has set the modifiers again.
ResetUnlock(t) ==
  LET p == ProcOf[t] IN
  /\ Live(t) /\ pc[t] = "reset_unlock"
  /\ ft_sem_unlock(p)
  /\ user_per_tick_inc_set' = [user_per_tick_inc_set EXCEPT ![p] = Ticking]
  /\ \/ proc[p] = "init" /\ Up(t)
     \/ proc[p] = "up" /\ Goto(t, "load") /\ UNCHANGED proc
  /\ UNCHANGED <<kernelVars, sharedVars, sem_fd, open_fds, ftpl_starttime, infile_set,
                 user_per_tick_inc_set_backup, time_mutex, threadVars, historyVars>>

ResetStep(t) ==
  \/ ResetLock(t)
  \/ PutReal(t, "reset_real", "reset_mon")
  \/ PutMon(t, "reset_mon", "reset_unlock")
  \/ ResetUnlock(t)
-----------------------------------------------------------------------------
(* fake_clock_gettime() *)

\* time(), gettimeofday(), clock_gettime() ... enter here.
GetTime(t) ==
  /\ calls < MaxCalls
  /\ calls' = calls + 1
  /\ proc[ProcOf[t]] = "up"
  /\ Move(t, "idle", "begin")
  /\ UNCHANGED <<kernelVars, semVars, sharedVars, procVars, configVars, time_mutex,
                 threadVars, served>>

\* Mutant: time_mutex is not taken.
Begin_nomutex(t) ==
  /\ Move(t, "begin", "load")
  /\ ans' = [ans EXCEPT ![t] = 0]
  /\ UNCHANGED <<kernelVars, semVars, sharedVars, procVars, configVars, time_mutex,
                 reg, fields, historyVars>>

\* libfaketimeMT takes time_mutex first.  When the cache has expired and
\* FAKETIME follows a file, the start time is taken anew.
Begin(t) ==
  LET p == ProcOf[t] IN
  /\ IF MT THEN /\ time_mutex[p] = NoThread
                /\ time_mutex' = [time_mutex EXCEPT ![p] = t]
           ELSE UNCHANGED time_mutex
  /\ ans' = [ans EXCEPT ![t] = 0]
  /\ \/ Move(t, "begin", "load") /\ UNCHANGED ftpl_starttime
     \/ /\ Resets = "always"
        /\ Move(t, "begin", "reset_lock")
        /\ ftpl_starttime' = [ftpl_starttime EXCEPT ![p] = Now]
  /\ UNCHANGED <<kernelVars, semVars, sharedVars, procVars, infile_set,
                 user_per_tick_inc_set, user_per_tick_inc_set_backup,
                 reg, fields, historyVars>>

\* infile_set is read before load_time() takes the lock.
Load(t) ==
  /\ IF infile_set[ProcOf[t]] THEN Move(t, "load", "load_lock")
                              ELSE Move(t, "load", "mode")
  /\ UNCHANGED <<kernelVars, semVars, sharedVars, procVars, configVars, time_mutex,
                 threadVars, historyVars>>

\* The answer is fixed.
Serve(t, a) ==
  /\ served' = Append(served, a)
  /\ ans' = [ans EXCEPT ![t] = Len(served) + 1]

\* FT_START_AT: a tick, or a time that follows the system clock from the
\* start time on.
Mode(t) ==
  LET p == ProcOf[t] IN
  /\ \/ /\ user_per_tick_inc_set[p]
        /\ Move(t, "mode", "tick_lock")
        /\ UNCHANGED <<ans, served>>
     \/ /\ ~user_per_tick_inc_set[p]
        /\ Move(t, "mode", "release")
        /\ Serve(t, G!RuleAnswer(ftpl_starttime[p].real))
  /\ UNCHANGED <<kernelVars, semVars, sharedVars, procVars, configVars, time_mutex,
                 reg, fields, calls>>

\* Mutant: counts the fields of struct stat in every call.
Return_counting(t) ==
  /\ fields' = [fields EXCEPT ![t] = @ - 1]
  /\ Goto(t, "idle")

\* Back to the program, or to the next field of struct stat.
Return(t) ==
  /\ fields' = [fields EXCEPT ![t] = IF @ = 0 THEN 0 ELSE @ - 1]
  /\ Goto(t, CASE fields[t] = 0 -> "idle"
               [] fields[t] = 1 -> "stat_restore"
               [] OTHER         -> "begin")

\* Mutant: what was computed from the start time is not saved.
Release_unsaved(t) ==
  LET p == ProcOf[t] IN
  /\ Live(t) /\ pc[t] = "release"
  /\ time_mutex' = IF MT THEN [time_mutex EXCEPT ![p] = NoThread] ELSE time_mutex
  /\ \/ /\ Saving /\ served[ans[t]].kind = "tick"
        /\ Goto(t, "save_lock")
        /\ UNCHANGED fields
     \/ /\ ~Saving \/ served[ans[t]].kind # "tick"
        /\ Return(t)
  /\ UNCHANGED <<kernelVars, semVars, sharedVars, procVars, configVars,
                 reg, ans, historyVars>>

\* Mutant: the early return after load_time() leaves time_mutex locked.
Release_locked(t) ==
  /\ Live(t) /\ pc[t] = "release"
  /\ time_mutex' = IF MT /\ served[ans[t]].kind # "file"
                   THEN [time_mutex EXCEPT ![ProcOf[t]] = NoThread] ELSE time_mutex
  /\ Return(t)
  /\ UNCHANGED <<kernelVars, semVars, sharedVars, procVars, configVars,
                 reg, ans, historyVars>>

\* time_mutex is released before save_time() is called; what came from the
\* load file is not saved.
Release(t) ==
  LET p == ProcOf[t] IN
  /\ Live(t) /\ pc[t] = "release"
  /\ time_mutex' = IF MT THEN [time_mutex EXCEPT ![p] = NoThread] ELSE time_mutex
  /\ \/ /\ Saving /\ served[ans[t]].kind # "file"
        /\ Goto(t, "save_lock")
        /\ UNCHANGED fields
     \/ /\ ~Saving \/ served[ans[t]].kind = "file"
        /\ Return(t)
  /\ UNCHANGED <<kernelVars, semVars, sharedVars, procVars, configVars,
                 reg, ans, historyVars>>

CallStep(t) == Begin(t) \/ Load(t) \/ Mode(t) \/ Release(t)
-----------------------------------------------------------------------------
(* next_time() *)

\* Mutant: next_time() does not lock.
TickLock_none(t) ==
  /\ Move(t, "tick_lock", "tick_read")
  /\ UNCHANGED <<semVars, allButSem>>

TickLock(t) ==
  /\ Lock(t, "tick_lock", "tick_read")
  /\ UNCHANGED allButSem

TickRead(t) ==
  /\ Move(t, "tick_read", "tick_inc")
  /\ reg' = [reg EXCEPT ![t] = ticks]
  /\ UNCHANGED <<kernelVars, semVars, sharedVars, procVars, configVars, time_mutex,
                 ans, fields, historyVars>>

\* The increment may use the value read before or load the counter again:
\* without the lock the two differ, and the compiler may do either.
TickInc(t) ==
  /\ Move(t, "tick_inc", "tick_unlock")
  /\ \E n \in {reg[t], ticks} : ticks' = n + 1
  /\ Serve(t, G!TickAnswer(reg[t]))
  /\ reg' = [reg EXCEPT ![t] = 0]
  /\ UNCHANGED <<kernelVars, semVars, file_idx, start_time, procVars, configVars,
                 time_mutex, fields, calls>>

TickUnlock(t) ==
  /\ Unlock(t, "tick_unlock", "release")
  /\ UNCHANGED allButSem

TickStep(t) == TickLock(t) \/ TickRead(t) \/ TickInc(t) \/ TickUnlock(t)
-----------------------------------------------------------------------------
(* load_time() *)

LoadLock(t) ==
  /\ Lock(t, "load_lock", "load_idx")
  /\ UNCHANGED allButSem

\* Mutant: one record too many.
LoadIdx_overrun(t) ==
  /\ \/ /\ file_idx <= LoadLen
        /\ Move(t, "load_idx", "load_take")
        /\ reg' = [reg EXCEPT ![t] = file_idx]
     \/ /\ file_idx > LoadLen /\ infile_set[ProcOf[t]]
        /\ Move(t, "load_idx", "load_ticks")
        /\ UNCHANGED reg
  /\ UNCHANGED <<kernelVars, semVars, sharedVars, procVars, configVars, time_mutex,
                 ans, fields, historyVars>>

LoadIdx(t) ==
  /\ \/ /\ file_idx < LoadLen
        /\ Move(t, "load_idx", "load_take")
        /\ reg' = [reg EXCEPT ![t] = file_idx]
     \/ /\ file_idx >= LoadLen /\ infile_set[ProcOf[t]]
        /\ Move(t, "load_idx", "load_ticks")
        /\ UNCHANGED reg
  /\ UNCHANGED <<kernelVars, semVars, sharedVars, procVars, configVars, time_mutex,
                 ans, fields, historyVars>>

LoadTake(t) ==
  /\ Move(t, "load_take", "load_unlock")
  /\ \E n \in {reg[t], file_idx} : file_idx' = n + 1
  /\ Serve(t, G!FileAnswer(reg[t]))
  /\ reg' = [reg EXCEPT ![t] = 0]
  /\ UNCHANGED <<kernelVars, semVars, ticks, start_time, procVars, configVars,
                 time_mutex, fields, calls>>

\* Mutant: the clock another process has started is not joined.
LoadTicks_apart(t) ==
  /\ Move(t, "load_ticks", IF ticks = 0 THEN "load_one" ELSE "load_unset")
  /\ UNCHANGED <<kernelVars, semVars, sharedVars, procVars, configVars, time_mutex,
                 threadVars, historyVars>>

\* All records are used up: the first process to notice starts the clock,
\* the others join it.
LoadTicks(t) ==
  /\ \/ /\ ticks = 0
        /\ Move(t, "load_ticks", "load_one")
        /\ UNCHANGED ftpl_starttime
     \/ /\ ticks # 0
        /\ Move(t, "load_ticks", "load_unset")
        /\ ftpl_starttime' = [ftpl_starttime EXCEPT ![ProcOf[t]] = start_time]
  /\ UNCHANGED <<kernelVars, semVars, sharedVars, procVars, infile_set,
                 user_per_tick_inc_set, user_per_tick_inc_set_backup, time_mutex,
                 threadVars, historyVars>>

\* Mutant: the tick counter is not moved at the end of the replay.
LoadOne_still(t) ==
  /\ Move(t, "load_one", "load_real")
  /\ ftpl_starttime' = [ftpl_starttime EXCEPT ![ProcOf[t]] = Now]
  /\ UNCHANGED <<kernelVars, semVars, sharedVars, procVars, infile_set,
                 user_per_tick_inc_set, user_per_tick_inc_set_backup, time_mutex,
                 threadVars, historyVars>>

LoadOne(t) ==
  /\ Move(t, "load_one", "load_real")
  /\ ticks' = 1
  /\ ftpl_starttime' = [ftpl_starttime EXCEPT ![ProcOf[t]] = Now]
  /\ UNCHANGED <<kernelVars, semVars, file_idx, start_time, procVars, infile_set,
                 user_per_tick_inc_set, user_per_tick_inc_set_backup, time_mutex,
                 threadVars, historyVars>>

LoadUnset(t) ==
  /\ Move(t, "load_unset", "load_unlock")
  /\ infile_set' = [infile_set EXCEPT ![ProcOf[t]] = FALSE]
  /\ UNCHANGED <<kernelVars, semVars, sharedVars, procVars, ftpl_starttime,
                 user_per_tick_inc_set, user_per_tick_inc_set_backup, time_mutex,
                 threadVars, historyVars>>

LoadUnlock(t) ==
  /\ IF ans[t] > 0 THEN Unlock(t, "load_unlock", "release")
                   ELSE Unlock(t, "load_unlock", "mode")
  /\ UNCHANGED allButSem

LoadStep(t) ==
  \/ LoadLock(t)
  \/ LoadIdx(t)
  \/ LoadTake(t)
  \/ LoadTicks(t)
  \/ LoadOne(t)
  \/ PutReal(t, "load_real", "load_mon")
  \/ PutMon(t, "load_mon", "load_unset")
  \/ LoadUnset(t)
  \/ LoadUnlock(t)
-----------------------------------------------------------------------------
(* save_time() *)

\* Mutant: save_time() goes on when an interrupted lock was not taken.
SaveLock_none(t) ==
  /\ Move(t, "save_lock", "save_write")
  /\ UNCHANGED <<semVars, allButSem>>

SaveLock(t) ==
  /\ Lock(t, "save_lock", "save_write")
  /\ UNCHANGED allButSem

\* write_all(): a write may be partial, and one after it may fail.  A failure
\* is only reported.
SaveWrite(t) ==
  /\ \/ /\ Move(t, "save_write", "save_rest")
        /\ outfile' = Append(outfile, <<ans[t], 1>>)
     \/ /\ WriteFails
        /\ Move(t, "save_write", "save_unlock")
        /\ UNCHANGED outfile
  /\ UNCHANGED <<now, torn, semVars, sharedVars, procVars, configVars, time_mutex,
                 threadVars, historyVars>>

\* Mutant: after a partial write, write_all() starts over.
SaveRest_again(t) ==
  /\ Move(t, "save_rest", "save_unlock")
  /\ outfile' = Append(outfile, <<ans[t], 1>>)
  /\ UNCHANGED <<now, torn, semVars, sharedVars, procVars, configVars, time_mutex,
                 threadVars, historyVars>>

SaveRest(t) ==
  /\ Move(t, "save_rest", "save_unlock")
  /\ \/ outfile' = Append(outfile, <<ans[t], 2>>) /\ UNCHANGED torn
     \/ WriteFails /\ torn' = torn \cup {ans[t]} /\ UNCHANGED outfile
  /\ UNCHANGED <<now, semVars, sharedVars, procVars, configVars, time_mutex,
                 threadVars, historyVars>>

SaveUnlock(t) ==
  /\ Live(t) /\ pc[t] = "save_unlock"
  /\ ft_sem_unlock(ProcOf[t])
  /\ Return(t)
  /\ UNCHANGED <<kernelVars, sharedVars, procVars, configVars, time_mutex,
                 reg, ans, historyVars>>

SaveStep(t) == SaveLock(t) \/ SaveWrite(t) \/ SaveRest(t) \/ SaveUnlock(t)
-----------------------------------------------------------------------------
(* lock_for_stat(), fake_statbuf(), unlock_for_stat() *)

Stat(t) ==
  /\ Stats
  /\ calls < MaxCalls
  /\ calls' = calls + 1
  /\ proc[ProcOf[t]] = "up"
  /\ Move(t, "idle", "stat_lock")
  /\ UNCHANGED <<kernelVars, semVars, sharedVars, procVars, configVars, time_mutex,
                 threadVars, served>>

\* Mutant: lock_for_stat() returns when it is interrupted.
StatLock_none(t) ==
  /\ Move(t, "stat_lock", "stat_clear")
  /\ UNCHANGED <<semVars, allButSem>>

StatLock(t) ==
  /\ Lock(t, "stat_lock", "stat_clear")
  /\ UNCHANGED allButSem

\* Ticking is switched off for the whole process while one thread converts
\* the time stamps of a file.
StatClear(t) ==
  LET p == ProcOf[t] IN
  /\ Move(t, "stat_clear", "begin")
  /\ user_per_tick_inc_set_backup' =
       [user_per_tick_inc_set_backup EXCEPT ![p] = user_per_tick_inc_set[p]]
  /\ user_per_tick_inc_set' = [user_per_tick_inc_set EXCEPT ![p] = FALSE]
  /\ fields' = [fields EXCEPT ![t] = StatFields]
  /\ UNCHANGED <<kernelVars, semVars, sharedVars, procVars, ftpl_starttime, infile_set,
                 time_mutex, reg, ans, historyVars>>

\* Mutant: ticking stays off after stat().
StatRestore_none(t) ==
  /\ Move(t, "stat_restore", "stat_unlock")
  /\ UNCHANGED <<kernelVars, semVars, sharedVars, procVars, configVars, time_mutex,
                 threadVars, historyVars>>

StatRestore(t) ==
  LET p == ProcOf[t] IN
  /\ Move(t, "stat_restore", "stat_unlock")
  /\ user_per_tick_inc_set' =
       [user_per_tick_inc_set EXCEPT ![p] = user_per_tick_inc_set_backup[p]]
  /\ UNCHANGED <<kernelVars, semVars, sharedVars, procVars, ftpl_starttime, infile_set,
                 user_per_tick_inc_set_backup, time_mutex, threadVars, historyVars>>

StatUnlock(t) ==
  /\ Unlock(t, "stat_unlock", "idle")
  /\ UNCHANGED allButSem

StatStep(t) == StatLock(t) \/ StatClear(t) \/ StatRestore(t) \/ StatUnlock(t)
-----------------------------------------------------------------------------
(* Processes and the system clock *)

\* fork() and exec(): the new program image attaches through a description
\* of its own; the inherited ones stay open, since ft_sem.c opens them
\* without O_CLOEXEC.
Spawn(t, u) ==
  LET p == ProcOf[t]
      q == ProcOf[u]
  IN
  /\ proc[p] = "up" /\ pc[t] = "idle"
  /\ proc[q] = "off"
  /\ proc' = [proc EXCEPT ![q] = "init"]
  /\ sem_fd' = [sem_fd EXCEPT ![q] = q]
  /\ open_fds' = [open_fds EXCEPT ![q] = open_fds[p] \cup {q}]
  /\ Goto(u, "init_lock")
  /\ UNCHANGED <<kernelVars, semVars, sharedVars, configVars, time_mutex,
                 threadVars, historyVars>>

\* fork() alone: the child goes on with a copy of the library's variables and
\* the same open file description.  Only the forking thread exists in it.
Fork(t, u) ==
  LET p == ProcOf[t]
      q == ProcOf[u]
      Copy(f) == [f EXCEPT ![q] = f[p]]
  IN
  /\ Forks
  /\ proc[p] = "up" /\ pc[t] = "idle"
  /\ proc[q] = "off"
  /\ proc' = Copy(proc)
  /\ sem_fd' = Copy(sem_fd)
  /\ open_fds' = Copy(open_fds)
  /\ ftpl_starttime' = Copy(ftpl_starttime)
  /\ infile_set' = Copy(infile_set)
  /\ user_per_tick_inc_set' = Copy(user_per_tick_inc_set)
  /\ user_per_tick_inc_set_backup' = Copy(user_per_tick_inc_set_backup)
  /\ time_mutex' = Copy(time_mutex)
  /\ Goto(u, "idle")
  /\ UNCHANGED <<kernelVars, semVars, sharedVars, threadVars, historyVars>>

Forget(f, p) == [t \in Thread |-> IF ProcOf[t] = p THEN 0 ELSE f[t]]

\* The process is gone with its memory: the kernel closes its descriptors, and
\* the flock goes with the last one that refers to it.  A semaphore stays as
\* it is.  pc keeps where the threads were.
Die(p) ==
  /\ proc' = [proc EXCEPT ![p] = "dead"]
  /\ open_fds' = [open_fds EXCEPT ![p] = {}]
  /\ flock_owner' = IF \E q \in Proc \ {p} : flock_owner \in open_fds[q]
                    THEN flock_owner ELSE Free
  /\ torn' = torn \cup {ans[t] : t \in {u \in Threads(p) : pc[u] = "save_rest"}}
  /\ ftpl_starttime' = [ftpl_starttime EXCEPT ![p] = NoTime]
  /\ infile_set' = [infile_set EXCEPT ![p] = FALSE]
  /\ user_per_tick_inc_set' = [user_per_tick_inc_set EXCEPT ![p] = FALSE]
  /\ user_per_tick_inc_set_backup' = [user_per_tick_inc_set_backup EXCEPT ![p] = FALSE]
  /\ time_mutex' = [time_mutex EXCEPT ![p] = NoThread]
  /\ reg' = Forget(reg, p)
  /\ ans' = Forget(ans, p)
  /\ fields' = Forget(fields, p)
  /\ UNCHANGED <<now, outfile, sem_value, sharedVars, sem_fd, pc, historyVars>>

\* The end of a process: a normal exit; exit(1) when waiting for the lock in
\* the initialisation or in reset_time() is interrupted; or a crash anywhere.
Exit(p) ==
  /\ proc[p] \in {"init", "up"}
  /\ Crashes \/ \A t \in Threads(p) : pc[t] \in {"off", "idle", "init_lock", "reset_lock"}
  /\ Die(p)

\* load_time() reads the last record of a file that another thread of the
\* process has unmapped while this one waited for the lock.
Fault(t) ==
  /\ Live(t) /\ pc[t] = "load_idx"
  /\ file_idx >= LoadLen /\ ~infile_set[ProcOf[t]]
  /\ Die(ProcOf[t])

Clock ==
  /\ now < MaxNow
  /\ now' = now + 1
  /\ UNCHANGED <<outfile, torn, semVars, sharedVars, procVars, configVars, time_mutex,
                 pc, threadVars, historyVars>>
-----------------------------------------------------------------------------
Init ==
  /\ now = 0
  /\ sem_value = 1
  /\ flock_owner = Free
  /\ outfile = <<>>
  /\ torn = {}
  /\ ticks = 0
  /\ file_idx = 0
  /\ start_time = NoTime
  /\ proc = [p \in Proc |-> IF p = ProcOf[Root] THEN "init" ELSE "off"]
  /\ sem_fd = [p \in Proc |-> p]
  /\ open_fds = [p \in Proc |-> IF p = ProcOf[Root] THEN {p} ELSE {}]
  /\ ftpl_starttime = [p \in Proc |-> NoTime]
  /\ infile_set = [p \in Proc |-> LoadLen > 0]
  /\ user_per_tick_inc_set = [p \in Proc |-> FALSE]
  /\ user_per_tick_inc_set_backup = [p \in Proc |-> FALSE]
  /\ time_mutex = [p \in Proc |-> NoThread]
  /\ pc = [t \in Thread |-> IF t = Root THEN "init_lock" ELSE "off"]
  /\ reg = [t \in Thread |-> 0]
  /\ ans = [t \in Thread |-> 0]
  /\ fields = [t \in Thread |-> 0]
  /\ calls = 0
  /\ served = <<>>

\* The program calls the library.
Request(t) == GetTime(t) \/ Stat(t)

\* The library works on the call.
LibraryStep(t) ==
  InitStep(t) \/ ResetStep(t) \/ CallStep(t) \/ LoadStep(t) \/ TickStep(t)
    \/ SaveStep(t) \/ StatStep(t) \/ Fault(t)

Next ==
  \/ \E t \in Thread : Request(t) \/ LibraryStep(t)
  \/ \E t, u \in Thread : Spawn(t, u) \/ Fork(t, u)
  \/ \E p \in Proc : Exit(p)
  \/ Clock

Spec == Init /\ [][Next]_vars

\* A thread inside the library is scheduled, and gets a lock that is free for
\* long enough.  What the program does, and when a process ends, is not fair.
FairSpec == Spec /\ \A t \in Thread : WF_vars(LibraryStep(t))
-----------------------------------------------------------------------------
(* Properties *)

HalfRecord == Nat \X {1, 2}
Answer     == [kind : {"file", "tick", "rule"}, n : Nat \cup {Unset}]

KernelType  == now \in Instant /\ outfile \in Seq(HalfRecord) /\ torn \subseteq Nat
SemType     == sem_value \in Nat /\ flock_owner \in Proc \cup {Free}
SharedType  == ticks \in Nat /\ file_idx \in Nat /\ start_time \in Time
ProcType ==
  /\ proc \in [Proc -> {"off", "init", "up", "dead"}]
  /\ sem_fd \in [Proc -> Proc]
  /\ open_fds \in [Proc -> SUBSET Proc]
ConfigType ==
  /\ ftpl_starttime \in [Proc -> Time]
  /\ infile_set \in [Proc -> BOOLEAN]
  /\ user_per_tick_inc_set \in [Proc -> BOOLEAN]
  /\ user_per_tick_inc_set_backup \in [Proc -> BOOLEAN]
ThreadType ==
  /\ reg \in [Thread -> Nat]
  /\ ans \in [Thread -> Nat]
  /\ fields \in [Thread -> 0..StatFields]
HistoryType == calls \in 0..MaxCalls /\ served \in Seq(Answer)

\* Every variable has its type, and the counters of the model their bounds.
TypeOK ==
  /\ KernelType
  /\ SemType
  /\ SharedType
  /\ ProcType
  /\ ConfigType
  /\ time_mutex \in [Proc -> Thread \cup {NoThread}]
  /\ pc \in [Thread -> Step]
  /\ ThreadType
  /\ HistoryType

\* Where ft_sem_lock() excludes every other thread of the session: always
\* with a counting semaphore, and with flock() if no two threads share an
\* open file description.
Exclusive ==
  \/ Backend = "sem"
  \/ ~Forks /\ \A t, u \in Thread : ProcOf[t] = ProcOf[u] => t = u

\* No two threads of the session are between ft_sem_lock() and
\* ft_sem_unlock() of init, reset_time(), load_time(), next_time() or
\* save_time() at once, even when one of these runs inside a stat() that
\* already holds the lock.
MutualExclusion ==
  \A t, u \in Thread :
    /\ Live(t) /\ pc[t] \in CS
    /\ Live(u) /\ pc[u] \in CS
    => t = u

\* next_time() and load_time() advance one global clock: every record of the
\* load file is handed out once, in order, before anything else; every tick
\* is handed out once and the counter never skips or repeats one.
OneGlobalClock == G!GSpec

\* With the "i" modifier the clock steps once per call: no two calls of the
\* session get the same tick.
EveryCallSteps ==
  \A i, j \in 1..Len(served) :
    served[i] = served[j] /\ served[i].kind = "tick" => i = j

\* A process was killed between the two writes of system_time_to_shared(),
\* or before them with the tick counter already moved.
DiedInStart ==
  \E t \in Thread :
    /\ ~Live(t)
    /\ pc[t] \in {"init_real", "init_mon", "reset_real", "reset_mon", "load_real", "load_mon"}

\* A process that has yet to notice that the replay is over has the old start
\* time.
Behind(p) == LoadLen > 0 /\ infile_set[p] /\ ticks > 0

\* All other processes count from the same start time, the one in shared
\* memory, on every clock: a child sees the clock of its parent go on
\* (FAKETIME_DONT_RESET or an offset), also after a replay.
StartAgreement ==
  Resets = "never" /\ ~DiedInStart =>
    \A p \in Proc : proc[p] = "up" /\ ~Behind(p) => ftpl_starttime[p] = start_time

\* Unless a write has failed or a writer was killed half way, the save file
\* holds whole records, none of them twice, ...
WholeRecords ==
  torn = {} =>
    /\ \A i \in 1..Len(outfile) : i % 2 = 0 =>
         outfile[i - 1] = <<outfile[i][1], 1>> /\ outfile[i][2] = 2
    /\ \A i, j \in 1..Len(outfile) : outfile[i] = outfile[j] => i = j

\* ... and a thread that has returned to the program has its answer in it,
\* if the answer did not come from the load file.
SavedBeforeReturn ==
  Saving /\ ~WriteFails =>
    \A t \in Thread : Live(t) /\ pc[t] = "idle" /\ ans[t] > 0 =>
      \/ served[ans[t]].kind = "file"
      \/ \E i \in 1..Len(outfile) : outfile[i] = <<ans[t], 2>>

\* With the "i" modifier, a call of the time() family never gets a time
\* computed from the system clock: stat() switches ticking off for its own
\* conversions only.
TickingIgnoresSystemClock ==
  Ticking =>
    \A t \in Thread : Live(t) /\ pc[t] = "release" /\ fields[t] = 0 =>
      served[ans[t]].kind # "rule"

\* A process was killed inside a call.
DiedInside ==
  \E t \in Thread :
    /\ proc[ProcOf[t]] = "dead"
    /\ pc[t] \notin {"off", "idle", "init_lock", "reset_lock"}

\* Every call of the time() family returns, and every initialisation ends:
\* neither time_mutex nor the shared lock is ever kept by a thread that has
\* left its critical section.
CallsReturn ==
  \A t \in Thread :
    Live(t) /\ pc[t] \notin {"off", "idle"} ~> pc[t] = "idle" \/ ~Live(t) \/ DiedInside
=============================================================================

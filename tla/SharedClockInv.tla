---------------------------- MODULE SharedClockInv ----------------------------
(***************************************************************************)
(* The inductive invariants behind the safety properties of SharedClock:   *)
(* where a thread is, what it then knows of the lock and of the state the  *)
(* lock protects (for MutualExclusion, OneGlobalClock and StartAgreement); *)
(* which answer it has and whether it ticks (AnswerInv and TickInv, for    *)
(* TickingIgnoresSystemClock); and what of its answer is in the save file  *)
(* (SavedInv, for SavedBeforeReturn, OnceInv, PairInv, for WholeRecords).  *)
(***************************************************************************)
EXTENDS SharedClock

\* A process initialises the library in one thread, before main().
InitPhase == {"off", "init_lock", "reset_lock"} \cup InitCS \cup ResetCS

ProcInv ==
  \A t \in Thread :
    /\ proc[ProcOf[t]] = "off"  => pc[t] = "off"
    /\ proc[ProcOf[t]] = "init" => pc[t] \in InitPhase
    /\ proc[ProcOf[t]] = "up"   => pc[t] \notin {"init_lock"} \cup InitCS

\* Where a thread holds the semaphore: in a critical section, or anywhere
\* inside a stat(), whose calls of fake_clock_gettime() count fields down.
StatCS   == {"stat_clear", "stat_restore", "stat_unlock"}
Holds(t) == Live(t) /\ (pc[t] \in CS \cup StatCS \/ fields[t] > 0)

\* Backend "sem".  A critical section inside a stat() is never entered: it
\* would wait for the thread itself.
SemInv ==
  /\ sem_value \in {0, 1}
  /\ \A t \in Thread : Holds(t) => sem_value = 0
  /\ \A t, u \in Thread : Holds(t) /\ Holds(u) => t = u
  /\ \A t \in Thread :
       (Live(t) /\ pc[t] \in CS \cup StatCS) \/ proc[ProcOf[t]] \in {"off", "init"}
         => fields[t] = 0

\* Backend "flock".  Here a critical section inside a stat() is entered, and
\* its end releases the lock of the stat() too.
FlockInv ==
  /\ \A p \in Proc : sem_fd[p] = p
  /\ \A p \in Proc : proc[p] \in {"init", "up"} => p \in open_fds[p]
  /\ \A t \in Thread : Live(t) /\ pc[t] \in CS => flock_owner = ProcOf[t]

\* The replay is over, and next_time() may hand out ticks.
Past == file_idx >= LoadLen /\ (LoadLen > 0 => ticks > 0)

\* What thread t knows of the shared counters, by where it is.
Knows(t) ==
  /\ pc[t] = "tick_inc"  => reg[t] = ticks
  /\ pc[t] = "load_take" => reg[t] = file_idx /\ file_idx < LoadLen
  /\ pc[t] \in {"load_ticks", "load_one"} => file_idx >= LoadLen
  /\ pc[t] = "load_one" => ticks = 0
  /\ pc[t] \in {"load_real", "load_mon", "load_unset"} => Past
  /\ pc[t] = "load_unlock" => ans[t] > 0 \/ Past
  /\ pc[t] \in {"mode", "tick_lock"} \cup TickCS => Past
  /\ pc[t] \in {"load_lock"} \cup LoadCS => LoadLen > 0

CounterInv ==
  /\ \A t \in Thread : Live(t) => Knows(t)
  /\ \A p \in Proc : proc[p] # "dead" /\ ~infile_set[p] /\ LoadLen > 0 => Past
  /\ \A p \in Proc : infile_set[p] => LoadLen > 0

\* A process has its start time once it has read or made one, and the session
\* once one process has put it into shared memory.
HasStart == {"init_real", "init_mon", "init_unlock", "reset_lock"} \cup ResetCS
Started  == start_time.real # Unset
StartInv ==
  /\ \A t \in Thread : Live(t) /\ pc[t] \in HasStart =>
       /\ ftpl_starttime[ProcOf[t]].real # Unset
       /\ pc[t] # "init_real" => Started
  /\ \A p \in Proc : proc[p] = "up" => Started /\ ftpl_starttime[p].real # Unset

\* Without resets the start time changes twice, when the first process makes it and
\* when one ends the replay.  Meanwhile nobody counts from it, and whoever changes it
\* or takes it over has it when the lock is released, unless a process died on the way.
CountsFrom(p) == proc[p] = "up" /\ ~Behind(p) => ftpl_starttime[p] = start_time
KnowsStart(t) ==
  LET st == ftpl_starttime[ProcOf[t]] IN
  /\ pc[t] \in {"init_mon", "load_mon"} => start_time.real = st.real
  /\ pc[t] \in {"init_unlock", "load_unset"} => start_time = st
  /\ pc[t] \in {"init_real", "init_mon"} => \A p \in Proc : proc[p] # "up"
  /\ pc[t] \in {"load_real", "load_mon"} => \A p \in Proc : proc[p] = "up" => infile_set[p]
AgreeInv ==
  Resets = "never" =>
    /\ \A t \in Thread : pc[t] \notin {"reset_lock"} \cup ResetCS
    /\ ~DiedInStart => /\ \A p \in Proc : CountsFrom(p)
                       /\ \A t \in Thread : Live(t) => KnowsStart(t)

\* The two configurations in which the lock excludes.
Alone == Backend = "flock" /\ ~Forks /\ \A t, u \in Thread : ProcOf[t] = ProcOf[u] => t = u
LockInv ==
  /\ Backend = "sem" => SemInv
  /\ Alone => FlockInv
-----------------------------------------------------------------------------
(* Answers, the "i" modifier and the save file *)

\* Where the call under way has no answer yet, and where it has one.
NoAnswer  == {"reset_lock", "load", "mode", "load_lock", "tick_lock", "tick_read", "tick_inc"}
               \cup ResetCS \cup (LoadCS \ {"load_unlock"})
HasAnswer == {"tick_unlock", "release", "save_lock"} \cup SaveCS

\* An answer is one of those served, of the kind of the function that gave it.
AnswerOf(t) ==
  /\ ans[t] \in 0..Len(served)
  /\ proc[ProcOf[t]] \in {"off", "init"} => ans[t] = 0 /\ fields[t] = 0
  /\ Live(t) /\ pc[t] \in NoAnswer => ans[t] = 0
  /\ Live(t) /\ pc[t] \in HasAnswer => ans[t] > 0
  /\ Live(t) /\ pc[t] = "tick_unlock" => served[ans[t]].kind = "tick"
  /\ Live(t) /\ pc[t] = "load_unlock" /\ ans[t] > 0 => served[ans[t]].kind = "file"
AnswerInv == \A t \in Thread : AnswerOf(t)

\* A thread inside stat() has switched ticking off and kept what it was; for
\* every other thread ticking is on.
InStat(t) == fields[t] > 0 \/ pc[t] = "stat_restore"
TicksFor(t) ==
  LET p == ProcOf[t] IN
  proc[p] = "up" =>
    /\ IF InStat(t) THEN Stats /\ user_per_tick_inc_set_backup[p]
                    ELSE user_per_tick_inc_set[p]
    /\ pc[t] \in {"stat_lock", "stat_clear"} => Stats
    /\ pc[t] \in {"idle", "stat_lock"} \cup StatCS => fields[t] = 0
    /\ pc[t] = "release" /\ fields[t] = 0 => served[ans[t]].kind # "rule"
TickInv == \A t \in Thread : TicksFor(t)

\* Where stat() cannot be seen by another thread of its process.
StatAlone == ~Stats \/ \A t, u \in Thread : ProcOf[t] = ProcOf[u] => t = u

\* From the end of save_time() until the next call, the answer is in the file.
AfterSave == {"save_unlock", "stat_restore", "stat_unlock", "idle"}
Saved(t) ==
  \/ served[ans[t]].kind = "file"
  \/ \E i \in 1..Len(outfile) : outfile[i] = <<ans[t], 2>>
SavedInv ==
  \A t \in Thread : Live(t) /\ ans[t] > 0 /\ pc[t] \in AfterSave => Saved(t)

\* No two threads have the same answer to save, and what a thread has to save
\* is not in the file yet.
Unsaved(t) ==
  Live(t) /\ ans[t] > 0
    /\ pc[t] \in {"tick_unlock", "load_unlock", "release", "save_lock", "save_write"}
Pending(t) == Unsaved(t) \/ (Live(t) /\ pc[t] = "save_rest")
OnceInv ==
  /\ \A i \in 1..Len(outfile) : outfile[i][1] <= Len(served)
  /\ \A i, j \in 1..Len(outfile) : outfile[i] = outfile[j] => i = j
  /\ \A t \in Thread : Unsaved(t) => \A i \in 1..Len(outfile) : outfile[i][1] # ans[t]
  /\ \A t \in Thread : Pending(t) => \A i \in 1..Len(outfile) : outfile[i] # <<ans[t], 2>>
  /\ \A t, u \in Thread : Pending(t) /\ Pending(u) /\ ans[t] = ans[u] => t = u

\* The file ends in half a record only while a thread is between its two writes.
Between(t) == Live(t) /\ pc[t] = "save_rest"
PairInv ==
  torn = {} =>
    /\ \A i \in 1..Len(outfile) : i % 2 = 0 =>
         outfile[i - 1] = <<outfile[i][1], 1>> /\ outfile[i][2] = 2
    /\ \A t \in Thread : Between(t) =>
         Len(outfile) % 2 = 1 /\ outfile[Len(outfile)] = <<ans[t], 1>>
    /\ Len(outfile) % 2 = 1 => \E t \in Thread : Between(t)
=============================================================================

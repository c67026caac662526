------------------------ MODULE SharedClockInv_proofs ------------------------
(***************************************************************************)
(* The lock of ft_sem.c and what it protects, for every number of          *)
(* processes, threads, records and calls.  ProcInv (where threads are) and *)
(* SemInv or FlockInv (who has the lock), by backend, give the exclusion;  *)
(* with it CounterInv (what a thread knows of ticks and file_idx), and     *)
(* without it StartInv (there is a start time); all of them give the       *)
(* refinement of GlobalClock and, with AgreeInv, the one start time.  With *)
(* the exclusion PairInv, and with any lock OnceInv, give whole records.   *)
(***************************************************************************)
EXTENDS SharedClock_proofs

USE ThreadsAssumption, BoundsAssumption DEF ThreadsAssumption, BoundsAssumption

\* ft_sem_lock() and ft_sem_unlock() keep all threads of all processes apart, if the
\* backend is a semaphore or if no two threads share an open file description.
THEOREM Exclusion == ASSUME Exclusive PROVE Spec => []MutualExclusion
\* ft_shm_create() creates the semaphore with value 1; no thread is in a
\* critical section.
\* With flock() and one description per thread every step keeps FlockInv.
\* With a counting semaphore every step keeps SemInv: at most one thread holds it.
<1>sem. Backend = "sem" /\ TypeOK /\ ProcInv /\ SemInv /\ [Next]_vars => SemInv'
  <2> SUFFICES ASSUME Backend = "sem", TypeOK, ProcInv, SemInv, [Next]_vars PROVE SemInv'
    BY Zenon
  <2> USE DEF Move, Lock, Unlock, procVars, semVars, threadVars, allButSem
  \* A step that takes no lock and gives none back.
  <2>stay. ASSUME NEW t \in Thread, NEW to, Goto(t, to), Live(t),
                  UNCHANGED <<sem_value, proc>>,
                  \A u \in Thread \ {t} : fields'[u] = fields[u],
                  to \in CS \cup StatCS => pc[t] \in CS \cup StatCS \/ fields[t] > 0,
                  to \in CS \cup StatCS => fields'[t] = 0,
                  fields'[t] > 0 => fields[t] > 0 \/ pc[t] \in StatCS,
                  proc[ProcOf[t]] = "init" => fields'[t] = 0
           PROVE  SemInv'
    BY <2>stay DEF TypeOK, ThreadType, SemInv, Holds, Live, Goto
  \* Taking the semaphore keeps SemInv.
  <2>lock. ASSUME NEW t \in Thread, NEW to, Goto(t, to), Live(t), ft_sem_lock(ProcOf[t]),
                  UNCHANGED <<proc, fields>>
           PROVE  SemInv'
    BY <2>lock DEF TypeOK, ThreadType, SemInv, Holds, Live, Goto, ft_sem_lock
  \* Giving the semaphore back at the end of a critical section keeps SemInv.
  <2>unlock. ASSUME NEW t \in Thread, NEW to, Goto(t, to), Live(t), ft_sem_unlock(ProcOf[t]),
                    UNCHANGED <<proc, fields>>, pc[t] \in CS \cup StatCS,
                    to \notin CS \cup StatCS
             PROVE  SemInv'
    BY <2>unlock DEF TypeOK, ThreadType, SemInv, Holds, Live, Goto, ft_sem_unlock
  \* So does the unlock that ends the initialisation.
  <2>up. ASSUME NEW t \in Thread, Up(t), ft_sem_unlock(ProcOf[t]), UNCHANGED fields,
                proc[ProcOf[t]] = "init", pc[t] \in CS
         PROVE  SemInv'
    BY <2>up DEF TypeOK, ThreadType, SemInv, Holds, Live, Up, ft_sem_unlock, CS, InitCS, ResetCS,
           LoadCS, TickCS, SaveCS, StatCS, ProcType
  <2>0. /\ InitCS \cup ResetCS \cup LoadCS \cup TickCS \cup SaveCS = CS
        /\ (CS \cup StatCS) \cap {"off", "idle", "begin", "load", "mode", "release"} = {}
        /\ (CS \cup StatCS) \cap Waiting = {}
    BY Zenon DEF CS, InitCS, ResetCS, LoadCS, TickCS, SaveCS, StatCS, Waiting
  <2>1. ASSUME NEW t \in Thread, Request(t) PROVE SemInv'
    <3>1. fields' = fields /\ (proc[ProcOf[t]] = "init" => fields[t] = 0)
      BY <2>1, Zenon DEF Request, GetTime, Stat, SemInv
    <3> QED
      BY <2>1, <2>0, <2>stay, <3>1, Zenon DEF Request, GetTime, Stat, Waiting
  <2>2. ASSUME NEW t \in Thread, InitStep(t) PROVE SemInv'
    <3>0. Live(t) /\ proc[ProcOf[t]] = "init" /\ fields[t] = 0
      BY <2>2, Zenon DEF InitStep, InitLock, InitGet, PutReal, PutMon, InitUnlock, Live, ProcInv,
         SemInv, InitCS
    <3>1. CASE InitLock(t)
      BY <2>lock, <3>1, Zenon DEF InitLock
    <3>2. CASE InitGet(t)
      BY <2>0, <2>stay, <3>0, <3>2, Zenon DEF InitGet, InitCS
    <3>3. CASE PutReal(t, "init_real", "init_mon") \/ PutMon(t, "init_mon", "init_unlock")
      BY <2>0, <2>stay, <3>0, <3>3, Zenon DEF PutReal, PutMon, InitCS
    <3>4. CASE InitUnlock(t)
      BY <2>0, <2>unlock, <2>up, <3>0, <3>4, Zenon DEF InitUnlock, InitCS, Waiting
    <3> QED
      BY <2>2, <3>1, <3>2, <3>3, <3>4, Zenon DEF InitStep
  <2>3. ASSUME NEW t \in Thread, ResetStep(t) PROVE SemInv'
    <3>1. CASE ResetLock(t)
      BY <2>lock, <3>1, Zenon DEF ResetLock
    <3>2. CASE PutReal(t, "reset_real", "reset_mon") \/ PutMon(t, "reset_mon", "reset_unlock")
      <4>1. pc[t] \in CS /\ Live(t) /\ fields[t] = 0
        BY <2>0, <3>2, Zenon DEF PutReal, PutMon, ResetCS, SemInv
      <4> QED
        BY <2>0, <2>stay, <3>2, <4>1, Zenon DEF PutReal, PutMon
    <3>3. CASE ResetUnlock(t)
      BY <2>0, <2>unlock, <2>up, <3>3, Zenon DEF ResetUnlock, ResetCS
    <3> QED
      BY <2>3, <3>1, <3>2, <3>3, Zenon DEF ResetStep
  <2>4. ASSUME NEW t \in Thread, CallStep(t) PROVE SemInv'
    <3>1. CASE Begin(t) \/ Load(t) \/ Mode(t)
      <4>1. /\ fields' = fields /\ proc' = proc /\ sem_value' = sem_value /\ Live(t)
            /\ \E to \in {"load", "reset_lock", "load_lock", "mode", "tick_lock", "release"} :
                 Goto(t, to)
        BY <3>1, Zenon DEF Begin, Load, Mode
      <4> QED
        BY <2>0, <2>stay, <4>1, Zenon DEF SemInv, Waiting
    <3>2. CASE Release(t)
      <4>1. /\ proc' = proc /\ sem_value' = sem_value /\ Live(t) /\ pc[t] = "release"
            /\ \/ Goto(t, "save_lock") /\ fields' = fields
               \/ Return(t)
        BY <3>2, Zenon DEF Release
      <4>2. CASE Goto(t, "save_lock") /\ fields' = fields
        BY <2>0, <2>stay, <4>1, <4>2, Zenon DEF SemInv, Waiting
      <4>3. CASE Return(t)
        BY <2>0, <2>stay, <4>1, <4>3 DEF TypeOK, ThreadType, SemInv, Return, StatCS
      <4> QED
        BY <4>1, <4>2, <4>3, Zenon
    <3> QED
      BY <2>4, <3>1, <3>2, Zenon DEF CallStep
  <2>5. ASSUME NEW t \in Thread, LoadStep(t) PROVE SemInv'
    <3>1. CASE LoadLock(t)
      BY <2>lock, <3>1, Zenon DEF LoadLock
    <3>2. CASE LoadUnlock(t)
      BY <2>0, <2>unlock, <3>2, Zenon DEF LoadUnlock, LoadCS
    <3>3. CASE ~LoadLock(t) /\ ~LoadUnlock(t)
      <4>1. /\ fields' = fields /\ proc' = proc /\ sem_value' = sem_value /\ Live(t)
            /\ pc[t] \in LoadCS
            /\ \E to \in LoadCS : Goto(t, to)
        BY <2>5, <3>3, Zenon DEF LoadStep, LoadIdx, LoadTake, LoadTicks, LoadOne, PutReal, PutMon,
           LoadUnset, LoadCS
      <4> QED
        BY <2>0, <2>stay, <4>1, Zenon DEF SemInv
    <3> QED
      BY <3>1, <3>2, <3>3, Zenon
  <2>6. ASSUME NEW t \in Thread, TickStep(t) PROVE SemInv'
    <3>1. CASE TickLock(t)
      BY <2>lock, <3>1, Zenon DEF TickLock
    <3>2. CASE TickUnlock(t)
      BY <2>0, <2>unlock, <3>2, Zenon DEF TickUnlock, TickCS
    <3>3. CASE TickRead(t) \/ TickInc(t)
      <4>1. /\ fields' = fields /\ proc' = proc /\ sem_value' = sem_value /\ Live(t)
            /\ pc[t] \in TickCS
            /\ \E to \in TickCS : Goto(t, to)
        BY <3>3, Zenon DEF TickRead, TickInc, TickCS
      <4> QED
        BY <2>0, <2>stay, <4>1, Zenon DEF SemInv
    <3> QED
      BY <2>6, <3>1, <3>2, <3>3, Zenon DEF TickStep
  <2>7. ASSUME NEW t \in Thread, SaveStep(t) PROVE SemInv'
    <3>1. CASE SaveLock(t)
      BY <2>lock, <3>1, Zenon DEF SaveLock
    <3>2. CASE SaveUnlock(t)
      <4>1. fields[t] = 0 /\ fields' = fields /\ Goto(t, "idle")
        BY <2>0, <3>2 DEF TypeOK, ThreadType, SemInv, SaveUnlock, Return, SaveCS
      <4> QED
        BY <2>0, <2>unlock, <3>2, <4>1, Zenon DEF SaveUnlock, SaveCS
    <3>3. CASE SaveWrite(t) \/ SaveRest(t)
      <4>1. /\ fields' = fields /\ proc' = proc /\ sem_value' = sem_value /\ Live(t)
            /\ pc[t] \in SaveCS
            /\ \E to \in SaveCS : Goto(t, to)
        BY <3>3, Zenon DEF SaveWrite, SaveRest, SaveCS
      <4> QED
        BY <2>0, <2>stay, <4>1, Zenon DEF SemInv
    <3> QED
      BY <2>7, <3>1, <3>2, <3>3 DEF SaveStep
  <2>8. ASSUME NEW t \in Thread, StatStep(t) PROVE SemInv'
    <3>1. CASE StatLock(t)
      BY <2>lock, <3>1, Zenon DEF StatLock
    <3>2. CASE StatClear(t)
      <4>1. proc[ProcOf[t]] = "up"
        BY <3>2, Zenon DEF ProcInv, StatClear, Live, InitPhase, InitCS, ResetCS
      <4> QED
        BY <2>0, <2>stay, <3>2, <4>1, Zenon DEF TypeOK, ThreadType, StatClear, StatCS
    <3>3. CASE StatRestore(t)
      BY <2>0, <2>stay, <3>3, Zenon DEF SemInv, StatRestore, StatCS
    <3>4. CASE StatUnlock(t)
      BY <2>0, <2>unlock, <3>4, Zenon DEF StatUnlock, StatCS
    <3> QED
      BY <2>8, <3>1, <3>2, <3>3, <3>4, Zenon DEF StatStep
  <2>9. ASSUME NEW t \in Thread, NEW u \in Thread, Spawn(t, u) \/ Fork(t, u) PROVE SemInv'
    <3>1. /\ fields' = fields /\ sem_value' = sem_value
          /\ proc[ProcOf[u]] = "off"
          /\ \E s \in {"init", "up"} : proc' = [proc EXCEPT ![ProcOf[u]] = s]
          /\ \E to \in {"init_lock", "idle"} : Goto(u, to)
      BY <2>9, Zenon DEF Spawn, Fork
    <3> QED
      BY <2>0, <3>1 DEF TypeOK, ProcType, ThreadType, ProcInv, SemInv, Holds, Live, Goto,
         Waiting
  <2>10. ASSUME NEW p \in Proc, Die(p) PROVE SemInv'
    BY <2>10, Zenon DEF TypeOK, ProcType, ThreadType, SemInv, Holds, Live, Die, Forget
  <2>11. CASE Clock \/ UNCHANGED vars
    BY <2>11, Zenon DEF SemInv, Holds, Live, Clock, vars
  <2> QED
    BY <2>1, <2>2, <2>3, <2>4, <2>5, <2>6, <2>7, <2>8, <2>9, <2>10, <2>11, Zenon
    DEF Next, LibraryStep, Exit, Fault
<1>flock. Alone /\ TypeOK /\ FlockInv /\ [Next]_vars => FlockInv'
  <2> SUFFICES ASSUME Alone, TypeOK, FlockInv, [Next]_vars PROVE FlockInv'
    BY Zenon
  <2> USE DEF Move, Lock, Unlock, procVars, semVars, allButSem
  \* A step without flock() keeps FlockInv.
  <2>stay. ASSUME NEW t \in Thread, NEW to, Goto(t, to), Live(t),
                  UNCHANGED <<flock_owner, procVars>>, to \in CS => pc[t] \in CS
           PROVE  FlockInv'
    BY <2>stay, Zenon DEF TypeOK, FlockInv, Live, Goto, procVars
  \* flock(LOCK_EX) keeps FlockInv: nobody else is in a critical section.
  <2>lock. ASSUME NEW t \in Thread, NEW to, Goto(t, to), Live(t), ft_sem_lock(ProcOf[t]),
                  UNCHANGED procVars
           PROVE  FlockInv'
    BY <2>lock DEF Alone, TypeOK, FlockInv, Live, Goto, ft_sem_lock, procVars
  \* flock(LOCK_UN) keeps FlockInv.
  <2>unlock. ASSUME NEW t \in Thread, NEW to, Goto(t, to), to \notin CS,
                    ft_sem_unlock(ProcOf[t]), UNCHANGED procVars
             PROVE  FlockInv'
    BY <2>unlock DEF Alone, TypeOK, FlockInv, Live, Goto, ft_sem_unlock, procVars
  \* So does the unlock that ends the initialisation.
  <2>up. ASSUME NEW t \in Thread, Live(t), Up(t), ft_sem_unlock(ProcOf[t]),
                UNCHANGED <<sem_fd, open_fds>>
         PROVE  FlockInv'
    <3>1. "idle" \notin CS
      BY <2>up, Zenon DEF CS, InitCS, ResetCS, LoadCS, TickCS, SaveCS
    <3> QED
      BY <2>up, <3>1 DEF Alone, TypeOK, ProcType, FlockInv, Live, Up, ft_sem_unlock
  <2>0. /\ InitCS \cup ResetCS \cup LoadCS \cup TickCS \cup SaveCS = CS
        /\ CS \cap Waiting = {} /\ CS \cap Outside = {}
    BY Zenon DEF CS, InitCS, ResetCS, LoadCS, TickCS, SaveCS, Outside, Waiting
  <2>1. ASSUME NEW t \in Thread, Request(t) PROVE FlockInv'
    BY <2>1, <2>0, <2>stay, Zenon DEF Request, GetTime, Stat, Waiting, Outside
  <2>2. ASSUME NEW t \in Thread, InitStep(t) PROVE FlockInv'
    <3>1. CASE InitLock(t)
      BY <2>lock, <3>1, Zenon DEF InitLock
    <3>2. CASE InitGet(t)
      BY <2>0, <2>stay, <3>2, Zenon DEF InitGet, InitCS
    <3>3. CASE PutReal(t, "init_real", "init_mon") \/ PutMon(t, "init_mon", "init_unlock")
      BY <2>0, <2>stay, <3>3, Zenon DEF PutReal, PutMon, InitCS
    <3>4. CASE InitUnlock(t)
      BY <2>0, <2>unlock, <2>up, <3>4, Zenon DEF InitUnlock, Waiting
    <3> QED
      BY <2>2, <3>1, <3>2, <3>3, <3>4, Zenon DEF InitStep
  <2>3. ASSUME NEW t \in Thread, ResetStep(t) PROVE FlockInv'
    <3>1. CASE ResetLock(t)
      BY <2>lock, <3>1, Zenon DEF ResetLock
    <3>2. CASE PutReal(t, "reset_real", "reset_mon") \/ PutMon(t, "reset_mon", "reset_unlock")
      BY <2>0, <2>stay, <3>2, Zenon DEF PutReal, PutMon, ResetCS
    <3>3. CASE ResetUnlock(t)
      BY <2>0, <2>unlock, <2>up, <3>3, Zenon DEF ResetUnlock, Outside
    <3> QED
      BY <2>3, <3>1, <3>2, <3>3, Zenon DEF ResetStep
  <2>4. ASSUME NEW t \in Thread, CallStep(t) PROVE FlockInv'
    <3>1. /\ UNCHANGED <<flock_owner, procVars>> /\ Live(t)
          /\ \E to \in Waiting \cup Outside : Goto(t, to)
      BY <2>4, Zenon DEF CallStep, Begin, Load, Mode, Release, Return, Waiting, Outside
    <3> QED
      BY <2>0, <2>stay, <3>1, Zenon
  <2>5. ASSUME NEW t \in Thread, LoadStep(t) PROVE FlockInv'
    <3>1. CASE LoadLock(t)
      BY <2>lock, <3>1, Zenon DEF LoadLock
    <3>2. CASE LoadUnlock(t)
      BY <2>0, <2>unlock, <3>2, Zenon DEF LoadUnlock, Outside
    <3>3. CASE ~LoadLock(t) /\ ~LoadUnlock(t)
      <4>1. /\ UNCHANGED <<flock_owner, procVars>> /\ Live(t)
            /\ pc[t] \in LoadCS
            /\ \E to \in LoadCS : Goto(t, to)
        BY <2>5, <3>3, Zenon DEF LoadStep, LoadIdx, LoadTake, LoadTicks, LoadOne, PutReal, PutMon,
           LoadUnset, LoadCS
      <4> QED
        BY <2>0, <2>stay, <4>1, Zenon
    <3> QED
      BY <3>1, <3>2, <3>3, Zenon
  <2>6. ASSUME NEW t \in Thread, TickStep(t) PROVE FlockInv'
    <3>1. CASE TickLock(t)
      BY <2>lock, <3>1, Zenon DEF TickLock
    <3>2. CASE TickUnlock(t)
      BY <2>0, <2>unlock, <3>2, Zenon DEF TickUnlock, Outside
    <3>3. CASE TickRead(t) \/ TickInc(t)
      BY <2>0, <2>stay, <3>3, Zenon DEF TickRead, TickInc, TickCS
    <3> QED
      BY <2>6, <3>1, <3>2, <3>3, Zenon DEF TickStep
  <2>7. ASSUME NEW t \in Thread, SaveStep(t) PROVE FlockInv'
    <3>1. CASE SaveLock(t)
      BY <2>lock, <3>1, Zenon DEF SaveLock
    <3>2. CASE SaveUnlock(t)
      BY <2>0, <2>unlock, <3>2, Zenon DEF SaveUnlock, Return, Outside
    <3>3. CASE SaveWrite(t) \/ SaveRest(t)
      BY <2>0, <2>stay, <3>3, Zenon DEF SaveWrite, SaveRest, SaveCS
    <3> QED
      BY <2>7, <3>1, <3>2, <3>3 DEF SaveStep
  <2>8. ASSUME NEW t \in Thread, StatStep(t) PROVE FlockInv'
    <3>1. CASE StatLock(t)
      BY <2>lock, <3>1, Zenon DEF StatLock
    <3>2. CASE StatClear(t) \/ StatRestore(t)
      BY <2>0, <2>stay, <3>2, Zenon DEF StatClear, StatRestore, Outside
    <3>3. CASE StatUnlock(t)
      BY <2>0, <2>unlock, <3>3, Zenon DEF StatUnlock, Outside
    <3> QED
      BY <2>8, <3>1, <3>2, <3>3, Zenon DEF StatStep
  <2>9. ASSUME NEW t \in Thread, NEW u \in Thread, Spawn(t, u) PROVE FlockInv'
    BY <2>9, <2>0 DEF Alone, TypeOK, ProcType, FlockInv, Spawn, Live, Goto, Waiting
  <2>10. ASSUME NEW p \in Proc, Die(p) PROVE FlockInv'
    BY <2>10, Zenon DEF TypeOK, ProcType, FlockInv, Live, Die
  <2>11. CASE Clock \/ UNCHANGED vars
    BY <2>11, Zenon DEF FlockInv, Live, Clock, vars
  <2>12. ~Forks
    BY Zenon DEF Alone
  <2> QED
    BY <2>1, <2>2, <2>3, <2>4, <2>5, <2>6, <2>7, <2>8, <2>9, <2>10, <2>11, <2>12
    DEF Next, LibraryStep, Exit, Fault, Fork
<1>1. ASSUME Init PROVE LockInv
  <2>1. "init_lock" \notin CS \cup StatCS /\ "off" \notin CS \cup StatCS
    BY Zenon DEF CS, InitCS, ResetCS, LoadCS, TickCS, SaveCS, StatCS
  <2>2. SemInv
    BY <1>1, <2>1 DEF Init, SemInv, Holds
  <2>3. FlockInv
    BY <1>1, <2>1, Zenon DEF Init, FlockInv
  <2> QED
    BY <2>2, <2>3, Zenon DEF LockInv
<1>2. TypeOK /\ ProcInv /\ LockInv /\ [Next]_vars => LockInv'
  BY <1>sem, <1>flock, Zenon DEF LockInv, Alone
\* Whoever is in a critical section has the lock, and only one can have it.
<1>3. ASSUME TypeOK, LockInv PROVE MutualExclusion
  <2>1. CASE Backend = "sem"
    BY <1>3, <2>1, Zenon DEF LockInv, SemInv, Holds, MutualExclusion
  <2>2. CASE Backend # "sem"
    BY <1>3, <2>2, ConfigAssumption, Zenon
    DEF ConfigAssumption, Exclusive, Alone, LockInv, FlockInv, MutualExclusion
  <2> QED
    BY <2>1, <2>2, Zenon
<1> QED
  BY <1>1, <1>2, <1>3, TypeCorrect, AnswerInvariant, PTL DEF Spec
-----------------------------------------------------------------------------
(* What threads know of the counters, and the refinement *)

\* Where the lock excludes, a thread in its critical section knows the counters, and
\* every process that is up has a start time.
LEMMA Known == ASSUME Exclusive PROVE Spec => [](CounterInv /\ StartInv)
\* Every step keeps StartInv: no answer is computed from the unset sentinel.
\* Under mutual exclusion every step of next_time() and load_time() keeps what the
\* threads know of ticks and file_idx.
<1>counter. TypeOK /\ ProcInv /\ MutualExclusion /\ CounterInv /\ [Next]_vars => CounterInv'
  <2> SUFFICES ASSUME TypeOK, ProcInv, MutualExclusion, CounterInv, [Next]_vars
               PROVE  CounterInv'
    BY Zenon
  <2> USE DEF Move, Lock, Unlock, procVars, sharedVars, configVars, threadVars, allButSem
  \* A step that changes neither the counters nor infile_set: the other threads
  \* know what they knew.
  <2>stay. ASSUME NEW t \in Thread, NEW to, Goto(t, to),
                  UNCHANGED <<ticks, file_idx, infile_set, proc>>,
                  \A u \in Thread \ {t} : reg'[u] = reg[u] /\ ans'[u] = ans[u],
                  Live(t) => Knows(t)'
           PROVE  CounterInv'
    <3>1. ASSUME NEW u \in Thread, u # t, Live(u) PROVE Knows(u)'
      BY <2>stay, <3>1, Zenon DEF TypeOK, CounterInv, Knows, Past, Goto
    <3> QED
      BY <2>stay, <3>1, Zenon DEF CounterInv, Live, Past
  \* A step inside a critical section may move a counter: no other thread knows
  \* more of the counters than that the replay is over.
  <2>alone. ASSUME NEW t \in Thread, NEW to, Goto(t, to), Live(t), pc[t] \in CS, Knows(t)',
                   Past => Past', UNCHANGED <<infile_set, proc>>
            PROVE  CounterInv'
    <3>1. ASSUME NEW u \in Thread, u # t, Live(u) PROVE Knows(u)'
      <4>1. pc[u] \notin CS
        BY <2>alone, <3>1, Zenon DEF MutualExclusion
      <4>2. pc'[u] = pc[u]
        BY <2>alone, <3>1, Zenon DEF TypeOK, Goto
      <4>3. Knows(u)
        BY <2>alone, <3>1, Zenon DEF CounterInv
      <4> QED
        BY <2>alone, <4>1, <4>2, <4>3, Zenon DEF Knows, CS, LoadCS, TickCS
    <3> QED
      BY <2>alone, <3>1, Zenon DEF CounterInv, Live
  \* A thread that is nowhere in load_time(), next_time() or the choice between
  \* them knows nothing.
  <2>nothing. ASSUME NEW t \in Thread,
                     pc'[t] \notin {"load_lock", "mode", "tick_lock"} \cup LoadCS \cup TickCS
              PROVE  Knows(t)'
    BY <2>nothing, Zenon DEF Knows, LoadCS, TickCS
  <2>1. ASSUME NEW t \in Thread, Request(t) PROVE CounterInv'
    <3>1. \E to \in {"begin", "stat_lock"} : Goto(t, to)
      BY <2>1, Zenon DEF Request, GetTime, Stat
    <3>2. Knows(t)'
      BY <2>nothing, <3>1, Zenon DEF TypeOK, Goto, LoadCS, TickCS
    <3> QED
      BY <2>1, <2>stay, <3>1, <3>2, Zenon DEF Request, GetTime, Stat
  <2>2. ASSUME NEW t \in Thread, InitStep(t) \/ ResetStep(t),
               ~(InitUnlock(t) /\ Up(t)), ~(ResetUnlock(t) /\ Up(t))
        PROVE  CounterInv'
    <3>1. /\ \E to \in InitCS \cup ResetCS \cup {"reset_lock", "load"} : Goto(t, to)
          /\ UNCHANGED <<ticks, file_idx, infile_set, proc, reg, ans>>
      BY <2>2, Zenon DEF InitStep, ResetStep, InitLock, InitGet, PutReal, PutMon, InitUnlock,
         ResetLock, ResetUnlock, InitCS, ResetCS
    <3>2. Knows(t)'
      BY <2>nothing, <3>1, Zenon DEF TypeOK, Goto, LoadCS, TickCS, InitCS, ResetCS
    <3> QED
      BY <2>stay, <3>1, <3>2, Zenon
  <2>3. ASSUME NEW t \in Thread, InitUnlock(t) \/ ResetUnlock(t), Up(t) PROVE CounterInv'
    <3>1. /\ UNCHANGED <<ticks, file_idx, infile_set, reg, ans>>
          /\ proc[ProcOf[t]] # "dead"
      BY <2>3, Zenon DEF InitUnlock, ResetUnlock, Live
    <3>2. ASSUME NEW u \in Thread, Live(u)' PROVE Knows(u)'
      <4>1. CASE ProcOf[u] = ProcOf[t]
        BY <2>3, <2>nothing, <4>1, Zenon DEF Up, LoadCS, TickCS
      <4>2. CASE ProcOf[u] # ProcOf[t]
        BY <2>3, <3>1, <3>2, <4>2, Zenon DEF TypeOK, ProcType, CounterInv, Knows, Past, Up, Live
      <4> QED
        BY <4>1, <4>2, Zenon
    <3> QED
      BY <2>3, <3>1, <3>2, Zenon DEF TypeOK, ProcType, CounterInv, Past, Up
  <2>4. ASSUME NEW t \in Thread, CallStep(t) PROVE CounterInv'
    <3>1. CASE Begin(t)
      <4>1. /\ \E to \in {"load", "reset_lock"} : Goto(t, to)
            /\ UNCHANGED <<ticks, file_idx, infile_set, proc, reg>>
            /\ \A u \in Thread \ {t} : ans'[u] = ans[u]
        BY <3>1, Zenon DEF TypeOK, ThreadType, Begin
      <4>2. Knows(t)'
        BY <2>nothing, <4>1, Zenon DEF TypeOK, Goto, LoadCS, TickCS
      <4> QED
        BY <2>stay, <4>1, <4>2, Zenon
    <3>2. CASE Load(t)
      <4>1. Knows(t)'
        <5>1. CASE infile_set[ProcOf[t]]
          BY <3>2, <5>1, Zenon DEF TypeOK, CounterInv, Load, Goto, Knows, TickCS
        <5>2. CASE ~infile_set[ProcOf[t]]
          <6>1. Past
            BY <3>2, <5>2 DEF TypeOK, SharedType, ProcType, CounterInv, Load, Live, Past
          <6> QED
            BY <3>2, <5>2, <6>1, Zenon DEF TypeOK, Load, Goto, Knows, Past, LoadCS
        <5> QED
          BY <5>1, <5>2, Zenon
      <4> QED
        BY <2>stay, <3>2, <4>1, Zenon DEF Load
    <3>3. CASE Mode(t)
      <4>1. Past /\ UNCHANGED <<ticks, file_idx, infile_set, proc, reg>>
        BY <3>3, Zenon DEF Mode, CounterInv, Knows
      <4>2. \A u \in Thread \ {t} : ans'[u] = ans[u]
        BY <3>3, Zenon DEF TypeOK, ThreadType, Mode, Serve
      <4>3. \E to \in {"tick_lock", "release"} : Goto(t, to)
        BY <3>3, Zenon DEF Mode
      <4>4. Knows(t)'
        BY <4>1, <4>3, Zenon DEF TypeOK, Goto, Knows, Past, LoadCS, TickCS
      <4> QED
        BY <2>stay, <4>1, <4>2, <4>3, <4>4, Zenon
    <3>4. CASE Release(t)
      <4>1. /\ \E to \in {"save_lock", "idle", "stat_restore", "begin"} : Goto(t, to)
            /\ UNCHANGED <<ticks, file_idx, infile_set, proc, reg, ans>>
        BY <3>4, Zenon DEF Release, Return
      <4>2. Knows(t)'
        BY <2>nothing, <4>1, Zenon DEF TypeOK, Goto, LoadCS, TickCS
      <4> QED
        BY <2>stay, <4>1, <4>2, Zenon
    <3> QED
      BY <2>4, <3>1, <3>2, <3>3, <3>4, Zenon DEF CallStep
  <2>5. ASSUME NEW t \in Thread, LoadStep(t) PROVE CounterInv'
    <3>0. Live(t) /\ Knows(t) /\ LoadLen > 0
      BY <2>5, Zenon DEF LoadStep, LoadLock, LoadIdx, LoadTake, LoadTicks, LoadOne, PutReal, PutMon,
         LoadUnset, LoadUnlock, CounterInv, Knows, LoadCS
    <3>1. CASE LoadLock(t)
      <4>1. Knows(t)'
        BY <3>0, <3>1, Zenon DEF TypeOK, LoadLock, Goto, Knows, TickCS
      <4> QED
        BY <2>stay, <3>1, <4>1, Zenon DEF LoadLock
    <3>2. CASE LoadIdx(t)
      <4>1. Knows(t)'
        BY <3>0, <3>2, Zenon DEF TypeOK, ThreadType, LoadIdx, Goto, Knows, TickCS
      <4>2. \A u \in Thread \ {t} : reg'[u] = reg[u]
        BY <3>2, Zenon DEF TypeOK, ThreadType, LoadIdx
      <4> QED
        BY <2>stay, <3>2, <4>1, <4>2, Zenon DEF LoadIdx
    <3>3. CASE LoadTake(t)
      <4>1. file_idx' = file_idx + 1 /\ UNCHANGED <<ticks, infile_set, proc>>
        BY <3>0, <3>3, Zenon DEF LoadTake, Knows
      <4>2. Knows(t)'
        BY <3>0, <3>3 DEF TypeOK, ThreadType, HistoryType, LoadTake, Serve, Goto, Knows, TickCS
      <4>3. Past => Past'
        BY <4>1 DEF TypeOK, SharedType, Past
      <4> QED
        BY <2>alone, <3>3, <4>1, <4>2, <4>3, Zenon DEF LoadTake, CS, LoadCS
    <3>4. CASE LoadTicks(t)
      <4>1. /\ pc'[t] \in {"load_one", "load_unset"}
            /\ pc'[t] = "load_one" => ticks = 0
            /\ pc'[t] = "load_unset" => ticks > 0
            /\ file_idx >= LoadLen /\ UNCHANGED <<ticks, file_idx>>
        BY <3>0, <3>4 DEF TypeOK, SharedType, LoadTicks, Goto, Knows
      <4>2. Knows(t)'
        BY <3>0, <4>1, Zenon DEF Knows, Past, TickCS
      <4> QED
        BY <2>stay, <3>4, <4>2, Zenon DEF LoadTicks
    <3>5. CASE LoadOne(t)
      <4>1. ticks' = 1 /\ file_idx >= LoadLen /\ UNCHANGED <<file_idx, infile_set, proc>>
        BY <3>0, <3>5, Zenon DEF LoadOne, Knows
      <4>2. Past' /\ pc'[t] = "load_real"
        BY <3>5, <4>1 DEF TypeOK, LoadOne, Goto, Past
      <4>3. Knows(t)'
        BY <3>0, <4>2, Zenon DEF Knows
      <4> QED
        BY <2>alone, <3>5, <4>1, <4>2, <4>3, Zenon DEF LoadOne, CS, LoadCS
    <3>6. CASE PutReal(t, "load_real", "load_mon") \/ PutMon(t, "load_mon", "load_unset")
      <4>1. Knows(t)'
        BY <3>0, <3>6, Zenon DEF TypeOK, PutReal, PutMon, Goto, Knows, Past, TickCS
      <4> QED
        BY <2>stay, <3>6, <4>1, Zenon DEF PutReal, PutMon
    <3>7. CASE LoadUnset(t)
      <4>1. Past /\ UNCHANGED <<ticks, file_idx, proc, reg, ans>>
        BY <3>0, <3>7, Zenon DEF LoadUnset, Knows
      <4>2. ASSUME NEW u \in Thread, Live(u) PROVE Knows(u)'
        BY <3>0, <3>7, <4>1, <4>2, Zenon DEF TypeOK, CounterInv, LoadUnset, Goto, Knows, Past, TickCS
      <4>3. \A p \in Proc : infile_set'[p] => infile_set[p]
        BY <3>7, Zenon DEF TypeOK, ConfigType, LoadUnset
      <4> QED
        BY <4>1, <4>2, <4>3, Zenon DEF CounterInv, Live, Past
    <3>8. CASE LoadUnlock(t)
      <4>1. Knows(t)'
        BY <3>0, <3>8, Zenon DEF TypeOK, ThreadType, LoadUnlock, Goto, Knows, Past, TickCS, LoadCS
      <4> QED
        BY <2>stay, <3>8, <4>1, Zenon DEF LoadUnlock
    <3> QED
      BY <2>5, <3>1, <3>2, <3>3, <3>4, <3>5, <3>6, <3>7, <3>8, Zenon DEF LoadStep
  <2>6. ASSUME NEW t \in Thread, TickStep(t) PROVE CounterInv'
    <3>0. Live(t) /\ Knows(t) /\ Past
      BY <2>6, Zenon DEF TickStep, TickLock, TickRead, TickInc, TickUnlock, CounterInv, Knows, TickCS
    <3>1. CASE TickLock(t)
      <4>1. Knows(t)'
        BY <3>0, <3>1, Zenon DEF TypeOK, TickLock, Goto, Knows, Past, LoadCS
      <4> QED
        BY <2>stay, <3>1, <4>1, Zenon DEF TickLock
    <3>2. CASE TickRead(t)
      <4>1. Knows(t)'
        BY <3>0, <3>2, Zenon DEF TypeOK, ThreadType, TickRead, Goto, Knows, Past, LoadCS
      <4>2. \A u \in Thread \ {t} : reg'[u] = reg[u]
        BY <3>2, Zenon DEF TypeOK, ThreadType, TickRead
      <4> QED
        BY <2>stay, <3>2, <4>1, <4>2, Zenon DEF TickRead
    <3>3. CASE TickInc(t)
      <4>1. ticks' = ticks + 1 /\ UNCHANGED <<file_idx, infile_set, proc>>
        BY <3>0, <3>3, Zenon DEF TickInc, Knows
      <4>2. Past' /\ pc'[t] = "tick_unlock"
        BY <3>0, <3>3, <4>1 DEF TypeOK, SharedType, TickInc, Goto, Past
      <4>3. Knows(t)'
        BY <4>2, Zenon DEF Knows, LoadCS
      <4> QED
        BY <2>alone, <3>3, <4>1, <4>2, <4>3, Zenon DEF TickInc, CS, TickCS
    <3>4. CASE TickUnlock(t)
      <4>1. Knows(t)'
        BY <2>nothing, <3>4, Zenon DEF TypeOK, TickUnlock, Goto, LoadCS, TickCS
      <4> QED
        BY <2>stay, <3>4, <4>1, Zenon DEF TickUnlock
    <3> QED
      BY <2>6, <3>1, <3>2, <3>3, <3>4 DEF TickStep
  <2>7. ASSUME NEW t \in Thread, SaveStep(t) \/ StatStep(t) PROVE CounterInv'
    <3>1. /\ \E to \in SaveCS \cup StatCS \cup {"idle", "begin"} : Goto(t, to)
          /\ UNCHANGED <<ticks, file_idx, infile_set, proc, reg, ans>>
      BY <2>7, Zenon DEF SaveStep, SaveLock, SaveWrite, SaveRest, SaveUnlock, Return,
         StatStep, StatLock, StatClear, StatRestore, StatUnlock, SaveCS, StatCS
    <3>2. Knows(t)'
      BY <2>nothing, <3>1, Zenon DEF TypeOK, Goto, LoadCS, TickCS, SaveCS, StatCS
    <3> QED
      BY <2>stay, <3>1, <3>2, Zenon
  <2>8. ASSUME NEW t \in Thread, NEW u \in Thread, Spawn(t, u) \/ Fork(t, u)
        PROVE  CounterInv'
    <3>1. /\ UNCHANGED <<ticks, file_idx, reg, ans>>
          /\ proc[ProcOf[u]] = "off" /\ proc[ProcOf[t]] = "up"
          /\ \E s \in {"init", "up"} : proc' = [proc EXCEPT ![ProcOf[u]] = s]
          /\ \E to \in {"init_lock", "idle"} : Goto(u, to)
          /\ \A p \in Proc : infile_set'[p] = infile_set[p] \/ infile_set'[p] = infile_set[ProcOf[t]]
      BY <2>8, Zenon DEF TypeOK, ConfigType, Spawn, Fork
    <3>2. ASSUME NEW v \in Thread, Live(v)' PROVE Knows(v)'
      <4>1. CASE ProcOf[v] = ProcOf[u]
        <5>1. pc'[v] \in {"off", "init_lock", "idle"}
          BY <3>1, <4>1, Zenon DEF TypeOK, ProcInv, Goto
        <5> QED
          BY <2>nothing, <5>1, Zenon DEF LoadCS, TickCS
      <4>2. CASE ProcOf[v] # ProcOf[u]
        BY <3>1, <3>2, <4>2 DEF TypeOK, ProcType, CounterInv, Knows, Past, Goto, Live
      <4> QED
        BY <4>1, <4>2, Zenon
    <3> QED
      BY <3>1, <3>2, Zenon DEF TypeOK, ProcType, ConfigType, CounterInv, Past
  <2>9. ASSUME NEW p \in Proc, Die(p) PROVE CounterInv'
    <3>1. ASSUME NEW v \in Thread, Live(v)' PROVE Knows(v)'
      BY <2>9, <3>1, Zenon DEF TypeOK, ProcType, CounterInv, Knows, Past, Die, Forget, Live
    <3> QED
      BY <2>9, <3>1, Zenon DEF TypeOK, ProcType, ConfigType, CounterInv, Past, Die
  <2>10. CASE Clock \/ UNCHANGED vars
    BY <2>10 DEF CounterInv, Knows, Past, Live, Clock, vars
  <2>11. ASSUME NEW t \in Thread, InitStep(t) \/ ResetStep(t) PROVE CounterInv'
    BY <2>2, <2>3, <2>11, Zenon
  <2> QED
    BY <2>1, <2>4, <2>5, <2>6, <2>7, <2>8, <2>9, <2>10, <2>11, Zenon
    DEF Next, LibraryStep, Exit, Fault
<1>start. TypeOK /\ ProcInv /\ StartInv /\ [Next]_vars => StartInv'
  <2> SUFFICES ASSUME TypeOK, ProcInv, StartInv, [Next]_vars PROVE StartInv'
    BY Zenon
  <2> USE DEF Move, Lock, Unlock, procVars, sharedVars, configVars, allButSem
  \* A step that changes no start time keeps StartInv.
  <2>stay. ASSUME NEW t \in Thread, NEW to, Goto(t, to), Live(t),
                  UNCHANGED <<start_time, ftpl_starttime, proc>>,
                  to \in HasStart => /\ ftpl_starttime[ProcOf[t]].real # Unset
                                     /\ to # "init_real" => Started
           PROVE  StartInv'
    BY <2>stay, Zenon DEF TypeOK, StartInv, Started, Goto, Live
  \* A step that gives the process of t a new start time.
  <2>take. ASSUME NEW t \in Thread, NEW to, Goto(t, to), Live(t),
                  UNCHANGED <<start_time, proc>>, NEW st \in Time, st.real # Unset,
                  ftpl_starttime' = [ftpl_starttime EXCEPT ![ProcOf[t]] = st],
                  to \in HasStart /\ to # "init_real" => Started
           PROVE  StartInv'
    BY <2>take, Zenon DEF TypeOK, ConfigType, StartInv, Started, Goto, Live
  \* A step of system_time_to_shared().
  <2>put. ASSUME NEW t \in Thread, NEW from, NEW to,
                 PutReal(t, from, to) \/ (PutMon(t, from, to) /\ Started),
                 ftpl_starttime[ProcOf[t]].real # Unset
          PROVE  StartInv'
    <3>1. Started'
      BY <2>put, Zenon DEF TypeOK, SharedType, Time, Started, PutReal, PutMon
    <3>2. Goto(t, to) /\ Live(t) /\ UNCHANGED <<ftpl_starttime, proc>>
      BY <2>put, Zenon DEF PutReal, PutMon, Move, configVars, procVars
    <3> QED
      BY <2>put, <3>1, <3>2, Zenon DEF TypeOK, StartInv, Goto, Live
  \* The end of the initialisation keeps StartInv.
  <2>up. ASSUME NEW t \in Thread, Up(t), UNCHANGED <<start_time, ftpl_starttime>>, Started,
                ftpl_starttime[ProcOf[t]].real # Unset
         PROVE  StartInv'
    <3>1. "idle" \notin HasStart
      BY <2>up, Zenon DEF HasStart, ResetCS
    <3> QED
      BY <2>up, <3>1, Zenon DEF TypeOK, ProcType, StartInv, Started, Up, Live
  <2>0. Now \in Time /\ Now.real # Unset
    BY DEF TypeOK, KernelType, Now, Time, Instant, Unset
  <2>1. ASSUME NEW t \in Thread, Request(t) PROVE StartInv'
    BY <2>1, <2>stay, Zenon DEF Request, GetTime, Stat, HasStart, ResetCS
  <2>2. ASSUME NEW t \in Thread, InitStep(t) PROVE StartInv'
    <3>1. CASE InitLock(t)
      BY <2>stay, <3>1, Zenon DEF InitLock, HasStart, ResetCS
    <3>2. CASE InitGet(t)
      <4>1. CASE start_time.real = Unset
        BY <2>0, <2>take, <3>2, <4>1, Zenon DEF InitGet
      <4>2. CASE start_time.real # Unset
        BY <2>take, <3>2, <4>2, Zenon DEF TypeOK, SharedType, InitGet, Started
      <4> QED
        BY <4>1, <4>2, Zenon
    <3>3. CASE PutReal(t, "init_real", "init_mon") \/ PutMon(t, "init_mon", "init_unlock")
      <4>1. /\ ftpl_starttime[ProcOf[t]].real # Unset
            /\ PutMon(t, "init_mon", "init_unlock") => Started
        BY <3>3, Zenon DEF PutReal, PutMon, StartInv, HasStart
      <4> QED
        BY <2>put, <3>3, <4>1, Zenon
    <3>4. CASE InitUnlock(t)
      <4>1. ftpl_starttime[ProcOf[t]].real # Unset /\ Started
        BY <3>4, Zenon DEF InitUnlock, StartInv, HasStart
      <4> QED
        BY <2>0, <2>up, <2>take, <3>4, <4>1, Zenon DEF InitUnlock
    <3> QED
      BY <2>2, <3>1, <3>2, <3>3, <3>4, Zenon DEF InitStep
  <2>3. ASSUME NEW t \in Thread, ResetStep(t) PROVE StartInv'
    <3>0. ftpl_starttime[ProcOf[t]].real # Unset /\ Started
      BY <2>3, Zenon DEF ResetStep, ResetLock, ResetUnlock, PutReal, PutMon, StartInv, HasStart, ResetCS
    <3>1. CASE ResetLock(t)
      BY <2>stay, <3>0, <3>1, Zenon DEF ResetLock
    <3>2. CASE PutReal(t, "reset_real", "reset_mon") \/ PutMon(t, "reset_mon", "reset_unlock")
      BY <2>put, <3>0, <3>2, Zenon
    <3>3. CASE ResetUnlock(t)
      BY <2>up, <2>stay, <3>0, <3>3, Zenon DEF ResetUnlock
    <3> QED
      BY <2>3, <3>1, <3>2, <3>3, Zenon DEF ResetStep
  <2>4. ASSUME NEW t \in Thread, pc[t] \notin InitPhase, Live(t)
        PROVE  Started /\ ftpl_starttime[ProcOf[t]].real # Unset
    BY <2>4, Zenon DEF ProcInv, StartInv, Live
  <2>5. ASSUME NEW t \in Thread, CallStep(t) PROVE StartInv'
    <3>1. CASE Begin(t)
      <4>1. Started
        BY <2>4, <3>1, Zenon DEF Begin, InitPhase, InitCS, ResetCS
      <4>2. CASE Goto(t, "load") /\ UNCHANGED ftpl_starttime
        BY <2>stay, <3>1, <4>1, <4>2, Zenon DEF Begin, HasStart, ResetCS
      <4>3. CASE Goto(t, "reset_lock") /\ ftpl_starttime' = [ftpl_starttime EXCEPT ![ProcOf[t]] = Now]
        <5>1. Live(t) /\ UNCHANGED <<start_time, proc>>
          BY <3>1, Zenon DEF Begin
        <5> QED
          BY <2>0, <2>take, <4>1, <4>3, <5>1, Zenon
      <4> QED
        BY <3>1, <4>2, <4>3, Zenon DEF Begin
    <3>2. CASE Load(t) \/ Mode(t) \/ Release(t)
      <4>1. /\ \E to \in {"load_lock", "mode", "tick_lock", "release", "save_lock", "idle",
                         "stat_restore", "begin"} : Goto(t, to)
            /\ Live(t) /\ UNCHANGED <<start_time, ftpl_starttime, proc>>
        BY <3>2, Zenon DEF Load, Mode, Release, Return
      <4> QED
        BY <2>stay, <4>1, Zenon DEF HasStart, ResetCS
    <3> QED
      BY <2>5, <3>1, <3>2, Zenon DEF CallStep
  <2>6. ASSUME NEW t \in Thread, LoadStep(t) PROVE StartInv'
    <3>0. Live(t) /\ Started /\ ftpl_starttime[ProcOf[t]].real # Unset
      BY <2>4, <2>6, Zenon DEF LoadStep, LoadLock, LoadIdx, LoadTake, LoadTicks, LoadOne, PutReal,
         PutMon, LoadUnset, LoadUnlock, InitPhase, InitCS, ResetCS
    <3>1. CASE LoadTicks(t) \/ LoadOne(t)
      <4>1. CASE UNCHANGED ftpl_starttime
        BY <2>stay, <3>0, <3>1, <4>1, Zenon DEF LoadTicks, LoadOne
      <4>2. CASE \E st \in {Now, start_time} :
                   ftpl_starttime' = [ftpl_starttime EXCEPT ![ProcOf[t]] = st]
        <5>1. start_time \in Time /\ start_time.real # Unset
          BY <3>0, Zenon DEF TypeOK, SharedType, Started
        <5>2. PICK to : Goto(t, to)
          BY <3>1, Zenon DEF LoadTicks, LoadOne
        <5>3. UNCHANGED <<start_time, proc>>
          BY <3>1, Zenon DEF LoadTicks, LoadOne
        <5>4. PICK st \in {Now, start_time} :
                ftpl_starttime' = [ftpl_starttime EXCEPT ![ProcOf[t]] = st]
          BY <4>2, Zenon
        <5>5. st \in Time /\ st.real # Unset
          BY <2>0, <5>1, Zenon
        <5> QED
          BY <2>take, <3>0, <5>2, <5>3, <5>4, <5>5, Zenon
      <4> QED
        BY <3>1, <4>1, <4>2, Zenon DEF LoadTicks, LoadOne
    <3>2. CASE PutReal(t, "load_real", "load_mon") \/ PutMon(t, "load_mon", "load_unset")
      BY <2>put, <3>0, <3>2, Zenon
    <3>3. CASE LoadLock(t) \/ LoadIdx(t) \/ LoadTake(t) \/ LoadUnset(t) \/ LoadUnlock(t)
      <4>1. (\E to : Goto(t, to)) /\ UNCHANGED <<start_time, ftpl_starttime, proc>>
        BY <3>3, Zenon DEF LoadLock, LoadIdx, LoadTake, LoadUnset, LoadUnlock
      <4> QED
        BY <2>stay, <3>0, <4>1, Zenon
    <3> QED
      BY <2>6, <3>1, <3>2, <3>3, Zenon DEF LoadStep
  <2>7. ASSUME NEW t \in Thread, TickStep(t) \/ SaveStep(t) \/ StatStep(t) PROVE StartInv'
    <3>1. /\ \E to \in TickCS \cup SaveCS \cup StatCS \cup {"release", "idle", "begin"} : Goto(t, to)
          /\ Live(t) /\ UNCHANGED <<start_time, ftpl_starttime, proc>>
      BY <2>7, Zenon DEF TickStep, TickLock, TickRead, TickInc, TickUnlock, SaveStep, SaveLock,
         SaveWrite, SaveRest, SaveUnlock, Return, StatStep, StatLock, StatClear, StatRestore,
         StatUnlock, TickCS, SaveCS, StatCS
    <3> QED
      BY <2>stay, <3>1, Zenon DEF HasStart, ResetCS, TickCS, SaveCS, StatCS
  <2>8. ASSUME NEW t \in Thread, NEW u \in Thread, Spawn(t, u) PROVE StartInv'
    BY <2>8 DEF TypeOK, ProcType, ProcInv, StartInv, Started, Spawn, Goto, Live, HasStart, ResetCS
  <2>9. ASSUME NEW t \in Thread, NEW u \in Thread, Fork(t, u) PROVE StartInv'
    <3>1. \A p \in Proc : ftpl_starttime'[p] = IF p = ProcOf[u] THEN ftpl_starttime[ProcOf[t]]
                                               ELSE ftpl_starttime[p]
      BY <2>9, Zenon DEF TypeOK, ConfigType, Fork
    <3>2. /\ proc[ProcOf[t]] = "up" /\ proc[ProcOf[u]] = "off" /\ Goto(u, "idle")
          /\ proc' = [proc EXCEPT ![ProcOf[u]] = "up"] /\ UNCHANGED start_time
      BY <2>9, Zenon DEF Fork
    <3>3. Started' /\ Started
      BY <3>2, Zenon DEF StartInv, Started
    <3>4. ASSUME NEW v \in Thread, Live(v)', pc'[v] \in HasStart
          PROVE  ftpl_starttime'[ProcOf[v]].real # Unset
      <4>1. v # u /\ pc'[v] = pc[v]
        BY <3>2, <3>4, Zenon DEF TypeOK, Goto, HasStart, ResetCS
      <4>2. ProcOf[v] # ProcOf[u]
        BY <3>2, <3>4, <4>1, Zenon DEF ProcInv, HasStart, ResetCS
      <4>3. Live(v)
        BY <3>2, <3>4, <4>2, Zenon DEF TypeOK, ProcType, Live
      <4> QED
        BY <3>1, <3>4, <4>1, <4>2, <4>3, Zenon DEF StartInv
    <3>5. ASSUME NEW p \in Proc, proc'[p] = "up" PROVE ftpl_starttime'[p].real # Unset
      BY <3>1, <3>2, <3>5, Zenon DEF TypeOK, ProcType, StartInv
    <3> QED
      BY <3>3, <3>4, <3>5, Zenon DEF StartInv
  <2>10. ASSUME NEW p \in Proc, Die(p) PROVE StartInv'
    BY <2>10, Zenon DEF TypeOK, ProcType, ConfigType, StartInv, Started, Die, Live
  <2>11. CASE Clock \/ UNCHANGED vars
    BY <2>11, Zenon DEF StartInv, Started, Live, Clock, vars
  <2> QED
    BY <2>1, <2>2, <2>3, <2>5, <2>6, <2>7, <2>8, <2>9, <2>10, <2>11, Zenon
    DEF Next, LibraryStep, Exit, Fault
<1>1. ASSUME Init PROVE CounterInv /\ StartInv
  <2>1. /\ \A t \in Thread : pc[t] \in {"off", "init_lock"}
        /\ \A p \in Proc : proc[p] \in {"off", "init"}
    BY <1>1, Zenon DEF Init
  <2>2. \A t \in Thread : Knows(t)
    BY <2>1, Zenon DEF Knows, LoadCS, TickCS
  <2>3. CounterInv
    BY <1>1, <2>2, Zenon DEF Init, CounterInv
  <2>4. StartInv
    BY <1>1, <2>1, Zenon DEF Init, StartInv, HasStart, ResetCS
  <2> QED
    BY <2>3, <2>4, Zenon
<1> QED
  BY <1>1, <1>counter, <1>start, TypeCorrect, AnswerInvariant, Exclusion, PTL DEF Spec

\* Where the lock excludes, next_time() and load_time() implement one global clock for
\* the whole session: no record and no tick is handed out twice, skipped or out of order.
THEOREM OneClock == ASSUME Exclusive PROVE Spec => OneGlobalClock
\* Every step of the library is a step of the global clock, or leaves it alone.
<1>step. ASSUME TypeOK, ProcInv, CounterInv, StartInv, [Next]_vars
         PROVE  [G!GNext]_(G!gvars)
  <2> USE DEF Move, Lock, Unlock, sharedVars, historyVars, allButSem, G!gvars
  <2>1. ASSUME NEW t \in Thread, LoadTake(t) PROVE G!GNext
    <3>1. reg[t] = file_idx /\ file_idx < LoadLen
      BY <1>step, <2>1, Zenon DEF LoadTake, CounterInv, Knows
    <3> QED
      BY <2>1, <3>1, Zenon DEF LoadTake, Serve, G!GNext, G!Replay
  <2>2. ASSUME NEW t \in Thread, LoadOne(t) PROVE G!GNext
    <3>1. ticks = 0 /\ file_idx >= LoadLen /\ LoadLen > 0
      BY <1>step, <2>2, Zenon DEF LoadOne, CounterInv, Knows, LoadCS
    <3> QED
      BY <2>2, <3>1, Zenon DEF LoadOne, G!GNext, G!EndReplay
  <2>3. ASSUME NEW t \in Thread, TickInc(t) PROVE G!GNext
    <3>1. reg[t] = ticks /\ Past
      BY <1>step, <2>3, Zenon DEF TickInc, CounterInv, Knows, TickCS
    <3> QED
      BY <2>3, <3>1, Zenon DEF TickInc, Serve, G!GNext, G!Tick, Past
  <2>4. ASSUME NEW t \in Thread, Mode(t) PROVE [G!GNext]_(G!gvars)
    <3>1. CASE UNCHANGED served
      BY <2>4, <3>1, Zenon DEF Mode
    <3>2. CASE Serve(t, G!RuleAnswer(ftpl_starttime[ProcOf[t]].real))
      <4>1. file_idx >= LoadLen
        BY <1>step, <2>4, Zenon DEF Mode, CounterInv, Knows, Past
      <4>2. ftpl_starttime[ProcOf[t]].real \in Instant
        BY <1>step, <2>4 DEF TypeOK, ConfigType, Time, Mode, StartInv, ProcInv, Live, InitPhase, InitCS,
           ResetCS
      <4> QED
        BY <2>4, <3>2, <4>1, <4>2, Zenon DEF Mode, Serve, G!GNext, G!Rule
    <3> QED
      BY <2>4, <3>1, <3>2, Zenon DEF Mode
  <2>5. ASSUME NEW t \in Thread, InitStep(t) \/ ResetStep(t) \/ SaveStep(t) \/ StatStep(t) \/ Request(t)
        PROVE  UNCHANGED G!gvars
    BY <2>5, Zenon DEF InitStep, InitLock, InitGet, PutReal, PutMon, InitUnlock, ResetStep, ResetLock,
       ResetUnlock, SaveStep, SaveLock, SaveWrite, SaveRest, SaveUnlock, StatStep, StatLock,
       StatClear, StatRestore, StatUnlock, Request, GetTime, Stat
  <2>6. ASSUME NEW t \in Thread, CallStep(t) \/ LoadStep(t) \/ TickStep(t)
        PROVE  [G!GNext]_(G!gvars)
    <3>1. CASE UNCHANGED G!gvars
      BY <3>1, Zenon
    <3>2. CASE LoadTake(t) \/ LoadOne(t) \/ TickInc(t) \/ Mode(t)
      BY <2>1, <2>2, <2>3, <2>4, <3>2, Zenon
    <3> QED
      BY <2>6, <3>1, <3>2, Zenon DEF CallStep, Begin, Load, Release, LoadStep, LoadLock, LoadIdx,
         LoadTicks, PutReal, PutMon, LoadUnset, LoadUnlock, TickStep, TickLock, TickRead,
         TickUnlock
  <2>7. ASSUME NEW t \in Thread, NEW u \in Thread, Spawn(t, u) \/ Fork(t, u)
        PROVE  UNCHANGED G!gvars
    BY <2>7, Zenon DEF Spawn, Fork
  <2>8. ASSUME NEW p \in Proc, Die(p) PROVE UNCHANGED G!gvars
    BY <2>8, Zenon DEF Die
  <2>9. CASE Clock \/ UNCHANGED vars
    BY <2>9, Zenon DEF Clock, vars
  <2> QED
    BY <1>step, <2>5, <2>6, <2>7, <2>8, <2>9, Zenon DEF Next, LibraryStep, Exit, Fault
<1>1. Init => G!GInit
  BY Zenon DEF Init, G!GInit
<1> QED
  BY <1>1, <1>step, Known, TypeCorrect, AnswerInvariant, PTL DEF Spec, OneGlobalClock, G!GSpec
-----------------------------------------------------------------------------
(* One start time *)

\* Where the lock excludes and nothing resets it, all processes that are up count from
\* the start time in shared memory, on every clock: those that made it in
\* ftpl_really_init(), those that took it over, and those that ended the replay in
\* load_time() or joined the clock another had started.
THEOREM OneStart == ASSUME Exclusive PROVE Spec => []StartAgreement
<1> DEFINE Changing == {"init_real", "init_mon", "init_unlock", "load_real", "load_mon",
                        "load_unset"}
           Resetting == {"reset_lock"} \cup ResetCS
<1>1. ASSUME Init PROVE AgreeInv
  <2>1. /\ \A t \in Thread : pc[t] \in {"off", "init_lock"}
        /\ \A p \in Proc : proc[p] \in {"off", "init"}
    BY <1>1, Zenon DEF Init
  <2> QED
    BY <2>1, Zenon DEF AgreeInv, CountsFrom, KnowsStart, ResetCS
<1>2. TypeOK /\ ProcInv /\ MutualExclusion /\ CounterInv /\ StartInv /\ AgreeInv /\ [Next]_vars => AgreeInv'
<2> SUFFICES ASSUME TypeOK, ProcInv, MutualExclusion, CounterInv, StartInv, AgreeInv, [Next]_vars,
                    Resets = "never"
             PROVE  AgreeInv'
  BY Zenon DEF AgreeInv
<2> USE DEF Move, Lock, Unlock, procVars, sharedVars, configVars, allButSem
<2>t. /\ pc \in [Thread -> Step] /\ proc \in [Proc -> {"off", "init", "up", "dead"}]
      /\ ftpl_starttime \in [Proc -> Time] /\ infile_set \in [Proc -> BOOLEAN]
      /\ start_time \in Time /\ ticks \in Nat
  BY Zenon DEF TypeOK, ProcType, ConfigType, SharedType
<2>a. /\ \A t \in Thread : pc[t] \notin Resetting
      /\ ~DiedInStart => /\ \A p \in Proc : CountsFrom(p)
                         /\ \A t \in Thread : Live(t) => KnowsStart(t)
  BY Zenon DEF AgreeInv
\* While one thread is in a critical section, no other changes the start time.
<2>x. ASSUME NEW t \in Thread, NEW u \in Thread, u # t, Live(t), Live(u), pc[t] \in CS
      PROVE  pc[u] \notin Changing
  BY <2>x, Zenon DEF MutualExclusion, CS, InitCS, LoadCS
\* Who died changing it stays dead.
<2>d. ASSUME NEW t \in Thread, NEW to, Goto(t, to), Live(t), UNCHANGED proc, DiedInStart
      PROVE  DiedInStart'
  BY <2>d, <2>t, Zenon DEF DiedInStart, Goto, Live
\* A step that has nothing to do with the start time.
<2>stay. ASSUME NEW t \in Thread, NEW to, Goto(t, to), Live(t),
                UNCHANGED <<proc, start_time, ftpl_starttime, infile_set>>,
                ticks' = ticks \/ ticks' > 0, to \notin Resetting \cup Changing
         PROVE  AgreeInv'
  <3>1. \A u \in Thread : pc'[u] = IF u = t THEN to ELSE pc[u]
    BY <2>t, <2>stay, Zenon DEF Goto
  <3>2. ASSUME NEW p \in Proc, CountsFrom(p) PROVE CountsFrom(p)'
    BY <2>stay, <3>2, Zenon DEF CountsFrom, Behind
  <3>3. ASSUME NEW u \in Thread, Live(u) => KnowsStart(u) PROVE Live(u)' => KnowsStart(u)'
    BY <2>stay, <3>1, <3>3, Zenon DEF KnowsStart, Live
  <3> QED
    BY <2>a, <2>d, <2>stay, <3>1, <3>2, <3>3, Zenon DEF AgreeInv
\* A step of a critical section that has.
<2>one. ASSUME NEW t \in Thread, NEW to, Goto(t, to), Live(t), pc[t] \in CS, UNCHANGED proc,
               to \notin Resetting,
               ~DiedInStart => (\A p \in Proc : CountsFrom(p)') /\ KnowsStart(t)'
        PROVE  AgreeInv'
  <3>1. \A u \in Thread : pc'[u] = IF u = t THEN to ELSE pc[u]
    BY <2>t, <2>one, Zenon DEF Goto
  <3>2. ASSUME NEW u \in Thread, u # t, Live(u)' PROVE KnowsStart(u)'
    BY <2>one, <2>x, <3>1, <3>2, Zenon DEF KnowsStart, Live
  <3> QED
    BY <2>a, <2>d, <2>one, <3>1, <3>2, Zenon DEF AgreeInv
<2> HIDE DEF Changing, Resetting
<2>1. ASSUME NEW t \in Thread, Request(t) PROVE AgreeInv'
  BY <2>1, <2>stay, Zenon DEF Request, GetTime, Stat, Resetting, ResetCS, Changing
<2>2. ASSUME NEW t \in Thread, InitLock(t) PROVE AgreeInv'
  BY <2>2, <2>stay, Zenon DEF InitLock, Resetting, ResetCS, Changing
<2>3. ASSUME NEW t \in Thread, InitGet(t) PROVE AgreeInv'
  <3>0. proc[ProcOf[t]] = "init" /\ Live(t) /\ pc[t] \in CS
    BY <2>3, Zenon DEF InitGet, Live, ProcInv, CS, InitCS
  <3>1. ASSUME NEW p \in Proc, CountsFrom(p) PROVE CountsFrom(p)'
    BY <2>t, <2>3, <3>0, <3>1, Zenon DEF InitGet, CountsFrom, Behind
  <3>2. CASE start_time.real = Unset
    <4>1. KnowsStart(t)'
      BY <2>t, <2>3, <3>2, Zenon DEF InitGet, KnowsStart, Goto, StartInv, Started
    <4> QED
      BY <2>a, <2>one, <2>3, <3>0, <3>1, <3>2, <4>1, Zenon DEF InitGet, Resetting, ResetCS
  <3>3. CASE start_time.real # Unset
    <4>1. KnowsStart(t)'
      BY <2>t, <2>3, <3>3, Zenon DEF InitGet, KnowsStart, Goto
    <4> QED
      BY <2>a, <2>one, <2>3, <3>0, <3>1, <3>3, <4>1, Zenon DEF InitGet, Resetting, ResetCS
  <3> QED
    BY <3>2, <3>3, Zenon
\* system_time_to_shared(): nobody counts from the time that is being written.
<2>4. ASSUME NEW t \in Thread, NEW from, NEW to, PutReal(t, from, to),
             <<from, to>> \in {<<"init_real", "init_mon">>, <<"load_real", "load_mon">>}
      PROVE  AgreeInv'
  <3>1. /\ Live(t) /\ pc[t] = from /\ Goto(t, to) /\ from \in CS /\ to \notin Resetting
        /\ UNCHANGED <<proc, ftpl_starttime, infile_set, ticks>>
    BY <2>4, Zenon DEF PutReal, CS, InitCS, LoadCS, Resetting, ResetCS
  <3>2. start_time'.real = ftpl_starttime[ProcOf[t]].real
    BY <2>t, <2>4, Zenon DEF PutReal, Time
  <3>3. ASSUME KnowsStart(t), NEW p \in Proc PROVE CountsFrom(p)'
    <4>1. CASE from = "init_real"
      BY <3>1, <3>3, <4>1, Zenon DEF KnowsStart, CountsFrom
    <4>2. CASE from = "load_real"
      BY <3>1, <3>3, <4>2, Zenon DEF KnowsStart, CountsFrom, Behind, CounterInv, Knows, Past, LoadCS
    <4> QED
      BY <2>4, <4>1, <4>2, Zenon
  <3>4. ASSUME KnowsStart(t) PROVE KnowsStart(t)'
    BY <2>t, <2>4, <3>1, <3>2, <3>4, Zenon DEF KnowsStart, Goto
  <3> QED
    BY <2>a, <2>one, <3>1, <3>3, <3>4, Zenon
<2>5. ASSUME NEW t \in Thread, NEW from, NEW to, PutMon(t, from, to),
             <<from, to>> \in {<<"init_mon", "init_unlock">>, <<"load_mon", "load_unset">>}
      PROVE  AgreeInv'
  <3>1. /\ Live(t) /\ pc[t] = from /\ Goto(t, to) /\ from \in CS /\ to \notin Resetting
        /\ UNCHANGED <<proc, ftpl_starttime, infile_set, ticks>>
    BY <2>5, Zenon DEF PutMon, CS, InitCS, LoadCS, Resetting, ResetCS
  <3>2. ASSUME KnowsStart(t) PROVE start_time' = ftpl_starttime[ProcOf[t]]
    <4>1. start_time.real = ftpl_starttime[ProcOf[t]].real
      BY <2>5, <3>1, <3>2, Zenon DEF KnowsStart
    <4>2. start_time' = [start_time EXCEPT !.mon = ftpl_starttime[ProcOf[t]].mon]
      BY <2>5, Zenon DEF PutMon
    <4>3. start_time \in Time /\ ftpl_starttime[ProcOf[t]] \in Time
      BY <2>t, Zenon
    <4> QED
      BY <4>1, <4>2, <4>3 DEF Time
  <3>3. ASSUME KnowsStart(t), NEW p \in Proc PROVE CountsFrom(p)'
    <4>1. CASE from = "init_mon"
      BY <3>1, <3>3, <4>1, Zenon DEF KnowsStart, CountsFrom
    <4>2. CASE from = "load_mon"
      BY <3>1, <3>3, <4>2, Zenon DEF KnowsStart, CountsFrom, Behind, CounterInv, Knows, Past, LoadCS
    <4> QED
      BY <2>5, <4>1, <4>2, Zenon
  <3>4. ASSUME KnowsStart(t) PROVE KnowsStart(t)'
    BY <2>t, <2>5, <3>1, <3>2, <3>4, Zenon DEF KnowsStart, Goto
  <3> QED
    BY <2>a, <2>one, <3>1, <3>3, <3>4, Zenon
<2>6. ASSUME NEW t \in Thread, InitUnlock(t) PROVE AgreeInv'
  <3>1. /\ Live(t) /\ pc[t] = "init_unlock" /\ pc[t] \in CS
        /\ proc' = [proc EXCEPT ![ProcOf[t]] = "up"]
        /\ pc' = [u \in Thread |-> IF ProcOf[u] = ProcOf[t] THEN "idle" ELSE pc[u]]
        /\ UNCHANGED <<start_time, ftpl_starttime, infile_set, ticks>>
    BY <2>6, Zenon DEF InitUnlock, Up, CS, InitCS
  <3>2. \A u \in Thread : pc'[u] \in {pc[u], "idle"} /\ (Live(u)' => Live(u))
    BY <2>t, <3>1, Zenon DEF Live
  <3>3. DiedInStart => DiedInStart'
    BY <2>t, <3>1, Zenon DEF DiedInStart, Live
  <3>4. ASSUME NEW p \in Proc, CountsFrom(p), KnowsStart(t) PROVE CountsFrom(p)'
    BY <2>t, <3>1, <3>4, Zenon DEF CountsFrom, KnowsStart, Behind
  <3>5. ASSUME NEW u \in Thread, Live(u)' PROVE KnowsStart(u)'
    <4>1. pc'[u] \notin Changing
      BY <2>x, <3>1, <3>2, <3>5, Zenon DEF Changing
    <4> QED
      BY <4>1, Zenon DEF KnowsStart, Changing
  <3> QED
    BY <2>a, <3>1, <3>2, <3>3, <3>4, <3>5, Zenon DEF AgreeInv, Resetting, ResetCS
<2>7. ASSUME NEW t \in Thread, CallStep(t) PROVE AgreeInv'
  <3>1. PICK to \in {"load", "load_lock", "mode", "tick_lock", "release", "save_lock", "idle",
                     "stat_restore", "begin"} : Goto(t, to)
    BY <2>7, Zenon DEF CallStep, Begin, Load, Mode, Release, Return
  <3>2. Live(t) /\ UNCHANGED <<proc, start_time, ftpl_starttime, infile_set, ticks>>
    BY <2>7, Zenon DEF CallStep, Begin, Load, Mode, Release
  <3> QED
    BY <2>stay, <3>1, <3>2, Zenon DEF Resetting, ResetCS, Changing
<2>8. ASSUME NEW t \in Thread, TickStep(t) \/ SaveStep(t) \/ StatStep(t) PROVE AgreeInv'
  <3>1. PICK to \in TickCS \cup SaveCS \cup StatCS \cup {"release", "idle", "begin"} : Goto(t, to)
    BY <2>8, Zenon DEF TickStep, TickLock, TickRead, TickInc, TickUnlock, SaveStep, SaveLock,
       SaveWrite, SaveRest, SaveUnlock, Return, StatStep, StatLock, StatClear, StatRestore,
       StatUnlock, TickCS, SaveCS, StatCS
  <3>2. Live(t) /\ UNCHANGED <<proc, start_time, ftpl_starttime, infile_set>>
    BY <2>8, Zenon DEF TickStep, TickLock, TickRead, TickInc, TickUnlock, SaveStep, SaveLock,
       SaveWrite, SaveRest, SaveUnlock, Return, StatStep, StatLock, StatClear, StatRestore,
       StatUnlock
  <3>3. ticks' = ticks \/ ticks' > 0
    <4>1. CASE TickInc(t)
      <5>1. ticks' = ticks + 1
        BY <4>1, Zenon DEF TickInc, CounterInv, Knows
      <5> QED
        BY <2>t, <5>1
    <4>2. CASE ~TickInc(t)
      BY <2>8, <4>2, Zenon DEF TickStep, TickLock, TickRead, TickUnlock, SaveStep, SaveLock,
         SaveWrite, SaveRest, SaveUnlock, StatStep, StatLock, StatClear, StatRestore, StatUnlock
    <4> QED
      BY <4>1, <4>2, Zenon
  <3> QED
    BY <2>stay, <3>1, <3>2, <3>3, Zenon DEF Resetting, ResetCS, Changing, TickCS, SaveCS, StatCS
<2>9. ASSUME NEW t \in Thread, LoadLock(t) \/ LoadIdx(t) \/ LoadTake(t) \/ LoadUnlock(t)
      PROVE  AgreeInv'
  <3>1. PICK to \in {"load_idx", "load_take", "load_ticks", "load_unlock", "release", "mode"} :
          Goto(t, to)
    BY <2>9, Zenon DEF LoadLock, LoadIdx, LoadTake, LoadUnlock
  <3>2. Live(t) /\ UNCHANGED <<proc, start_time, ftpl_starttime, infile_set, ticks>>
    BY <2>9, Zenon DEF LoadLock, LoadIdx, LoadTake, LoadUnlock
  <3> QED
    BY <2>stay, <3>1, <3>2, Zenon DEF Resetting, ResetCS, Changing
<2>10. ASSUME NEW t \in Thread, LoadTicks(t) PROVE AgreeInv'
  <3>1. CASE ticks = 0
    <4>1. /\ Goto(t, "load_one") /\ Live(t)
          /\ UNCHANGED <<proc, start_time, ftpl_starttime, infile_set, ticks>>
      BY <2>10, <3>1, Zenon DEF LoadTicks
    <4> QED
      BY <2>stay, <4>1, Zenon DEF Resetting, ResetCS, Changing
  <3>2. CASE ticks # 0
    <4>1. /\ Goto(t, "load_unset") /\ Live(t) /\ pc[t] \in CS
          /\ ftpl_starttime' = [ftpl_starttime EXCEPT ![ProcOf[t]] = start_time]
          /\ UNCHANGED <<proc, start_time, infile_set, ticks>>
      BY <2>10, <3>2, Zenon DEF LoadTicks, CS, LoadCS
    <4>2. ASSUME NEW p \in Proc, CountsFrom(p) PROVE CountsFrom(p)'
      BY <2>t, <4>1, <4>2, Zenon DEF CountsFrom, Behind
    <4>3. KnowsStart(t)'
      BY <2>t, <4>1, Zenon DEF KnowsStart, Goto
    <4> QED
      BY <2>a, <2>one, <4>1, <4>2, <4>3, Zenon DEF Resetting, ResetCS
  <3> QED
    BY <3>1, <3>2, Zenon
<2>11. ASSUME NEW t \in Thread, LoadOne(t) PROVE AgreeInv'
  <3>1. /\ Goto(t, "load_real") /\ Live(t) /\ pc[t] \in CS /\ ticks' = 1
        /\ UNCHANGED <<proc, start_time, infile_set>>
    BY <2>11, Zenon DEF LoadOne, CS, LoadCS
  <3>2. \A p \in Proc : proc[p] = "up" => infile_set[p]
    <4>1. ticks = 0 /\ LoadLen > 0
      BY <2>11, Zenon DEF LoadOne, CounterInv, Knows, LoadCS
    <4>2. ~Past
      BY <4>1 DEF Past
    <4> QED
      BY <4>1, <4>2, Zenon DEF CounterInv
  <3>3. \A p \in Proc : CountsFrom(p)'
    <4>1. 1 > 0
      OBVIOUS
    <4> QED
      BY <3>1, <3>2, <4>1, Zenon DEF CountsFrom, Behind, CounterInv
  <3>4. KnowsStart(t)'
    BY <2>t, <3>1, <3>2, Zenon DEF KnowsStart, Goto
  <3> QED
    BY <2>one, <3>1, <3>3, <3>4, Zenon DEF Resetting, ResetCS
<2>12. ASSUME NEW t \in Thread, LoadUnset(t) PROVE AgreeInv'
  <3>1. /\ Goto(t, "load_unlock") /\ Live(t) /\ pc[t] = "load_unset" /\ pc[t] \in CS
        /\ infile_set' = [infile_set EXCEPT ![ProcOf[t]] = FALSE]
        /\ UNCHANGED <<proc, start_time, ftpl_starttime, ticks>>
    BY <2>12, Zenon DEF LoadUnset, CS, LoadCS
  <3>2. ASSUME NEW p \in Proc, CountsFrom(p), KnowsStart(t) PROVE CountsFrom(p)'
    BY <2>t, <3>1, <3>2, Zenon DEF CountsFrom, KnowsStart, Behind
  <3>3. KnowsStart(t)'
    BY <2>t, <3>1, Zenon DEF KnowsStart, Goto
  <3> QED
    BY <2>a, <2>one, <3>1, <3>2, <3>3, Zenon DEF Resetting, ResetCS
<2>13. ASSUME NEW t \in Thread, ResetStep(t) PROVE AgreeInv'
  BY <2>a, <2>13, Zenon DEF ResetStep, ResetLock, PutReal, PutMon, ResetUnlock, Resetting, ResetCS
<2>14. ASSUME NEW t \in Thread, InitStep(t) \/ LoadStep(t) PROVE AgreeInv'
  BY <2>2, <2>3, <2>4, <2>5, <2>6, <2>9, <2>10, <2>11, <2>12, <2>14, Zenon DEF InitStep, LoadStep
\* A new process has no thread that changes the start time.
<2>15. ASSUME NEW t \in Thread, NEW u \in Thread, Spawn(t, u) PROVE AgreeInv'
  <3>1. /\ proc[ProcOf[u]] = "off" /\ proc' = [proc EXCEPT ![ProcOf[u]] = "init"]
        /\ Goto(u, "init_lock") /\ UNCHANGED <<start_time, ftpl_starttime, infile_set, ticks>>
    BY <2>15, Zenon DEF Spawn
  <3>2. \A v \in Thread : pc'[v] = IF v = u THEN "init_lock" ELSE pc[v]
    BY <2>t, <3>1, Zenon DEF Goto
  <3>3. DiedInStart => DiedInStart'
    BY <2>t, <3>1, <3>2, Zenon DEF DiedInStart, Live, ProcInv
  <3>4. ASSUME NEW p \in Proc, CountsFrom(p) PROVE CountsFrom(p)'
    BY <2>t, <3>1, <3>4, Zenon DEF CountsFrom, Behind
  <3>5. ASSUME NEW v \in Thread, Live(v) => KnowsStart(v), Live(v)' PROVE KnowsStart(v)'
    <4>1. CASE ProcOf[v] = ProcOf[u]
      <5>1. pc'[v] \in {"off", "init_lock"}
        BY <3>1, <3>2, <4>1, Zenon DEF ProcInv
      <5> QED
        BY <5>1, Zenon DEF KnowsStart
    <4>2. CASE ProcOf[v] # ProcOf[u]
      BY <2>t, <3>1, <3>2, <3>5, <4>2, Zenon DEF KnowsStart, Live
    <4> QED
      BY <4>1, <4>2, Zenon
  <3> QED
    BY <2>a, <3>2, <3>3, <3>4, <3>5, Zenon DEF AgreeInv, Resetting, ResetCS
<2>16. ASSUME NEW t \in Thread, NEW u \in Thread, Fork(t, u) PROVE AgreeInv'
  <3>1. /\ proc[ProcOf[t]] = "up" /\ proc[ProcOf[u]] = "off"
        /\ proc' = [proc EXCEPT ![ProcOf[u]] = "up"]
        /\ Goto(u, "idle") /\ UNCHANGED <<start_time, ticks>>
        /\ ftpl_starttime' = [ftpl_starttime EXCEPT ![ProcOf[u]] = ftpl_starttime[ProcOf[t]]]
        /\ infile_set' = [infile_set EXCEPT ![ProcOf[u]] = infile_set[ProcOf[t]]]
    BY <2>16, Zenon DEF Fork
  <3>2. \A v \in Thread : pc'[v] = IF v = u THEN "idle" ELSE pc[v]
    BY <2>t, <3>1, Zenon DEF Goto
  <3>3. DiedInStart => DiedInStart'
    BY <2>t, <3>1, <3>2, Zenon DEF DiedInStart, Live, ProcInv
  <3>4. ASSUME NEW p \in Proc, CountsFrom(p), CountsFrom(ProcOf[t]) PROVE CountsFrom(p)'
    BY <2>t, <3>1, <3>4, Zenon DEF CountsFrom, Behind
  <3>5. ASSUME NEW v \in Thread, Live(v) => KnowsStart(v), Live(v)' PROVE KnowsStart(v)'
    <4>1. CASE ProcOf[v] = ProcOf[u]
      <5>1. pc'[v] \in {"off", "idle"}
        BY <3>1, <3>2, <4>1, Zenon DEF ProcInv
      <5> QED
        BY <5>1, Zenon DEF KnowsStart
    <4>2. CASE ProcOf[v] # ProcOf[u]
      <5>1. /\ Live(v) /\ KnowsStart(v) /\ pc'[v] = pc[v]
            /\ ftpl_starttime'[ProcOf[v]] = ftpl_starttime[ProcOf[v]]
        BY <2>t, <3>1, <3>2, <3>5, <4>2, Zenon DEF Live
      <5>2. pc[v] \notin {"init_real", "init_mon"}
        BY <3>1, <5>1, Zenon DEF KnowsStart
      <5>3. pc[v] \in {"load_real", "load_mon"} => \A p \in Proc : proc'[p] = "up" => infile_set'[p]
        BY <2>t, <3>1, <5>1, Zenon DEF KnowsStart
      <5> QED
        BY <3>1, <5>1, <5>2, <5>3, Zenon DEF KnowsStart
    <4> QED
      BY <4>1, <4>2, Zenon
  <3> QED
    BY <2>a, <3>2, <3>3, <3>4, <3>5, Zenon
    DEF AgreeInv, Resetting, ResetCS
\* A process dies: if it was changing the start time, it is not known any more.
<2>17. ASSUME NEW q \in Proc, Die(q) PROVE AgreeInv'
  <3>1. /\ proc' = [proc EXCEPT ![q] = "dead"]
        /\ ftpl_starttime' = [ftpl_starttime EXCEPT ![q] = NoTime]
        /\ infile_set' = [infile_set EXCEPT ![q] = FALSE]
        /\ UNCHANGED <<pc, start_time, ticks>>
    BY <2>17, Zenon DEF Die
  <3>2. \A p \in Proc : /\ p # q => /\ proc'[p] = proc[p] /\ infile_set'[p] = infile_set[p]
                                    /\ ftpl_starttime'[p] = ftpl_starttime[p]
                        /\ proc'[q] = "dead"
    BY <2>t, <3>1, Zenon
  <3>3. DiedInStart => DiedInStart'
    BY <3>1, <3>2, Zenon DEF DiedInStart, Live
  <3>4. ASSUME NEW p \in Proc, CountsFrom(p) PROVE CountsFrom(p)'
    BY <3>1, <3>2, <3>4, Zenon DEF CountsFrom, Behind
  <3>5. ASSUME NEW v \in Thread, Live(v) => KnowsStart(v), Live(v)' PROVE KnowsStart(v)'
    <4>1. ProcOf[v] # q /\ ProcOf[v] \in Proc
      BY <3>2, <3>5, Zenon DEF Live
    <4>2. /\ KnowsStart(v) /\ pc'[v] = pc[v] /\ start_time' = start_time
          /\ ftpl_starttime'[ProcOf[v]] = ftpl_starttime[ProcOf[v]]
      BY <3>1, <3>2, <3>5, <4>1, Zenon DEF Live
    <4>3. \A p \in Proc : proc'[p] = "up" => proc[p] = "up" /\ infile_set'[p] = infile_set[p]
      BY <3>2, Zenon
    <4> QED
      BY <4>2, <4>3, Zenon DEF KnowsStart
  <3> QED
    BY <2>a, <3>1, <3>3, <3>4, <3>5, Zenon DEF AgreeInv, Resetting
<2>18. CASE Clock \/ UNCHANGED vars
  <3>1. UNCHANGED <<pc, proc, start_time, ftpl_starttime, infile_set, ticks>>
    BY <2>18, Zenon DEF Clock, vars
  <3>2. (DiedInStart' <=> DiedInStart) /\ \A v \in Thread : Live(v)' <=> Live(v)
    BY <3>1, Zenon DEF DiedInStart, Live
  <3>3. \A p \in Proc : CountsFrom(p)' <=> CountsFrom(p)
    BY <3>1, Zenon DEF CountsFrom, Behind
  <3>4. \A v \in Thread : KnowsStart(v)' <=> KnowsStart(v)
    BY <3>1, Zenon DEF KnowsStart
  <3> QED
    BY <2>a, <3>1, <3>2, <3>3, <3>4, Zenon DEF AgreeInv, Resetting
<2> QED
  BY <2>1, <2>7, <2>8, <2>13, <2>14, <2>15, <2>16, <2>17, <2>18, Zenon
  DEF Next, LibraryStep, Exit, Fault
<1>3. AgreeInv => StartAgreement
  BY Zenon DEF AgreeInv, CountsFrom, StartAgreement
<1> QED
  BY <1>1, <1>2, <1>3, TypeCorrect, AnswerInvariant, Exclusion, Known, PTL DEF Spec
-----------------------------------------------------------------------------
(* The save file *)

\* Where the lock excludes, and as long as no write has failed and no process has died
\* between the two writes of write_all(), the save file consists of whole records, each
\* once and none inside another, however many processes share it.
THEOREM WholeInFile == ASSUME Exclusive PROVE Spec => []WholeRecords
\* With any lock: no answer is written twice, by one thread or by two.
<1>once. Spec => []OnceInv
  <2>1. ASSUME Init PROVE OnceInv
    <3>1. outfile = << >> /\ \A t \in Thread : pc[t] \in {"off", "init_lock"}
      BY <2>1, Zenon DEF Init
    <3>2. \A t \in Thread : ~Pending(t)
      BY <3>1, Zenon DEF Pending, Unsaved
    <3>3. 1..Len(outfile) = {}
      BY <3>1
    <3> QED
      BY <3>2, <3>3, Zenon DEF OnceInv, Pending
  <2>2. ASSUME TypeOK, ProcInv, AnswerInv, OnceInv, [Next]_vars PROVE OnceInv'
    <3> USE <2>2 DEF Move, Lock, Unlock, procVars, configVars, threadVars, kernelVars, historyVars, allButSem
    <3> DEFINE Places == {"tick_unlock", "load_unlock", "release", "save_lock", "save_write"}
    <3>t. /\ pc \in [Thread -> Step] /\ proc \in [Proc -> {"off", "init", "up", "dead"}]
          /\ ans \in [Thread -> Nat] /\ served \in Seq(Answer) /\ outfile \in Seq(HalfRecord)
          /\ Len(served) \in Nat /\ Len(outfile) \in Nat
          /\ \A i \in 1..Len(outfile) : outfile[i][1] \in Nat
      BY DEF TypeOK, ProcType, KernelType, ThreadType, HistoryType, HalfRecord
    <3>a. \A t \in Thread : ans[t] \in 0..Len(served) /\ AnswerOf(t)
      BY Zenon DEF AnswerInv, AnswerOf
    <3>grown. ASSUME NEW a, served' = Append(served, a) PROVE Len(served') = Len(served) + 1
      BY <3>t, <3>grown
    \* A step that writes nothing and finds no new answer.
    <3>less. ASSUME outfile' = outfile, served' = served,
                    \A u \in Thread : Pending(u)' => Pending(u) /\ ans'[u] = ans[u],
                    \A u \in Thread : Unsaved(u)' => Unsaved(u)
             PROVE  OnceInv'
      <4>1. \A i \in 1..Len(outfile) : outfile[i][1] <= Len(served)
        BY Zenon DEF OnceInv
      <4>2. \A i, k \in 1..Len(outfile) : outfile[i] = outfile[k] => i = k
        BY Zenon DEF OnceInv
      <4>3. \A u \in Thread : Unsaved(u)' => \A i \in 1..Len(outfile) : outfile[i][1] # ans'[u]
        BY <3>less, Zenon DEF OnceInv, Pending
      <4>4. \A u \in Thread : Pending(u)' => \A i \in 1..Len(outfile) : outfile[i] # <<ans'[u], 2>>
        BY <3>less, Zenon DEF OnceInv
      <4>5. \A t, u \in Thread : Pending(t)' /\ Pending(u)' /\ ans'[t] = ans'[u] => t = u
        BY <3>less, Zenon DEF OnceInv
      <4> QED
        BY <3>less, <4>1, <4>2, <4>3, <4>4, <4>5, Zenon DEF OnceInv
    \* A step of thread t that finds none.
    <3>move. ASSUME NEW t \in Thread, NEW to, Goto(t, to), Live(t), UNCHANGED <<proc, served, outfile>>,
                    \A u \in Thread \ {t} : ans'[u] = ans[u],
                    to # "save_rest",
                    \/ to \notin Places
                    \/ pc[t] \in Places /\ ans'[t] = ans[t]
                    \/ ~(ans'[t] > 0)
             PROVE  OnceInv'
      <4>1. ASSUME NEW u \in Thread, u # t
            PROVE  (Pending(u)' => Pending(u) /\ ans'[u] = ans[u]) /\ (Unsaved(u)' => Unsaved(u))
        <5>1. pc'[u] = pc[u] /\ (Live(u)' <=> Live(u)) /\ ans'[u] = ans[u]
          BY <3>t, <3>move, <4>1, Zenon DEF Goto, Live
        <5> QED
          BY <5>1, Zenon DEF Pending, Unsaved
      <4>2. (Pending(t)' => Pending(t) /\ ans'[t] = ans[t]) /\ (Unsaved(t)' => Unsaved(t))
        <5>1. pc'[t] = to
          BY <3>t, <3>move, Zenon DEF Goto
        <5> QED
          BY <3>move, <5>1, Zenon DEF Pending, Unsaved
      <4> QED
        BY <3>less, <3>move, <4>1, <4>2, Zenon
    \* A new answer is a number that nobody has and that is not in the file.
    <3>serve. ASSUME NEW t \in Thread, NEW to, NEW a, Goto(t, to), Serve(t, a), to # "save_rest",
                     UNCHANGED <<proc, outfile>>
              PROVE  OnceInv'
      <4>1. ans'[t] = Len(served) + 1 /\ Len(served') = Len(served) + 1
        BY <3>t, <3>serve, <3>grown, Zenon DEF Serve
      <4>2. ASSUME NEW u \in Thread, u # t
            PROVE  /\ ans'[u] = ans[u] /\ ans[u] # Len(served) + 1
                   /\ (Pending(u)' => Pending(u)) /\ (Unsaved(u)' => Unsaved(u))
        <5>1. pc'[u] = pc[u] /\ (Live(u)' <=> Live(u)) /\ ans'[u] = ans[u]
          BY <3>t, <3>serve, <4>2, Zenon DEF Goto, Live, Serve
        <5>2. ans[u] # Len(served) + 1
          BY <3>t, <3>a
        <5> QED
          BY <5>1, <5>2, Zenon DEF Pending, Unsaved
      <4>3. \A i \in 1..Len(outfile) : outfile[i][1] <= Len(served)
        BY Zenon DEF OnceInv
      <4>4. \A i \in 1..Len(outfile) : outfile[i][1] <= Len(served) + 1 /\ outfile[i][1] # Len(served) + 1
        BY <3>t, <4>3
      <4>5. \A i \in 1..Len(outfile) : outfile[i] # <<Len(served) + 1, 2>>
        BY <4>4
      <4>6. \A i, k \in 1..Len(outfile) : outfile[i] = outfile[k] => i = k
        BY Zenon DEF OnceInv
      <4>7. ASSUME NEW u \in Thread
            PROVE  /\ Unsaved(u)' => \A i \in 1..Len(outfile) : outfile[i][1] # ans'[u]
                   /\ Pending(u)' => \A i \in 1..Len(outfile) : outfile[i] # <<ans'[u], 2>>
        <5>1. CASE u = t
          BY <4>1, <4>4, <4>5, <5>1, Zenon
        <5>2. CASE u # t
          <6>1. Unsaved(u)' => \A i \in 1..Len(outfile) : outfile[i][1] # ans[u]
            BY <4>2, <5>2, Zenon DEF OnceInv
          <6>2. Pending(u)' => \A i \in 1..Len(outfile) : outfile[i] # <<ans[u], 2>>
            BY <4>2, <5>2, Zenon DEF OnceInv
          <6> QED
            BY <4>2, <5>2, <6>1, <6>2, Zenon
        <5> QED
          BY <5>1, <5>2, Zenon
      <4>8. ASSUME NEW v \in Thread, NEW u \in Thread, Pending(v)', Pending(u)', ans'[v] = ans'[u]
            PROVE  v = u
        <5>1. CASE v # t /\ u # t
          BY <4>2, <4>8, <5>1, Zenon DEF OnceInv
        <5>2. CASE v = t /\ u # t
          BY <4>1, <4>2, <4>8, <5>2, Zenon
        <5>3. CASE v # t /\ u = t
          BY <4>1, <4>2, <4>8, <5>3, Zenon
        <5> QED
          BY <5>1, <5>2, <5>3, Zenon
      <4>9. \A i \in 1..Len(outfile) : outfile[i][1] <= Len(served')
        BY <4>1, <4>4, Zenon
      <4> QED
        BY <3>serve, <4>6, <4>7, <4>8, <4>9, Zenon DEF OnceInv
    \* One half of the record of thread t is written.
    <3>write. ASSUME NEW t \in Thread, NEW h \in {1, 2}, NEW to, Goto(t, to), Pending(t),
                     UNCHANGED <<proc, ans, served>>, outfile' = Append(outfile, <<ans[t], h>>),
                     \A i \in 1..Len(outfile) : outfile[i] # <<ans[t], h>>,
                     to \in {"save_rest", "save_unlock"}, Live(t),
                     to = "save_rest" => h = 1 /\ Unsaved(t)
              PROVE  OnceInv'
      <4> DEFINE n == Len(outfile)
      <4>1. <<ans[t], h>> \in HalfRecord
        BY <3>t DEF HalfRecord
      <4>2. /\ Len(outfile') = n + 1 /\ outfile'[n + 1] = <<ans[t], h>>
            /\ \A i \in 1..n : outfile'[i] = outfile[i]
            /\ \A i \in 1..(n + 1) : i \in 1..n \/ i = n + 1
        BY <3>t, <3>write, <4>1
      <4>3. ASSUME NEW u \in Thread, u # t
            PROVE  (Pending(u)' => Pending(u) /\ ans[u] # ans[t]) /\ (Unsaved(u)' => Unsaved(u))
        <5>1. pc'[u] = pc[u] /\ (Live(u)' <=> Live(u))
          BY <3>t, <3>write, <4>3, Zenon DEF Goto, Live
        <5>2. Pending(u)' => Pending(u)
          BY <3>write, <5>1, Zenon DEF Pending, Unsaved
        <5>3. Unsaved(u)' => Unsaved(u)
          BY <3>write, <5>1, Zenon DEF Unsaved
        <5> QED
          BY <3>write, <4>3, <5>2, <5>3, Zenon DEF OnceInv
      <4>4. pc'[t] = to /\ ~Unsaved(t)' /\ (Pending(t)' => to = "save_rest")
        <5>1. pc'[t] = to
          BY <3>t, <3>write, Zenon DEF Goto
        <5> QED
          BY <3>write, <5>1, Zenon DEF Pending, Unsaved
      <4>5. \A i \in 1..(n + 1) : outfile'[i][1] <= Len(served)
        <5>1. ans[t] <= Len(served)
          BY <3>a, <3>t
        <5>2. <<ans[t], h>>[1] = ans[t]
          OBVIOUS
        <5> QED
          BY <4>2, <5>1, <5>2, Zenon DEF OnceInv
      <4>6. ASSUME NEW i \in 1..(n + 1), NEW k \in 1..(n + 1), outfile'[i] = outfile'[k] PROVE i = k
        <5>1. \A l, m \in 1..n : outfile[l] = outfile[m] => l = m
          BY Zenon DEF OnceInv
        <5>2. CASE i \in 1..n /\ k \in 1..n
          BY <4>2, <4>6, <5>1, <5>2, Zenon
        <5>3. CASE i \in 1..n /\ k = n + 1
          BY <3>write, <4>2, <4>6, <5>3, Zenon
        <5>4. CASE i = n + 1 /\ k \in 1..n
          BY <3>write, <4>2, <4>6, <5>4, Zenon
        <5> QED
          BY <4>2, <5>2, <5>3, <5>4, Zenon
      <4>7. ASSUME NEW u \in Thread, Unsaved(u)', NEW i \in 1..(n + 1) PROVE outfile'[i][1] # ans[u]
        <5>1. u # t /\ Pending(u)'
          BY <4>4, <4>7, Zenon DEF Pending
        <5>2. Unsaved(u) /\ ans[u] # ans[t]
          BY <4>3, <4>7, <5>1, Zenon
        <5>3. <<ans[t], h>>[1] = ans[t]
          OBVIOUS
        <5>4. \A k \in 1..n : outfile[k][1] # ans[u]
          BY <5>2, Zenon DEF OnceInv
        <5>5. CASE i \in 1..n
          BY <4>2, <5>4, <5>5, Zenon
        <5>6. CASE i = n + 1
          BY <4>2, <5>2, <5>3, <5>6, Zenon
        <5> QED
          BY <4>2, <4>7, <5>5, <5>6, Zenon
      <4>8. ASSUME NEW u \in Thread, Pending(u)', NEW i \in 1..(n + 1) PROVE outfile'[i] # <<ans[u], 2>>
        <5>1. CASE u = t
          <6>1. h = 1 /\ \A k \in 1..n : outfile[k][1] # ans[t]
            BY <3>write, <4>4, <4>8, <5>1, Zenon DEF OnceInv
          <6>2. <<ans[t], 1>> # <<ans[t], 2>> /\ <<ans[t], 2>>[1] = ans[t]
            OBVIOUS
          <6> QED
            BY <4>2, <5>1, <6>1, <6>2, Zenon
        <5>2. CASE u # t
          <6>1. Pending(u) /\ ans[u] # ans[t]
            BY <4>3, <4>8, <5>2, Zenon
          <6>2. <<ans[t], h>> # <<ans[u], 2>>
            BY <6>1
          <6> QED
            BY <4>2, <6>1, <6>2, Zenon DEF OnceInv
        <5> QED
          BY <5>1, <5>2, Zenon
      <4>9. \A v, u \in Thread : Pending(v)' /\ Pending(u)' /\ ans[v] = ans[u] => v = u
        BY <3>write, <4>3, Zenon DEF OnceInv
      <4> QED
        BY <3>write, <4>2, <4>5, <4>6, <4>7, <4>8, <4>9, Zenon DEF OnceInv
    <3>1. ASSUME NEW t \in Thread, Request(t) PROVE OnceInv'
      <4>1. UNCHANGED <<proc, ans, served, outfile>> /\ Live(t)
        BY <3>1, Zenon DEF Request, GetTime, Stat
      <4>2. PICK to \in {"begin", "stat_lock"} : Goto(t, to)
        BY <3>1, Zenon DEF Request, GetTime, Stat
      <4> QED
        BY <3>move, <4>1, <4>2, Zenon
    <3>2. ASSUME NEW t \in Thread, InitStep(t) \/ ResetStep(t), ~Up(t) PROVE OnceInv'
      <4>1. UNCHANGED <<proc, ans, served, outfile>> /\ Live(t)
        BY <3>2, Zenon DEF InitStep, ResetStep, InitLock, InitGet, PutReal, PutMon, InitUnlock,
           ResetLock, ResetUnlock
      <4>2. PICK to \in {"load", "reset_lock"} \cup InitCS \cup ResetCS : Goto(t, to)
        BY <3>2, Zenon DEF InitStep, ResetStep, InitLock, InitGet, PutReal, PutMon, InitUnlock,
           ResetLock, ResetUnlock, InitCS, ResetCS
      <4> QED
        BY <3>move, <4>1, <4>2, Zenon DEF InitCS, ResetCS
    <3>3. ASSUME NEW t \in Thread, InitStep(t) \/ ResetStep(t), Up(t) PROVE OnceInv'
      <4>1. UNCHANGED <<ans, served, outfile>>
        BY <3>3, Zenon DEF InitStep, ResetStep, InitLock, InitGet, PutReal, PutMon, InitUnlock,
           ResetLock, ResetUnlock
      <4>2. ASSUME NEW u \in Thread PROVE (Pending(u)' => Pending(u)) /\ (Unsaved(u)' => Unsaved(u))
        <5>1. CASE ProcOf[u] = ProcOf[t]
          <6>1. pc'[u] = "idle"
            BY <3>3, <5>1, Zenon DEF Up
          <6> QED
            BY <6>1, Zenon DEF Pending, Unsaved
        <5>2. CASE ProcOf[u] # ProcOf[t]
          <6>1. pc'[u] = pc[u] /\ (Live(u)' <=> Live(u))
            BY <3>t, <3>3, <5>2, Zenon DEF Up, Live
          <6> QED
            BY <4>1, <6>1, Zenon DEF Pending, Unsaved
        <5> QED
          BY <5>1, <5>2, Zenon
      <4> QED
        BY <3>less, <4>1, <4>2, Zenon
    <3>4. ASSUME NEW t \in Thread, CallStep(t) PROVE OnceInv'
      <4>1. UNCHANGED <<proc, outfile>> /\ Live(t)
        BY <3>4, Zenon DEF CallStep, Begin, Load, Mode, Release
      <4>2. CASE Begin(t) \/ Load(t)
        <5>1. PICK to \in {"load", "reset_lock", "load_lock", "mode"} : Goto(t, to)
          BY <4>2, Zenon DEF Begin, Load
        <5>2. UNCHANGED served /\ \A u \in Thread \ {t} : ans'[u] = ans[u]
          BY <3>t, <4>2, Zenon DEF Begin, Load
        <5> QED
          BY <3>move, <4>1, <5>1, <5>2, Zenon
      <4>3. CASE Mode(t)
        <5>1. CASE Goto(t, "tick_lock") /\ UNCHANGED <<ans, served>>
          BY <3>move, <4>1, <5>1, Zenon
        <5>2. CASE Goto(t, "release") /\ Serve(t, G!RuleAnswer(ftpl_starttime[ProcOf[t]].real))
          BY <3>serve, <4>1, <5>2, Zenon
        <5> QED
          BY <4>3, <5>1, <5>2, Zenon DEF Mode
      <4>4. CASE Release(t)
        <5>1. PICK to \in {"save_lock", "idle", "stat_restore", "begin"} : Goto(t, to)
          BY <4>4, Zenon DEF Release, Return
        <5>2. UNCHANGED <<ans, served>> /\ pc[t] \in Places
          BY <4>4, Zenon DEF Release
        <5> QED
          BY <3>move, <4>1, <5>1, <5>2, Zenon
      <4> QED
        BY <3>4, <4>2, <4>3, <4>4, Zenon DEF CallStep
    <3>5. ASSUME NEW t \in Thread, LoadStep(t) \/ TickStep(t) PROVE OnceInv'
      <4>1. UNCHANGED <<proc, outfile>> /\ Live(t)
        BY <3>5, Zenon DEF LoadStep, LoadLock, LoadIdx, LoadTake, LoadTicks, LoadOne, PutReal, PutMon,
           LoadUnset, LoadUnlock, TickStep, TickLock, TickRead, TickInc, TickUnlock
      <4>2. CASE LoadTake(t)
        <5>1. PICK a : Serve(t, a)
          BY <4>2, Zenon DEF LoadTake
        <5>2. Goto(t, "load_unlock")
          BY <4>2, Zenon DEF LoadTake
        <5> QED
          BY <3>serve, <4>1, <5>1, <5>2, Zenon
      <4>3. CASE TickInc(t)
        <5>1. PICK a : Serve(t, a)
          BY <4>3, Zenon DEF TickInc
        <5>2. Goto(t, "tick_unlock")
          BY <4>3, Zenon DEF TickInc
        <5> QED
          BY <3>serve, <4>1, <5>1, <5>2, Zenon
      <4>4. CASE LoadUnset(t)
        <5>1. Goto(t, "load_unlock") /\ UNCHANGED <<ans, served>> /\ pc[t] = "load_unset"
          BY <4>4, Zenon DEF LoadUnset
        <5>2. ans[t] = 0
          BY <3>a, <4>1, <5>1, Zenon DEF AnswerOf, NoAnswer, LoadCS
        <5>3. ~(ans'[t] > 0)
          BY <5>1, <5>2
        <5> QED
          BY <3>move, <4>1, <5>1, <5>3, Zenon
      <4>5. CASE LoadUnlock(t) \/ TickUnlock(t)
        <5>1. PICK to \in {"mode", "release"} : Goto(t, to)
          BY <4>5, Zenon DEF LoadUnlock, TickUnlock
        <5>2. UNCHANGED <<ans, served>> /\ pc[t] \in Places
          BY <4>5, Zenon DEF LoadUnlock, TickUnlock
        <5> QED
          BY <3>move, <4>1, <5>1, <5>2, Zenon
      <4>6. CASE LoadLock(t) \/ LoadIdx(t) \/ LoadTicks(t) \/ LoadOne(t) \/ PutReal(t, "load_real", "load_mon")
                 \/ PutMon(t, "load_mon", "load_unset") \/ TickLock(t) \/ TickRead(t)
        <5>1. PICK to \in (LoadCS \cup TickCS) \ {"load_unlock", "tick_unlock"} : Goto(t, to)
          BY <4>6, Zenon DEF LoadLock, LoadIdx, LoadTicks, LoadOne, PutReal, PutMon, TickLock, TickRead,
             LoadCS, TickCS
        <5>2. UNCHANGED <<ans, served>>
          BY <4>6, Zenon DEF LoadLock, LoadIdx, LoadTicks, LoadOne, PutReal, PutMon, TickLock, TickRead
        <5> QED
          BY <3>move, <4>1, <5>1, <5>2, Zenon DEF LoadCS, TickCS
      <4> QED
        BY <3>5, <4>2, <4>3, <4>4, <4>5, <4>6, Zenon DEF LoadStep, TickStep
    <3>6. ASSUME NEW t \in Thread, SaveStep(t) PROVE OnceInv'
      <4>1. UNCHANGED <<proc, ans, served>> /\ Live(t) /\ AnswerOf(t)
        BY <3>a, <3>6, Zenon DEF SaveStep, SaveLock, SaveWrite, SaveRest, SaveUnlock
      <4>2. CASE SaveLock(t)
        BY <3>move, <4>1, <4>2, Zenon DEF SaveLock
      <4>3. CASE SaveWrite(t)
        <5>1. CASE Goto(t, "save_rest") /\ outfile' = Append(outfile, <<ans[t], 1>>)
          <6>1. Unsaved(t) /\ Pending(t)
            BY <4>1, <4>3, Zenon DEF SaveWrite, Unsaved, Pending, AnswerOf, HasAnswer, SaveCS
          <6>2. \A i \in 1..Len(outfile) : outfile[i][1] # ans[t]
            BY <6>1, Zenon DEF OnceInv
          <6>3. \A i \in 1..Len(outfile) : outfile[i] # <<ans[t], 1>>
            BY <6>2
          <6> QED
            BY <3>write, <4>1, <5>1, <6>1, <6>3, Zenon
        <5>2. CASE Goto(t, "save_unlock") /\ UNCHANGED outfile
          BY <3>move, <4>1, <5>2, Zenon
        <5> QED
          BY <4>3, <5>1, <5>2, Zenon DEF SaveWrite
      <4>4. CASE SaveRest(t)
        <5>1. Goto(t, "save_unlock") /\ Pending(t)
          BY <4>1, <4>4, Zenon DEF SaveRest, Pending
        <5>2. CASE outfile' = Append(outfile, <<ans[t], 2>>)
          <6>1. \A i \in 1..Len(outfile) : outfile[i] # <<ans[t], 2>>
            BY <5>1, Zenon DEF OnceInv
          <6> QED
            BY <3>write, <4>1, <5>1, <5>2, <6>1, Zenon
        <5>3. CASE UNCHANGED outfile
          BY <3>move, <4>1, <5>1, <5>3, Zenon
        <5> QED
          BY <4>4, <5>2, <5>3, Zenon DEF SaveRest
      <4>5. CASE SaveUnlock(t)
        <5>1. PICK to \in {"idle", "stat_restore", "begin"} : Goto(t, to)
          BY <4>5, Zenon DEF SaveUnlock, Return
        <5> QED
          BY <3>move, <4>1, <4>5, <5>1, Zenon DEF SaveUnlock
      <4> QED
        BY <3>6, <4>2, <4>3, <4>4, <4>5, Zenon DEF SaveStep
    <3>7. ASSUME NEW t \in Thread, StatStep(t) PROVE OnceInv'
      <4>1. UNCHANGED <<proc, ans, served, outfile>> /\ Live(t)
        BY <3>7, Zenon DEF StatStep, StatLock, StatClear, StatRestore, StatUnlock
      <4>2. PICK to \in {"stat_clear", "begin", "stat_unlock", "idle"} : Goto(t, to)
        BY <3>7, Zenon DEF StatStep, StatLock, StatClear, StatRestore, StatUnlock
      <4> QED
        BY <3>move, <4>1, <4>2, Zenon
    <3>8. ASSUME NEW t \in Thread, NEW u \in Thread, Spawn(t, u) \/ Fork(t, u) PROVE OnceInv'
      <4> DEFINE q == ProcOf[u]
      <4>1. /\ UNCHANGED <<ans, served, outfile>> /\ proc[q] = "off" /\ q \in Proc
            /\ \A p \in Proc : p # q => proc'[p] = proc[p]
            /\ pc' = [pc EXCEPT ![u] = "init_lock"] \/ pc' = [pc EXCEPT ![u] = "idle"]
        BY <3>8, <3>t, Zenon DEF Spawn, Fork, Goto
      <4>2. ASSUME NEW v \in Thread PROVE (Pending(v)' => Pending(v)) /\ (Unsaved(v)' => Unsaved(v))
        <5>1. CASE ProcOf[v] = q
          <6>1. pc'[v] \in {"init_lock", "idle", "off"}
            BY <3>t, <4>1, <5>1, Zenon DEF ProcInv
          <6> QED
            BY <6>1, Zenon DEF Pending, Unsaved
        <5>2. CASE ProcOf[v] # q
          <6>1. pc'[v] = pc[v] /\ (Live(v)' <=> Live(v))
            BY <3>t, <4>1, <5>2, Zenon DEF Live
          <6> QED
            BY <4>1, <6>1, Zenon DEF Pending, Unsaved
        <5> QED
          BY <5>1, <5>2, Zenon
      <4> QED
        BY <3>less, <4>1, <4>2, Zenon
    <3>9. ASSUME NEW p \in Proc, Die(p) PROVE OnceInv'
      <4>1. UNCHANGED <<pc, served, outfile>>
        BY <3>9, Zenon DEF Die
      <4>2. ASSUME NEW v \in Thread
            PROVE  (Pending(v)' => Pending(v) /\ ans'[v] = ans[v]) /\ (Unsaved(v)' => Unsaved(v))
        <5>1. CASE ProcOf[v] = p
          <6>1. ~Live(v)'
            BY <3>t, <3>9, <5>1, Zenon DEF Die, Live
          <6> QED
            BY <6>1, Zenon DEF Pending, Unsaved
        <5>2. CASE ProcOf[v] # p
          <6>1. (Live(v)' <=> Live(v)) /\ ans'[v] = ans[v]
            BY <3>t, <3>9, <5>2, Zenon DEF Die, Live, Forget
          <6> QED
            BY <4>1, <6>1, Zenon DEF Pending, Unsaved
        <5> QED
          BY <5>1, <5>2, Zenon
      <4> QED
        BY <3>less, <4>1, <4>2, Zenon
    <3>10. CASE Clock \/ UNCHANGED vars
      <4>1. UNCHANGED <<pc, proc, ans, served, outfile>>
        BY <3>10, Zenon DEF Clock, vars
      <4>2. \A v \in Thread : (Pending(v)' <=> Pending(v)) /\ (Unsaved(v)' <=> Unsaved(v))
        BY <4>1, Zenon DEF Pending, Unsaved, Live
      <4> QED
        BY <3>less, <4>1, <4>2, Zenon
    <3> QED
      BY <3>1, <3>2, <3>3, <3>4, <3>5, <3>6, <3>7, <3>8, <3>9, <3>10, Zenon
      DEF Next, LibraryStep, Exit, Fault
  <2> QED
    BY <2>1, <2>2, TypeCorrect, AnswerInvariant, PTL DEF Spec
<1>0. ASSUME NEW n \in Nat
      PROVE  /\ n % 2 # 1 => (n + 1) % 2 = 1 /\ ~((n + 1) % 2 = 0)
             /\ n % 2 = 1 => ~((n + 1) % 2 = 1) /\ n \in 1..n
             /\ n + 1 - 1 = n
  OBVIOUS
<1>1. ASSUME Init PROVE PairInv
  <2>1. outfile = << >> /\ \A t \in Thread : pc[t] \in {"off", "init_lock"}
    BY <1>1, Zenon DEF Init
  <2>2. \A t \in Thread : ~Between(t)
    BY <2>1, Zenon DEF Between
  <2>3. 1..Len(outfile) = {} /\ Len(outfile) % 2 # 1
    BY <2>1
  <2> QED
    BY <2>2, <2>3, Zenon DEF PairInv
<1>2. ASSUME TypeOK, ProcInv, MutualExclusion, PairInv, [Next]_vars PROVE PairInv'
  <2> USE <1>2 DEF Move, Lock, Unlock, procVars, configVars, threadVars, kernelVars, historyVars, allButSem
  <2>t. /\ pc \in [Thread -> Step] /\ proc \in [Proc -> {"off", "init", "up", "dead"}]
        /\ ans \in [Thread -> Nat] /\ outfile \in Seq(HalfRecord) /\ Len(outfile) \in Nat
    BY DEF TypeOK, ProcType, KernelType, ThreadType
  \* A step that writes nothing, with the same thread between its two writes.
  <2>same. ASSUME UNCHANGED <<outfile, torn>>,
                  \A u \in Thread : Between(u)' <=> Between(u),
                  \A u \in Thread : Between(u) => ans'[u] = ans[u]
           PROVE  PairInv'
    <3>1. SUFFICES ASSUME torn = {}
                   PROVE  /\ \A i \in 1..Len(outfile) : i % 2 = 0 =>
                               outfile[i - 1] = <<outfile[i][1], 1>> /\ outfile[i][2] = 2
                          /\ \A t \in Thread : Between(t)' =>
                               Len(outfile) % 2 = 1 /\ outfile[Len(outfile)] = <<ans'[t], 1>>
                          /\ Len(outfile) % 2 = 1 => \E t \in Thread : Between(t)'
      BY <2>same, Zenon DEF PairInv
    <3>2. \A t \in Thread : Between(t)' =>
            Len(outfile) % 2 = 1 /\ outfile[Len(outfile)] = <<ans'[t], 1>>
      BY <2>same, <3>1, Zenon DEF PairInv
    <3>3. Len(outfile) % 2 = 1 => \E t \in Thread : Between(t)'
      BY <2>same, <3>1, Zenon DEF PairInv
    <3> QED
      BY <3>1, <3>2, <3>3, Zenon DEF PairInv
  \* A step of thread t outside the two writes.
  <2>move. ASSUME NEW t \in Thread, NEW to, Goto(t, to), UNCHANGED <<proc, outfile, torn>>,
                  \A u \in Thread \ {t} : ans'[u] = ans[u],
                  pc[t] # "save_rest", to # "save_rest"
           PROVE  PairInv'
    <3>1. ASSUME NEW u \in Thread PROVE (Between(u)' <=> Between(u)) /\ (Between(u) => ans'[u] = ans[u])
      <4>1. CASE u = t
        <5>1. pc'[t] = to
          BY <2>t, <2>move, Zenon DEF Goto
        <5> QED
          BY <2>move, <4>1, <5>1, Zenon DEF Between
      <4>2. CASE u # t
        <5>1. pc'[u] = pc[u] /\ (Live(u)' <=> Live(u))
          BY <2>t, <2>move, <4>2, Zenon DEF Goto, Live
        <5> QED
          BY <2>move, <4>2, <5>1, Zenon DEF Between
      <4> QED
        BY <4>1, <4>2, Zenon
    <3> QED
      BY <2>same, <2>move, <3>1, Zenon
  <2>1. ASSUME NEW t \in Thread, Request(t) \/ StatStep(t) PROVE PairInv'
    <3>1. UNCHANGED <<proc, ans, outfile, torn>> /\ pc[t] # "save_rest"
      BY <2>1, Zenon DEF Request, GetTime, Stat, StatStep, StatLock, StatClear, StatRestore, StatUnlock
    <3>2. PICK to \in {"begin", "stat_lock", "stat_clear", "stat_unlock", "idle"} : Goto(t, to)
      BY <2>1, Zenon DEF Request, GetTime, Stat, StatStep, StatLock, StatClear, StatRestore, StatUnlock
    <3> QED
      BY <2>move, <3>1, <3>2, Zenon
  <2>2. ASSUME NEW t \in Thread, InitStep(t) \/ ResetStep(t), ~Up(t) PROVE PairInv'
    <3>1. UNCHANGED <<proc, ans, outfile, torn>> /\ pc[t] # "save_rest"
      BY <2>2, Zenon DEF InitStep, ResetStep, InitLock, InitGet, PutReal, PutMon, InitUnlock,
         ResetLock, ResetUnlock
    <3>2. PICK to \in {"load", "reset_lock"} \cup InitCS \cup ResetCS : Goto(t, to)
      BY <2>2, Zenon DEF InitStep, ResetStep, InitLock, InitGet, PutReal, PutMon, InitUnlock,
         ResetLock, ResetUnlock, InitCS, ResetCS
    <3> QED
      BY <2>move, <3>1, <3>2, Zenon DEF InitCS, ResetCS
  <2>3. ASSUME NEW t \in Thread, InitStep(t) \/ ResetStep(t), Up(t) PROVE PairInv'
    <3>0. pc'[t] = "idle" /\ "load" # "idle"
      BY <2>3, Zenon DEF Up
    <3>1. UNCHANGED <<ans, outfile, torn>> /\ Live(t) /\ pc[t] \in InitPhase
      BY <2>3, Zenon DEF InitStep, ResetStep, InitLock, InitGet, PutReal, PutMon, InitUnlock,
         ResetLock, ResetUnlock, InitPhase, InitCS, ResetCS
    <3>2. proc[ProcOf[t]] = "init"
      <4>1. CASE InitStep(t)
        <5>1. pc[t] = "init_lock" \/ pc[t] \in InitCS
          BY <4>1, Zenon DEF InitStep, InitLock, InitGet, PutReal, PutMon, InitUnlock, InitCS
        <5> QED
          BY <3>1, <5>1, Zenon DEF Live, ProcInv, InitCS
      <4>2. CASE ResetStep(t)
        BY <2>t, <3>0, <4>2, Zenon DEF ResetStep, ResetLock, PutReal, PutMon, ResetUnlock, Goto
      <4> QED
        BY <2>3, <4>1, <4>2, Zenon
    <3>3. ASSUME NEW u \in Thread PROVE Between(u)' <=> Between(u)
      <4>1. CASE ProcOf[u] = ProcOf[t]
        <5>1. pc'[u] = "idle" /\ pc[u] # "save_rest"
          BY <2>3, <3>1, <3>2, <4>1, Zenon DEF Up, ProcInv, InitPhase, InitCS, ResetCS
        <5> QED
          BY <5>1, Zenon DEF Between
      <4>2. CASE ProcOf[u] # ProcOf[t]
        <5>1. pc'[u] = pc[u] /\ (Live(u)' <=> Live(u))
          BY <2>t, <2>3, <4>2, Zenon DEF Up, Live
        <5> QED
          BY <5>1, Zenon DEF Between
      <4> QED
        BY <4>1, <4>2, Zenon
    <3> QED
      BY <2>same, <3>1, <3>3, Zenon
  <2>4. ASSUME NEW t \in Thread, CallStep(t) PROVE PairInv'
    <3>1. /\ UNCHANGED <<proc, outfile, torn>> /\ pc[t] # "save_rest"
          /\ \A u \in Thread \ {t} : ans'[u] = ans[u]
      BY <2>t, <2>4, Zenon DEF CallStep, Begin, Load, Mode, Release, Serve
    <3>2. PICK to \in {"load", "reset_lock", "load_lock", "mode", "tick_lock", "release", "save_lock",
                       "idle", "stat_restore", "begin"} : Goto(t, to)
      BY <2>4, Zenon DEF CallStep, Begin, Load, Mode, Release, Return
    <3> QED
      BY <2>move, <3>1, <3>2, Zenon
  <2>5. ASSUME NEW t \in Thread, LoadStep(t) \/ TickStep(t) PROVE PairInv'
    <3>1. /\ UNCHANGED <<proc, outfile, torn>> /\ pc[t] # "save_rest"
          /\ \A u \in Thread \ {t} : ans'[u] = ans[u]
      BY <2>t, <2>5, Zenon DEF LoadStep, LoadLock, LoadIdx, LoadTake, LoadTicks, LoadOne, PutReal, PutMon,
         LoadUnset, LoadUnlock, TickStep, TickLock, TickRead, TickInc, TickUnlock, Serve
    <3>2. PICK to \in {"mode", "release"} \cup LoadCS \cup TickCS : Goto(t, to)
      BY <2>5, Zenon DEF LoadStep, LoadLock, LoadIdx, LoadTake, LoadTicks, LoadOne, PutReal, PutMon,
         LoadUnset, LoadUnlock, TickStep, TickLock, TickRead, TickInc, TickUnlock, LoadCS, TickCS
    <3> QED
      BY <2>move, <3>1, <3>2, Zenon DEF LoadCS, TickCS
  \* save_time(): no other thread is between its two writes.
  <2>6. ASSUME NEW t \in Thread, SaveLock(t) \/ SaveUnlock(t) PROVE PairInv'
    <3>1. UNCHANGED <<proc, ans, outfile, torn>> /\ pc[t] # "save_rest"
      BY <2>6, Zenon DEF SaveLock, SaveUnlock
    <3>2. PICK to \in {"save_write", "idle", "stat_restore", "begin"} : Goto(t, to)
      BY <2>6, Zenon DEF SaveLock, SaveUnlock, Return
    <3> QED
      BY <2>move, <3>1, <3>2, Zenon
  <2>alone. ASSUME NEW t \in Thread, NEW to, Goto(t, to), Live(t), UNCHANGED proc,
                   pc[t] \in {"save_write", "save_rest"}, NEW u \in Thread, u # t
            PROVE  ~Between(u) /\ ~Between(u)'
    <3>1. pc[u] # "save_rest" \/ ~Live(u)
      BY <2>alone, Zenon DEF MutualExclusion, CS, SaveCS
    <3>2. pc'[u] = pc[u] /\ (Live(u)' <=> Live(u))
      BY <2>t, <2>alone, Zenon DEF Goto, Live
    <3> QED
      BY <3>1, <3>2, Zenon DEF Between
  <2>app. ASSUME NEW a \in HalfRecord, outfile' = Append(outfile, a)
          PROVE  /\ Len(outfile') = Len(outfile) + 1 /\ outfile'[Len(outfile) + 1] = a
                 /\ \A i \in 1..Len(outfile) : outfile'[i] = outfile[i]
                 /\ \A i \in 1..(Len(outfile) + 1) : i \in 1..Len(outfile) \/ i = Len(outfile) + 1
    BY <2>t, <2>app
  <2>even. \A i \in 1..Len(outfile) : i % 2 = 0 => i - 1 \in 1..Len(outfile)
    BY <2>t
  <2>7. ASSUME NEW t \in Thread, SaveWrite(t) PROVE PairInv'
    <3>1. UNCHANGED <<proc, ans, torn>> /\ Live(t) /\ pc[t] = "save_write"
      BY <2>7, Zenon DEF SaveWrite
    <3>2. CASE Goto(t, "save_rest") /\ outfile' = Append(outfile, <<ans[t], 1>>)
      <4> DEFINE n == Len(outfile)
      <4>0. SUFFICES ASSUME torn = {} PROVE PairInv'
        BY <3>1, Zenon DEF PairInv
      <4>1. <<ans[t], 1>> \in HalfRecord
        BY <2>t DEF HalfRecord
      <4>2. /\ Len(outfile') = n + 1 /\ outfile'[n + 1] = <<ans[t], 1>>
            /\ \A i \in 1..n : outfile'[i] = outfile[i]
            /\ \A i \in 1..(n + 1) : i \in 1..n \/ i = n + 1
        BY <2>app, <3>2, <4>1, Zenon
      <4>3. \A u \in Thread : ~Between(u)
        BY <2>alone, <3>1, <3>2, Zenon DEF Between
      <4>4. n % 2 # 1
        BY <4>0, <4>3, Zenon DEF PairInv
      <4>5. (n + 1) % 2 = 1 /\ ~((n + 1) % 2 = 0)
        BY <1>0, <2>t, <4>4, Zenon
      <4>6. ASSUME NEW i \in 1..(n + 1), i % 2 = 0
            PROVE  outfile'[i - 1] = <<outfile'[i][1], 1>> /\ outfile'[i][2] = 2
        <5>1. i \in 1..n /\ i - 1 \in 1..n
          BY <2>even, <4>2, <4>5, <4>6, Zenon
        <5>2. outfile[i - 1] = <<outfile[i][1], 1>> /\ outfile[i][2] = 2
          BY <4>0, <4>6, <5>1, Zenon DEF PairInv
        <5> QED
          BY <4>2, <5>1, <5>2, Zenon
      <4>7. Between(t)' /\ \A u \in Thread : Between(u)' => u = t
        <5>1. Between(t)'
          BY <2>t, <3>1, <3>2, Zenon DEF Between, Goto, Live
        <5> QED
          BY <2>alone, <3>1, <3>2, <5>1, Zenon
      <4> QED
        BY <3>1, <4>2, <4>5, <4>6, <4>7, Zenon DEF PairInv
    <3>3. CASE Goto(t, "save_unlock") /\ UNCHANGED outfile
      BY <2>move, <3>1, <3>3, Zenon
    <3> QED
      BY <2>7, <3>2, <3>3, Zenon DEF SaveWrite
  <2>8. ASSUME NEW t \in Thread, SaveRest(t) PROVE PairInv'
    <3>1. UNCHANGED <<proc, ans>> /\ Live(t) /\ pc[t] = "save_rest" /\ Goto(t, "save_unlock")
      BY <2>8, Zenon DEF SaveRest
    <3>2. CASE torn' = torn \cup {ans[t]}
      <4>1. torn' # {}
        BY <3>2, Zenon
      <4> QED
        BY <4>1, Zenon DEF PairInv
    <3>3. CASE outfile' = Append(outfile, <<ans[t], 2>>) /\ UNCHANGED torn
      <4> DEFINE n == Len(outfile)
      <4>0. SUFFICES ASSUME torn = {} PROVE PairInv'
        BY <3>3, Zenon DEF PairInv
      <4>1. <<ans[t], 2>> \in HalfRecord /\ <<ans[t], 2>>[1] = ans[t] /\ <<ans[t], 2>>[2] = 2
        BY <2>t DEF HalfRecord
      <4>2. /\ Len(outfile') = n + 1 /\ outfile'[n + 1] = <<ans[t], 2>>
            /\ \A i \in 1..n : outfile'[i] = outfile[i]
            /\ \A i \in 1..(n + 1) : i \in 1..n \/ i = n + 1
        BY <2>app, <3>3, <4>1, Zenon
      <4>3. n % 2 = 1 /\ outfile[n] = <<ans[t], 1>>
        BY <3>1, <4>0, Zenon DEF PairInv, Between
      <4>4. ~((n + 1) % 2 = 1) /\ n \in 1..n /\ n + 1 - 1 = n
        BY <1>0, <2>t, <4>3, Zenon
      <4>5. ASSUME NEW i \in 1..(n + 1), i % 2 = 0
            PROVE  outfile'[i - 1] = <<outfile'[i][1], 1>> /\ outfile'[i][2] = 2
        <5>1. CASE i = n + 1
          <6>1. i - 1 = n
            BY <2>t, <5>1
          <6>2. outfile'[i - 1] = outfile[n]
            BY <4>2, <4>4, <6>1, Zenon
          <6> QED
            BY <4>1, <4>2, <4>3, <5>1, <6>2, Zenon
        <5>2. CASE i \in 1..n
          <6>1. outfile[i - 1] = <<outfile[i][1], 1>> /\ outfile[i][2] = 2 /\ i - 1 \in 1..n
            BY <2>even, <4>0, <4>5, <5>2, Zenon DEF PairInv
          <6> QED
            BY <4>2, <5>2, <6>1, Zenon
        <5> QED
          BY <4>2, <5>1, <5>2, Zenon
      <4>6. \A u \in Thread : ~Between(u)'
        <5>1. ~Between(t)'
          BY <2>t, <3>1, Zenon DEF Between, Goto
        <5> QED
          BY <2>alone, <3>1, <5>1, Zenon
      <4> QED
        BY <4>2, <4>4, <4>5, <4>6, Zenon DEF PairInv
    <3> QED
      BY <2>8, <3>2, <3>3, Zenon DEF SaveRest
  <2>9. ASSUME NEW t \in Thread, NEW u \in Thread, Spawn(t, u) \/ Fork(t, u) PROVE PairInv'
    <3> DEFINE q == ProcOf[u]
    <3>1. /\ UNCHANGED <<ans, outfile, torn>> /\ proc[q] = "off" /\ q \in Proc
          /\ \A p \in Proc : p # q => proc'[p] = proc[p]
          /\ pc' = [pc EXCEPT ![u] = "init_lock"] \/ pc' = [pc EXCEPT ![u] = "idle"]
      BY <2>9, <2>t, Zenon DEF Spawn, Fork, Goto
    <3>2. ASSUME NEW v \in Thread PROVE Between(v)' <=> Between(v)
      <4>1. CASE ProcOf[v] = q
        <5>1. pc'[v] \in {"init_lock", "idle", "off"} /\ pc[v] = "off"
          BY <2>t, <3>1, <4>1, Zenon DEF ProcInv
        <5> QED
          BY <5>1, Zenon DEF Between
      <4>2. CASE ProcOf[v] # q
        <5>1. pc'[v] = pc[v] /\ (Live(v)' <=> Live(v))
          BY <2>t, <3>1, <4>2, Zenon DEF Live
        <5> QED
          BY <5>1, Zenon DEF Between
      <4> QED
        BY <4>1, <4>2, Zenon
    <3> QED
      BY <2>same, <3>1, <3>2, Zenon
  \* A process that dies between its two writes leaves half a record, which torn names.
  <2>10. ASSUME NEW p \in Proc, Die(p) PROVE PairInv'
    <3>1. CASE \E u \in Threads(p) : pc[u] = "save_rest"
      <4>1. torn' # {}
        BY <2>10, <3>1, Zenon DEF Die
      <4> QED
        BY <4>1, Zenon DEF PairInv
    <3>2. CASE \A u \in Threads(p) : pc[u] # "save_rest"
      <4>1. UNCHANGED <<pc, outfile>>
        BY <2>10, Zenon DEF Die
      <4>2. {u \in Threads(p) : pc[u] = "save_rest"} = {}
        BY <3>2, Zenon
      <4>3. torn' = torn
        BY <2>10, <4>2 DEF Die
      <4>4. ASSUME NEW v \in Thread
            PROVE  (Between(v)' <=> Between(v)) /\ (Between(v) => ans'[v] = ans[v])
        <5>1. CASE ProcOf[v] = p
          <6>1. pc[v] # "save_rest"
            BY <3>2, <5>1, Zenon DEF Threads
          <6> QED
            BY <4>1, <6>1, Zenon DEF Between
        <5>2. CASE ProcOf[v] # p
          <6>1. (Live(v)' <=> Live(v)) /\ ans'[v] = ans[v]
            BY <2>t, <2>10, <5>2, Zenon DEF Die, Live, Forget
          <6> QED
            BY <4>1, <6>1, Zenon DEF Between
        <5> QED
          BY <5>1, <5>2, Zenon
      <4> QED
        BY <2>same, <4>1, <4>3, <4>4, Zenon
    <3> QED
      BY <3>1, <3>2, Zenon
  <2>11. CASE Clock \/ UNCHANGED vars
    <3>1. UNCHANGED <<pc, proc, ans, outfile, torn>>
      BY <2>11, Zenon DEF Clock, vars
    <3>2. \A v \in Thread : Between(v)' <=> Between(v)
      BY <3>1, Zenon DEF Between, Live
    <3> QED
      BY <2>same, <3>1, <3>2, Zenon
  <2> QED
    BY <2>1, <2>2, <2>3, <2>4, <2>5, <2>6, <2>7, <2>8, <2>9, <2>10, <2>11, Zenon
    DEF Next, LibraryStep, SaveStep, Exit, Fault
<1>3. OnceInv /\ PairInv => WholeRecords
  BY Zenon DEF OnceInv, PairInv, WholeRecords
<1> QED
  BY <1>1, <1>2, <1>3, <1>once, TypeCorrect, AnswerInvariant, Exclusion, PTL DEF Spec
=============================================================================

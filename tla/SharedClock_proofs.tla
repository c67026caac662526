-------------------------- MODULE SharedClock_proofs --------------------------
(***************************************************************************)
(* What holds in SharedClock whatever the lock, for every number of        *)
(* processes and threads and every configuration: the types, where threads *)
(* are and which answers they have (ProcInv, AnswerInv), that ticking does *)
(* not look at the system clock (TickInv), and that an answer is saved     *)
(* before its call returns (SavedInv).                                     *)
(***************************************************************************)
EXTENDS SharedClockInv, TLAPS

USE ThreadsAssumption, BoundsAssumption DEF ThreadsAssumption, BoundsAssumption

\* Every variable of the library and of the session always has its type.
THEOREM TypeCorrect == Spec => []TypeOK
\* Every step keeps TypeOK.
<1>next. TypeOK /\ [Next]_vars => TypeOK'
  <2> SUFFICES ASSUME TypeOK, [Next]_vars PROVE TypeOK'
    BY Zenon
  <2> USE DEF Move
  \* The system time is a time, and the parts of a function are steps of it.
  <2>now. now \in Instant => Now \in Time
    BY Zenon DEF Now, Time
  <2>label. /\ InitCS \subseteq Step /\ ResetCS \subseteq Step /\ LoadCS \subseteq Step
            /\ TickCS \subseteq Step /\ SaveCS \subseteq Step
            /\ Waiting \subseteq Step /\ Outside \subseteq Step
    BY Zenon DEF Step, CS
  \* What a step leaves alone keeps its type.
  <2>frame. /\ UNCHANGED kernelVars  => KernelType'
            /\ UNCHANGED semVars     => SemType'
            /\ UNCHANGED sharedVars  => SharedType'
            /\ UNCHANGED procVars    => ProcType'
            /\ UNCHANGED configVars  => ConfigType'
            /\ UNCHANGED time_mutex  => (time_mutex \in [Proc -> Thread \cup {NoThread}])'
            /\ UNCHANGED pc          => (pc \in [Thread -> Step])'
            /\ UNCHANGED threadVars  => ThreadType'
            /\ UNCHANGED historyVars => HistoryType'
    <3>1. UNCHANGED kernelVars  => KernelType'
      BY Zenon DEF TypeOK, kernelVars, KernelType
    <3>2. UNCHANGED semVars     => SemType'
      BY Zenon DEF TypeOK, semVars, SemType
    <3>3. UNCHANGED sharedVars  => SharedType'
      BY Zenon DEF TypeOK, sharedVars, SharedType
    <3>4. UNCHANGED procVars    => ProcType'
      BY Zenon DEF TypeOK, procVars, ProcType
    <3>5. UNCHANGED configVars  => ConfigType'
      BY Zenon DEF TypeOK, configVars, ConfigType
    <3>6. UNCHANGED threadVars  => ThreadType'
      BY Zenon DEF TypeOK, threadVars, ThreadType
    <3>7. UNCHANGED historyVars => HistoryType'
      BY Zenon DEF TypeOK, historyVars, HistoryType
    <3> QED
      BY <3>1, <3>2, <3>3, <3>4, <3>5, <3>6, <3>7, Zenon DEF TypeOK
  \* Moving a thread keeps pc well typed.
  <2>move. ASSUME NEW t \in Thread, NEW to \in Step, Goto(t, to)
           PROVE  (pc \in [Thread -> Step])'
    BY <2>move, Zenon DEF TypeOK, Goto
  \* Locking and unlocking keep the lock well typed.
  <2>sem. ASSUME NEW p \in Proc, ft_sem_lock(p) \/ ft_sem_unlock(p)
          PROVE  SemType'
    BY <2>sem DEF TypeOK, ProcType, SemType, ft_sem_lock, ft_sem_unlock
  \* So does a step that does nothing else.
  <2>lock. ASSUME NEW t \in Thread, UNCHANGED allButSem, NEW from, NEW to \in Step,
                  Lock(t, from, to) \/ Unlock(t, from, to)
           PROVE  TypeOK'
    <3>1. (pc \in [Thread -> Step])'
      BY <2>lock, <2>move, Zenon DEF Lock, Unlock, Move
    <3>2. SemType'
      BY <2>lock, <2>sem, Zenon DEF Lock, Unlock
    <3> QED
      BY <2>lock, <2>frame, <3>1, <3>2, Zenon DEF TypeOK, allButSem
  \* A step of system_time_to_shared() keeps the types.
  <2>put. ASSUME NEW t \in Thread, NEW from, NEW to \in Step,
                 PutReal(t, from, to) \/ PutMon(t, from, to)
          PROVE  TypeOK'
    <3>1. SharedType'
      BY <2>put DEF TypeOK, SharedType, ConfigType, PutReal, PutMon, Time
    <3>2. (pc \in [Thread -> Step])'
      BY <2>put, <2>move, Zenon DEF PutReal, PutMon, Move
    <3> QED
      BY <2>put, <2>frame, <3>1, <3>2, Zenon DEF TypeOK, PutReal, PutMon
  \* Appending keeps the type of a sequence.
  <2>append. ASSUME NEW S, NEW s \in Seq(S), NEW e \in S
             PROVE  Append(s, e) \in Seq(S)
    OBVIOUS
  \* A step of write_all() keeps the types of the kernel's variables.
  <2>save. ASSUME NEW t \in Thread, NEW h \in {1, 2}, now' = now,
                  outfile' = outfile \/ outfile' = Append(outfile, <<ans[t], h>>),
                  torn' = torn \/ torn' = torn \cup {ans[t]}
           PROVE  KernelType'
    <3>1. <<ans[t], h>> \in HalfRecord
      BY Zenon DEF TypeOK, ThreadType, HalfRecord
    <3>2. outfile \in Seq(HalfRecord) /\ torn \subseteq Nat /\ now \in Instant
      BY Zenon DEF TypeOK, KernelType
    <3>3. ans[t] \in Nat
      BY Zenon DEF TypeOK, ThreadType
    <3>4. outfile' \in Seq(HalfRecord)
      <4>1. CASE outfile' = outfile
        BY <3>2, <4>1, Zenon
      <4>2. CASE outfile' = Append(outfile, <<ans[t], h>>)
        BY <2>append, <3>1, <3>2, <4>2, Zenon
      <4> QED
        BY <2>save, <4>1, <4>2, Zenon
    <3>5. torn' \subseteq Nat
      BY <2>save, <3>2, <3>3, Zenon
    <3> QED
      BY <2>save, <3>2, <3>4, <3>5, Zenon DEF KernelType
  <2>1. ASSUME NEW t \in Thread, Request(t) PROVE TypeOK'
    <3>1. HistoryType'
      BY <2>1 DEF TypeOK, HistoryType, Request, GetTime, Stat
    <3>2. (pc \in [Thread -> Step])'
      BY <2>1, <2>move, <2>label, Zenon DEF Request, GetTime, Stat, Waiting, Outside
    <3> QED
      BY <2>1, <2>frame, <3>1, <3>2, Zenon DEF TypeOK, Request, GetTime, Stat
  <2>2. ASSUME NEW t \in Thread, InitStep(t) PROVE TypeOK'
    <3>1. CASE InitLock(t)
      BY <2>lock, <3>1, <2>label, Zenon DEF InitLock, InitCS
    <3>2. CASE InitGet(t)
      <4>1. ConfigType'
        BY <3>2, <2>now DEF TypeOK, KernelType, SharedType, ConfigType, InitGet
      <4>2. (pc \in [Thread -> Step])'
        BY <2>move, <3>2, <2>label, Zenon DEF InitGet, InitCS
      <4> QED
        BY <2>frame, <3>2, <4>1, <4>2, Zenon DEF TypeOK, InitGet
    <3>3. CASE PutReal(t, "init_real", "init_mon") \/ PutMon(t, "init_mon", "init_unlock")
      BY <2>put, <3>3, <2>label, Zenon DEF InitCS
    <3>4. CASE InitUnlock(t)
      <4>1. ConfigType'
        BY <3>4, <2>now, ConfigAssumption
        DEF TypeOK, KernelType, ConfigType, InitUnlock, ConfigAssumption
      <4>2. (pc \in [Thread -> Step])'
        BY <2>move, <3>4, <2>label, Zenon DEF TypeOK, InitUnlock, Up, Waiting, Outside
      <4>3. ProcType'
        BY <3>4 DEF TypeOK, ProcType, InitUnlock, Up
      <4>4. SemType'
        BY <2>sem, <3>4, Zenon DEF InitUnlock
      <4> QED
        BY <2>frame, <3>4, <4>1, <4>2, <4>3, <4>4, Zenon DEF TypeOK, InitUnlock
    <3> QED
      BY <2>2, <3>1, <3>2, <3>3, <3>4, Zenon DEF InitStep
  <2>3. ASSUME NEW t \in Thread, ResetStep(t) PROVE TypeOK'
    <3>1. CASE ResetLock(t)
      BY <2>lock, <3>1, <2>label, Zenon DEF ResetLock, ResetCS
    <3>2. CASE PutReal(t, "reset_real", "reset_mon") \/ PutMon(t, "reset_mon", "reset_unlock")
      BY <2>put, <3>2, <2>label, Zenon DEF ResetCS
    <3>3. CASE ResetUnlock(t)
      <4>1. ConfigType'
        BY <3>3, ConfigAssumption, Zenon DEF TypeOK, ConfigType, ResetUnlock, ConfigAssumption
      <4>2. (pc \in [Thread -> Step])'
        BY <2>move, <3>3, <2>label, Zenon DEF TypeOK, ResetUnlock, Up, Outside
      <4>3. ProcType'
        BY <3>3 DEF TypeOK, ProcType, ResetUnlock, Up
      <4>4. SemType'
        BY <2>sem, <3>3, Zenon DEF ResetUnlock
      <4> QED
        BY <2>frame, <3>3, <4>1, <4>2, <4>3, <4>4, Zenon DEF TypeOK, ResetUnlock
    <3> QED
      BY <2>3, <3>1, <3>2, <3>3, Zenon DEF ResetStep
  <2>4. ASSUME NEW t \in Thread, CallStep(t) PROVE TypeOK'
    <3>1. CASE Begin(t)
      <4>1. ConfigType'
        BY <3>1, <2>now DEF TypeOK, KernelType, ConfigType, Begin
      <4>2. (pc \in [Thread -> Step])'
        BY <2>move, <3>1, <2>label, Zenon DEF Begin, Waiting, Outside
      <4>3. (time_mutex \in [Proc -> Thread \cup {NoThread}])'
        BY <3>1, Zenon DEF TypeOK, Begin
      <4>4. ThreadType'
        BY <3>1, Zenon DEF TypeOK, ThreadType, Begin
      <4> QED
        BY <2>frame, <3>1, <4>1, <4>2, <4>3, <4>4, Zenon DEF TypeOK, Begin
    <3>2. CASE Load(t)
      <4>1. (pc \in [Thread -> Step])'
        BY <2>move, <3>2, <2>label, Zenon DEF Load, Waiting, Outside
      <4> QED
        BY <2>frame, <3>2, <4>1, Zenon DEF TypeOK, Load
    <3>3. CASE Mode(t)
      <4>1. (pc \in [Thread -> Step])'
        BY <2>move, <3>3, <2>label, Zenon DEF Mode, Waiting, Outside
      <4>2. ThreadType'
        <5>1. CASE UNCHANGED ans
          BY <3>3, <5>1, Zenon DEF TypeOK, ThreadType, Mode
        <5>2. CASE Serve(t, G!RuleAnswer(ftpl_starttime[ProcOf[t]].real))
          BY <3>3, <5>2 DEF TypeOK, ThreadType, HistoryType, Mode, Serve
        <5> QED
          BY <3>3, <5>1, <5>2, Zenon DEF Mode
      <4>3. G!RuleAnswer(ftpl_starttime[ProcOf[t]].real) \in Answer
        BY DEF TypeOK, ConfigType, G!RuleAnswer, Time, Instant, Answer
      <4>4. HistoryType'
        BY <3>3, <4>3 DEF TypeOK, HistoryType, Mode, Serve
      <4> QED
        BY <2>frame, <3>3, <4>1, <4>2, <4>4, Zenon DEF TypeOK, Mode
    <3>4. CASE Release(t)
      <4>1. (pc \in [Thread -> Step])'
        BY <2>move, <3>4, <2>label, Zenon DEF Release, Return, Waiting, Outside
      <4>2. ThreadType'
        BY <3>4 DEF TypeOK, ThreadType, Release, Return
      <4>3. (time_mutex \in [Proc -> Thread \cup {NoThread}])'
        BY <3>4, Zenon DEF TypeOK, Release
      <4> QED
        BY <2>frame, <3>4, <4>1, <4>2, <4>3, Zenon DEF TypeOK, Release
    <3> QED
      BY <2>4, <3>1, <3>2, <3>3, <3>4, Zenon DEF CallStep
  <2>5. ASSUME NEW t \in Thread, LoadStep(t) PROVE TypeOK'
    <3>1. CASE LoadLock(t)
      BY <2>lock, <3>1, <2>label, Zenon DEF LoadLock, LoadCS
    <3>2. CASE LoadIdx(t)
      <4>1. (pc \in [Thread -> Step])'
        BY <2>move, <3>2, <2>label, Zenon DEF LoadIdx, LoadCS
      <4>2. ThreadType'
        BY <3>2 DEF TypeOK, SharedType, ThreadType, LoadIdx
      <4> QED
        BY <2>frame, <3>2, <4>1, <4>2, Zenon DEF TypeOK, LoadIdx
    <3>3. CASE LoadTake(t)
      <4>1. (pc \in [Thread -> Step])'
        BY <2>move, <3>3, <2>label, Zenon DEF LoadTake, LoadCS
      <4>2. ThreadType'
        BY <3>3 DEF TypeOK, ThreadType, HistoryType, LoadTake, Serve
      <4>3. SharedType'
        BY <3>3 DEF TypeOK, SharedType, ThreadType, LoadTake
      <4>4. HistoryType'
        BY <3>3 DEF TypeOK, ThreadType, HistoryType, Answer, LoadTake, Serve, G!FileAnswer
      <4> QED
        BY <2>frame, <3>3, <4>1, <4>2, <4>3, <4>4, Zenon DEF TypeOK, LoadTake
    <3>4. CASE LoadTicks(t)
      <4>1. ConfigType'
        BY <3>4 DEF TypeOK, SharedType, ConfigType, LoadTicks
      <4>2. (pc \in [Thread -> Step])'
        BY <2>move, <3>4, <2>label, Zenon DEF LoadTicks, LoadCS
      <4> QED
        BY <2>frame, <3>4, <4>1, <4>2, Zenon DEF TypeOK, LoadTicks
    <3>5. CASE LoadOne(t)
      <4>1. ConfigType'
        BY <3>5, <2>now, Zenon DEF TypeOK, KernelType, ConfigType, LoadOne
      <4>2. (pc \in [Thread -> Step])'
        BY <2>move, <3>5, <2>label, Zenon DEF LoadOne, LoadCS
      <4>3. SharedType'
        BY <3>5, Zenon DEF TypeOK, SharedType, LoadOne
      <4> QED
        BY <2>frame, <3>5, <4>1, <4>2, <4>3, Zenon DEF TypeOK, LoadOne
    <3>6. CASE PutReal(t, "load_real", "load_mon") \/ PutMon(t, "load_mon", "load_unset")
      BY <2>put, <3>6, <2>label, Zenon DEF LoadCS
    <3>7. CASE LoadUnset(t)
      <4>1. ConfigType'
        BY <3>7, Zenon DEF TypeOK, ConfigType, LoadUnset
      <4>2. (pc \in [Thread -> Step])'
        BY <2>move, <3>7, <2>label, Zenon DEF LoadUnset, LoadCS
      <4> QED
        BY <2>frame, <3>7, <4>1, <4>2, Zenon DEF TypeOK, LoadUnset
    <3>8. CASE LoadUnlock(t)
      BY <2>lock, <3>8, <2>label, Zenon DEF LoadUnlock, Outside
    <3> QED
      BY <2>5, <3>1, <3>2, <3>3, <3>4, <3>5, <3>6, <3>7, <3>8, Zenon DEF LoadStep
  <2>6. ASSUME NEW t \in Thread, TickStep(t) PROVE TypeOK'
    <3>1. CASE TickLock(t)
      BY <2>lock, <3>1, <2>label, Zenon DEF TickLock, TickCS
    <3>2. CASE TickRead(t)
      <4>1. (pc \in [Thread -> Step])'
        BY <2>move, <3>2, <2>label, Zenon DEF TickRead, TickCS
      <4>2. ThreadType'
        BY <3>2, Zenon DEF TypeOK, SharedType, ThreadType, TickRead
      <4> QED
        BY <2>frame, <3>2, <4>1, <4>2, Zenon DEF TypeOK, TickRead
    <3>3. CASE TickInc(t)
      <4>1. (pc \in [Thread -> Step])'
        BY <2>move, <3>3, <2>label, Zenon DEF TickInc, TickCS
      <4>2. ThreadType'
        BY <3>3 DEF TypeOK, ThreadType, HistoryType, TickInc, Serve
      <4>3. SharedType'
        BY <3>3 DEF TypeOK, SharedType, ThreadType, TickInc
      <4>4. HistoryType'
        BY <3>3 DEF TypeOK, ThreadType, HistoryType, Answer, TickInc, Serve, G!TickAnswer
      <4> QED
        BY <2>frame, <3>3, <4>1, <4>2, <4>3, <4>4, Zenon DEF TypeOK, TickInc
    <3>4. CASE TickUnlock(t)
      BY <2>lock, <3>4, <2>label, Zenon DEF TickUnlock, Outside
    <3> QED
      BY <2>6, <3>1, <3>2, <3>3, <3>4 DEF TickStep
  <2>7. ASSUME NEW t \in Thread, SaveStep(t) PROVE TypeOK'
    <3>1. CASE SaveLock(t)
      BY <2>lock, <3>1, <2>label, Zenon DEF SaveLock, SaveCS
    <3>2. CASE SaveWrite(t)
      <4>1. (pc \in [Thread -> Step])'
        BY <2>move, <3>2, <2>label, Zenon DEF SaveWrite, SaveCS
      <4>2. /\ now' = now
            /\ outfile' = outfile \/ outfile' = Append(outfile, <<ans[t], 1>>)
            /\ torn' = torn \/ torn' = torn \cup {ans[t]}
        BY <3>2, Zenon DEF SaveWrite
      <4>3. KernelType'
        BY <2>save, <4>2, Zenon
      <4> QED
        BY <2>frame, <3>2, <4>1, <4>3, Zenon DEF TypeOK, SaveWrite
    <3>3. CASE SaveRest(t)
      <4>1. (pc \in [Thread -> Step])'
        BY <2>move, <3>3, <2>label, Zenon DEF SaveRest, SaveCS
      <4>2. /\ now' = now
            /\ outfile' = outfile \/ outfile' = Append(outfile, <<ans[t], 2>>)
            /\ torn' = torn \/ torn' = torn \cup {ans[t]}
        BY <3>3, Zenon DEF SaveRest
      <4>3. KernelType'
        BY <2>save, <4>2, Zenon
      <4> QED
        BY <2>frame, <3>3, <4>1, <4>3, Zenon DEF TypeOK, SaveRest
    <3>4. CASE SaveUnlock(t)
      <4>1. (pc \in [Thread -> Step])'
        BY <2>move, <3>4, <2>label, Zenon DEF SaveUnlock, Return, Outside
      <4>2. ThreadType'
        BY <3>4 DEF TypeOK, ThreadType, SaveUnlock, Return
      <4>3. SemType'
        BY <2>sem, <3>4, Zenon DEF SaveUnlock
      <4> QED
        BY <2>frame, <3>4, <4>1, <4>2, <4>3, Zenon DEF TypeOK, SaveUnlock
    <3> QED
      BY <2>7, <3>1, <3>2, <3>3, <3>4 DEF SaveStep
  <2>8. ASSUME NEW t \in Thread, StatStep(t) PROVE TypeOK'
    <3>1. CASE StatLock(t)
      BY <2>lock, <3>1, <2>label, Zenon DEF StatLock, Outside
    <3>2. CASE StatClear(t)
      <4>1. (pc \in [Thread -> Step])'
        BY <2>move, <3>2, <2>label, Zenon DEF StatClear, Outside
      <4>2. ConfigType'
        BY <3>2, Zenon DEF TypeOK, ConfigType, StatClear
      <4>3. ThreadType'
        BY <3>2 DEF TypeOK, ThreadType, StatClear
      <4> QED
        BY <2>frame, <3>2, <4>1, <4>2, <4>3, Zenon DEF TypeOK, StatClear
    <3>3. CASE StatRestore(t)
      <4>1. (pc \in [Thread -> Step])'
        BY <2>move, <3>3, <2>label, Zenon DEF StatRestore, Outside
      <4>2. ConfigType'
        BY <3>3, Zenon DEF TypeOK, ConfigType, StatRestore
      <4> QED
        BY <2>frame, <3>3, <4>1, <4>2, Zenon DEF TypeOK, StatRestore
    <3>4. CASE StatUnlock(t)
      BY <2>lock, <3>4, <2>label, Zenon DEF StatUnlock, Outside
    <3> QED
      BY <2>8, <3>1, <3>2, <3>3, <3>4 DEF StatStep
  <2>9. ASSUME NEW t \in Thread, NEW u \in Thread, Spawn(t, u) PROVE TypeOK'
    <3>1. (pc \in [Thread -> Step])'
      BY <2>9, <2>move, <2>label, Zenon DEF Spawn, Waiting
    <3>2. ProcType'
      BY <2>9 DEF TypeOK, ProcType, Spawn
    <3> QED
      BY <2>9, <2>frame, <3>1, <3>2, Zenon DEF TypeOK, Spawn
  <2>10. ASSUME NEW t \in Thread, NEW u \in Thread, Fork(t, u) PROVE TypeOK'
    <3>1. (pc \in [Thread -> Step])'
      BY <2>10, <2>move, <2>label, Zenon DEF Fork, Outside
    <3>2. ProcType'
      BY <2>10, Zenon DEF TypeOK, ProcType, Fork
    <3>3. ConfigType'
      BY <2>10, Zenon DEF TypeOK, ConfigType, Fork
    <3>4. (time_mutex \in [Proc -> Thread \cup {NoThread}])'
      BY <2>10, Zenon DEF TypeOK, Fork
    <3> QED
      BY <2>10, <2>frame, <3>1, <3>2, <3>3, <3>4, Zenon DEF TypeOK, Fork
  <2>11. ASSUME NEW p \in Proc, Die(p) PROVE TypeOK'
    <3>1. ConfigType'
      BY <2>11, Zenon DEF TypeOK, ConfigType, Die, NoTime, Time
    <3>2. torn' \subseteq Nat
      <4>1. \A t \in Thread : ans[t] \in Nat
        BY Zenon DEF TypeOK, ThreadType
      <4> QED
        BY <2>11, <4>1, ZenonT(20) DEF TypeOK, KernelType, Die, Threads
    <3>3. KernelType'
      BY <2>11, <3>2, Zenon DEF TypeOK, KernelType, Die
    <3>4. ThreadType'
      BY <2>11 DEF TypeOK, ThreadType, Die, Forget
    <3>5. ProcType' /\ SemType'
      BY <2>11, Zenon DEF TypeOK, ProcType, SemType, Die
    <3>6. (time_mutex \in [Proc -> Thread \cup {NoThread}])'
      BY <2>11, Zenon DEF TypeOK, Die
    <3> QED
      BY <2>11, <2>frame, <3>1, <3>3, <3>4, <3>5, <3>6, Zenon DEF TypeOK, Die
  <2>12. CASE Clock
    <3>1. KernelType'
      BY <2>12 DEF TypeOK, KernelType, Clock, Instant
    <3> QED
      BY <2>12, <2>frame, <3>1, Zenon DEF TypeOK, Clock
  <2>13. CASE UNCHANGED vars
    BY <2>13, <2>frame, Zenon DEF TypeOK, vars
  <2> QED
    BY <2>1, <2>2, <2>3, <2>4, <2>5, <2>6, <2>7, <2>8, <2>9, <2>10, <2>11, <2>12, <2>13, Zenon
    DEF Next, LibraryStep, Exit, Fault
<1>1. ASSUME Init PROVE TypeOK
  <2>1. SharedType /\ ConfigType
    BY <1>1 DEF Init, SharedType, ConfigType, Time, NoTime, Unset
  <2>2. KernelType /\ HistoryType
    BY <1>1 DEF Init, KernelType, HistoryType, Instant
  <2>3. pc \in [Thread -> Step]
    BY <1>1, Zenon DEF Init, Step, Waiting, Outside
  <2>4. SemType /\ ProcType /\ ThreadType
    BY <1>1 DEF Init, SemType, ProcType, ThreadType
  <2> QED
    BY <1>1, <2>1, <2>2, <2>3, <2>4, Zenon DEF Init, TypeOK
<1> QED
  BY <1>1, <1>next, PTL DEF Spec
-----------------------------------------------------------------------------
(* Where threads are, and their answers *)

\* An answer is fixed by Mode, TickInc or LoadTake and stays the answer of the
\* call until the thread begins the next one.
LEMMA AnswerInvariant == Spec => [](ProcInv /\ AnswerInv)
\* Every step keeps ProcInv: threads run only once ftpl_init() is over.
<1>proc. TypeOK /\ ProcInv /\ [Next]_vars => ProcInv'
  <2> SUFFICES ASSUME TypeOK, ProcInv, [Next]_vars PROVE ProcInv'
    BY Zenon
  <2> USE DEF Move, procVars
  \* Every step of the library moves one thread, and keeps to its phase.
  <2>move. ASSUME NEW t \in Thread, NEW to, Live(t), Goto(t, to), UNCHANGED proc,
                  to \in InitPhase \/ pc[t] \notin InitPhase \/ proc[ProcOf[t]] = "up",
                  to \in {"init_lock"} \cup InitCS => pc[t] \in {"init_lock"} \cup InitCS
           PROVE  ProcInv'
    BY <2>move, Zenon DEF TypeOK, ProcInv, ProcType, Live, Goto, InitPhase, InitCS, ResetCS
  \* The end of the initialisation of a process keeps ProcInv.
  <2>up. ASSUME NEW t \in Thread, Up(t)
         PROVE  ProcInv'
    BY <2>up, Zenon DEF TypeOK, ProcInv, ProcType, Up, InitCS
  <2>1. ASSUME NEW t \in Thread, Request(t) PROVE ProcInv'
    BY <2>1, <2>move, Zenon DEF Request, GetTime, Stat, InitCS
  <2>2. ASSUME NEW t \in Thread, InitStep(t) PROVE ProcInv'
    <3> USE DEF InitPhase, InitCS
    <3>1. CASE InitLock(t) \/ InitGet(t)
      BY <2>move, <3>1, Zenon DEF InitLock, InitGet, Lock, allButSem
    <3>2. CASE PutReal(t, "init_real", "init_mon") \/ PutMon(t, "init_mon", "init_unlock")
      BY <2>move, <3>2, Zenon DEF PutReal, PutMon
    <3>3. CASE InitUnlock(t)
      BY <2>move, <2>up, <3>3, Zenon DEF InitUnlock
    <3> QED
      BY <2>2, <3>1, <3>2, <3>3, Zenon DEF InitStep
  <2>3. ASSUME NEW t \in Thread, ResetStep(t) PROVE ProcInv'
    <3> USE DEF InitPhase, ResetCS, InitCS
    <3>1. CASE ResetLock(t)
      BY <2>move, <3>1, Zenon DEF ResetLock, Lock, allButSem
    <3>2. CASE PutReal(t, "reset_real", "reset_mon") \/ PutMon(t, "reset_mon", "reset_unlock")
      BY <2>move, <3>2, Zenon DEF PutReal, PutMon
    <3>3. CASE ResetUnlock(t)
      BY <2>move, <2>up, <3>3, Zenon DEF ResetUnlock
    <3> QED
      BY <2>3, <3>1, <3>2, <3>3, Zenon DEF ResetStep
  <2>4. ASSUME NEW t \in Thread, CallStep(t) PROVE ProcInv'
    BY <2>4, <2>move, Zenon
    DEF CallStep, Begin, Load, Mode, Release, Return, InitPhase, InitCS, ResetCS
  <2>5. ASSUME NEW t \in Thread, LoadStep(t) PROVE ProcInv'
    BY <2>5, <2>move, Zenon
    DEF LoadStep, LoadLock, LoadIdx, LoadTake, LoadTicks, LoadOne, PutReal, PutMon,
        LoadUnset, LoadUnlock, Lock, Unlock, allButSem, InitPhase, InitCS, ResetCS
  <2>6. ASSUME NEW t \in Thread, TickStep(t) PROVE ProcInv'
    BY <2>6, <2>move, Zenon
    DEF TickStep, TickLock, TickRead, TickInc, TickUnlock, Lock, Unlock, allButSem,
        InitPhase, InitCS, ResetCS
  <2>7. ASSUME NEW t \in Thread, SaveStep(t) PROVE ProcInv'
    BY <2>7, <2>move, Zenon
    DEF SaveStep, SaveLock, SaveWrite, SaveRest, SaveUnlock, Return, Lock, allButSem,
        InitPhase, InitCS, ResetCS
  <2>8. ASSUME NEW t \in Thread, StatStep(t) PROVE ProcInv'
    BY <2>8, <2>move, Zenon
    DEF StatStep, StatLock, StatClear, StatRestore, StatUnlock, Lock, Unlock, allButSem,
        InitPhase, InitCS, ResetCS
  <2>9. ASSUME NEW t \in Thread, NEW u \in Thread, Spawn(t, u) \/ Fork(t, u) PROVE ProcInv'
    BY <2>9 DEF TypeOK, ProcType, ProcInv, Spawn, Fork, Goto, InitPhase, InitCS
  <2>10. ASSUME NEW p \in Proc, Die(p) PROVE ProcInv'
    BY <2>10, Zenon DEF TypeOK, ProcType, ProcInv, Die
  <2>11. CASE Clock \/ UNCHANGED vars
    BY <2>11, Zenon DEF ProcInv, Clock, vars
  <2> QED
    BY <2>1, <2>2, <2>3, <2>4, <2>5, <2>6, <2>7, <2>8, <2>9, <2>10, <2>11, Zenon
    DEF Next, LibraryStep, Exit, Fault
<1>1. ASSUME Init PROVE ProcInv /\ AnswerInv
  <2>1. ProcInv
    BY <1>1 DEF Init, ProcInv, InitPhase
  <2>2. /\ \A t \in Thread : pc[t] \in {"off", "init_lock"} /\ ans[t] = 0 /\ fields[t] = 0
        /\ Len(served) = 0
    BY <1>1 DEF Init
  <2>3. 0 \in 0..0 /\ ~(0 > 0)
    OBVIOUS
  <2> QED
    BY <2>1, <2>2, <2>3, Zenon
    DEF AnswerInv, AnswerOf, NoAnswer, HasAnswer, ResetCS, LoadCS, SaveCS
<1>2. ASSUME TypeOK, ProcInv, AnswerInv, [Next]_vars PROVE AnswerInv'
  <2> USE <1>2 DEF Move, Lock, Unlock, procVars, threadVars, historyVars, allButSem
  <2>t. /\ pc \in [Thread -> Step] /\ proc \in [Proc -> {"off", "init", "up", "dead"}]
        /\ ans \in [Thread -> Nat] /\ fields \in [Thread -> 0..StatFields]
        /\ served \in Seq(Answer) /\ Len(served) \in Nat
    BY DEF TypeOK, ProcType, ThreadType, HistoryType
  <2>a. \A t \in Thread : AnswerOf(t)
    BY Zenon DEF AnswerInv
  \* The answers served so far stay.
  <2>app. ASSUME NEW a, served' = Append(served, a)
          PROVE  /\ Len(served') = Len(served) + 1 /\ served'[Len(served) + 1] = a
                 /\ \A i \in 0..Len(served) : /\ i \in 0..Len(served')
                                              /\ i > 0 => served'[i] = served[i]
    <3>1. served \in Seq(Answer)
      BY <2>t
    <3> QED
      BY <2>app, <3>1
  \* The answers of threads that a step does not move.
  <2>other. ASSUME NEW u \in Thread, pc'[u] = pc[u], ans'[u] = ans[u], fields'[u] = fields[u],
                   proc'[ProcOf[u]] = proc[ProcOf[u]],
                   served' = served \/ \E a : served' = Append(served, a)
            PROVE  AnswerOf(u)'
    <3>1. AnswerOf(u) /\ (Live(u)' <=> Live(u))
      BY <2>a, <2>other, Zenon DEF Live
    <3>2. ans[u] \in 0..Len(served')  /\ (ans[u] > 0 => served'[ans[u]] = served[ans[u]])
      BY <2>app, <2>other, <3>1, Zenon DEF AnswerOf
    <3>3. pc[u] = "tick_unlock" => pc[u] \in HasAnswer
      BY Zenon DEF HasAnswer
    <3> QED
      BY <2>other, <3>1, <3>2, <3>3, Zenon DEF AnswerOf
  <2>one. ASSUME NEW t \in Thread, NEW to, Goto(t, to), UNCHANGED proc,
                 served' = served \/ \E a : served' = Append(served, a),
                 \A u \in Thread \ {t} : ans'[u] = ans[u] /\ fields'[u] = fields[u],
                 AnswerOf(t)'
          PROVE  AnswerInv'
    <3>1. ASSUME NEW u \in Thread, u # t PROVE AnswerOf(u)'
      <4>1. pc'[u] = pc[u] /\ proc'[ProcOf[u]] = proc[ProcOf[u]]
        BY <2>t, <2>one, <3>1, Zenon DEF Goto
      <4> QED
        BY <2>one, <2>other, <3>1, <4>1, Zenon
    <3> QED
      BY <2>one, <3>1, Zenon DEF AnswerInv
  \* A step that fixes no answer.
  <2>stay. ASSUME NEW t \in Thread, NEW to, Goto(t, to), Live(t), UNCHANGED <<proc, ans, served>>,
                  \A u \in Thread \ {t} : fields'[u] = fields[u],
                  fields'[t] = fields[t] \/ proc[ProcOf[t]] # "init",
                  to \in NoAnswer => ans[t] = 0,
                  to \in HasAnswer => ans[t] > 0,
                  to # "tick_unlock", to = "load_unlock" => ans[t] = 0
           PROVE  AnswerInv'
    <3>1. AnswerOf(t) /\ (Live(t)' <=> Live(t)) /\ pc'[t] = to
      BY <2>t, <2>a, <2>stay, Zenon DEF Live, Goto
    <3>2. ~(0 > 0)
      OBVIOUS
    <3>3. proc[ProcOf[t]] # "off"
      BY <2>stay, Zenon DEF Live
    <3>4. AnswerOf(t)'
      BY <2>stay, <3>1, <3>2, <3>3, Zenon DEF AnswerOf
    <3> QED
      BY <2>stay, <2>one, <3>4, Zenon
  \* A step that fixes one.
  <2>serve. ASSUME NEW t \in Thread, NEW to, NEW a, Goto(t, to), Live(t), Serve(t, a),
                   UNCHANGED <<proc, fields>>, pc[t] \notin InitPhase,
                   to \in {"release", "tick_unlock", "load_unlock"},
                   to = "tick_unlock" => a.kind = "tick", to = "load_unlock" => a.kind = "file"
            PROVE  AnswerInv'
    <3>1. /\ ans'[t] = Len(served) + 1 /\ served' = Append(served, a)
          /\ \A u \in Thread \ {t} : ans'[u] = ans[u]
      BY <2>t, <2>serve, Zenon DEF Serve
    <3>2. /\ ans'[t] = Len(served') /\ ans'[t] > 0 /\ ans'[t] \in 0..Len(served')
          /\ served'[ans'[t]] = a
      BY <2>t, <2>app, <3>1
    <3>3. pc'[t] = to /\ proc'[ProcOf[t]] \notin {"off", "init"}
      BY <2>t, <2>serve, Zenon DEF Live, Goto, ProcInv
    <3>4. to \notin NoAnswer
      BY <2>serve, Zenon DEF NoAnswer, ResetCS, LoadCS
    <3>5. AnswerOf(t)'
      BY <2>serve, <3>2, <3>3, <3>4, Zenon DEF AnswerOf
    <3> QED
      BY <2>serve, <2>one, <3>1, <3>5, Zenon
  \* Where a thread has no answer, has one, or neither.
  <2>no. ASSUME NEW t \in Thread, Live(t), pc[t] \in NoAnswer \cup {"init_lock"} \cup InitCS
         PROVE  ans[t] = 0
    <3>1. CASE pc[t] \in NoAnswer
      BY <2>a, <2>no, <3>1, Zenon DEF AnswerOf
    <3>2. CASE pc[t] \in {"init_lock"} \cup InitCS
      BY <2>a, <2>no, <3>2, Zenon DEF AnswerOf, ProcInv, Live
    <3> QED
      BY <2>no, <3>1, <3>2, Zenon
  <2>has. ASSUME NEW t \in Thread, Live(t), pc[t] \in HasAnswer
          PROVE  ans[t] > 0
    BY <2>a, <2>has, Zenon DEF AnswerOf
  <2>plain. ASSUME NEW to, to \in {"begin", "idle", "stat_lock"} \cup StatCS
            PROVE  /\ to \notin NoAnswer /\ to \notin HasAnswer
                   /\ to # "tick_unlock" /\ to # "load_unlock"
    BY <2>plain, Zenon DEF NoAnswer, HasAnswer, ResetCS, LoadCS, SaveCS, StatCS
  <2>early. ASSUME NEW to, to \in NoAnswer \cup InitCS
            PROVE  to \notin HasAnswer /\ to # "tick_unlock"
    BY <2>early, Zenon DEF NoAnswer, HasAnswer, InitCS, ResetCS, LoadCS, SaveCS
  <2>late. ASSUME NEW to, to \in {"release", "save_lock"} \cup SaveCS
           PROVE  to \in HasAnswer /\ to \notin NoAnswer /\ to # "tick_unlock" /\ to # "load_unlock"
    BY <2>late, Zenon DEF NoAnswer, HasAnswer, ResetCS, LoadCS, SaveCS
  <2>1. ASSUME NEW t \in Thread, Request(t) PROVE AnswerInv'
    <3>1. PICK to \in {"begin", "stat_lock"} : Goto(t, to)
      BY <2>1, Zenon DEF Request, GetTime, Stat
    <3> QED
      BY <2>1, <2>stay, <2>plain, <3>1, Zenon DEF Request, GetTime, Stat
  \* Initialisation and reset_time(), and the end of the initialisation.
  <2>2. ASSUME NEW t \in Thread, InitStep(t) \/ ResetStep(t), ~Up(t) PROVE AnswerInv'
    <3>1. /\ UNCHANGED <<proc, ans, fields, served>> /\ Live(t)
          /\ pc[t] \in NoAnswer \cup {"init_lock"} \cup InitCS
      BY <2>2, Zenon DEF InitStep, ResetStep, InitLock, InitGet, PutReal, PutMon, InitUnlock,
         ResetLock, ResetUnlock, NoAnswer, InitCS, ResetCS
    <3>2. PICK to \in (NoAnswer \ LoadCS) \cup InitCS : Goto(t, to)
      BY <2>2, Zenon DEF InitStep, ResetStep, InitLock, InitGet, PutReal, PutMon, InitUnlock,
         ResetLock, ResetUnlock, NoAnswer, InitCS, ResetCS, LoadCS
    <3>3. ans[t] = 0
      BY <2>no, <3>1, Zenon
    <3> QED
      BY <2>stay, <2>early, <3>1, <3>2, <3>3, Zenon
  <2>3. ASSUME NEW t \in Thread, InitStep(t) \/ ResetStep(t), Up(t) PROVE AnswerInv'
    <3>1. UNCHANGED <<ans, fields, served>> /\ proc[ProcOf[t]] = "init"
      <4>1. \/ InitUnlock(t) \/ ResetUnlock(t)
            \/ Live(t) /\ UNCHANGED proc /\ pc'[t] # "idle"
        BY <2>3, <2>t, Zenon DEF InitStep, ResetStep, InitLock, InitGet, PutReal, PutMon,
           ResetLock, Goto
      <4>2. pc'[t] = "idle"
        BY <2>3, Zenon DEF Up
      <4>3. CASE InitUnlock(t)
        BY <4>3, Zenon DEF InitUnlock, Live, ProcInv, InitCS
      <4>4. CASE ResetUnlock(t)
        <5>1. ~Goto(t, "load")
          BY <2>t, <4>2, Zenon DEF Goto
        <5> QED
          BY <4>4, <5>1, Zenon DEF ResetUnlock
      <4> QED
        BY <4>1, <4>2, <4>3, <4>4, Zenon
    <3>2. ASSUME NEW u \in Thread PROVE AnswerOf(u)'
      <4>1. CASE ProcOf[u] = ProcOf[t]
        <5>1. ans'[u] = 0 /\ fields'[u] = 0 /\ pc'[u] = "idle" /\ ans'[u] \in 0..Len(served')
          BY <2>a, <2>3, <3>1, <4>1, Zenon DEF AnswerOf, Up
        <5> QED
          BY <2>plain, <5>1, Zenon DEF AnswerOf
      <4>2. CASE ProcOf[u] # ProcOf[t]
        BY <2>t, <2>other, <2>3, <3>1, <4>2, Zenon DEF Up
      <4> QED
        BY <4>1, <4>2, Zenon
    <3> QED
      BY <3>2, Zenon DEF AnswerInv
  <2>4. ASSUME NEW t \in Thread, Begin(t) PROVE AnswerInv'
    <3>1. /\ UNCHANGED <<proc, fields, served>> /\ Live(t) /\ ans'[t] = 0
          /\ \A u \in Thread \ {t} : ans'[u] = ans[u]
      BY <2>t, <2>4, Zenon DEF Begin
    <3>2. PICK to \in {"load", "reset_lock"} : Goto(t, to)
      BY <2>4, Zenon DEF Begin
    <3>3. pc'[t] = to /\ 0 \in 0..Len(served) /\ to \notin HasAnswer
      BY <2>t, <3>2 DEF Goto, HasAnswer, SaveCS
    <3>4. AnswerOf(t)'
      BY <2>a, <3>1, <3>2, <3>3, ~(0 > 0), Zenon DEF AnswerOf, Live
    <3> QED
      BY <2>one, <3>1, <3>2, <3>4, Zenon
  \* Steps before the answer is fixed.
  <2>5. ASSUME NEW t \in Thread, NEW to \in NoAnswer \cup {"load_unlock"}, Goto(t, to), Live(t),
               pc[t] \in NoAnswer, UNCHANGED <<proc, ans, fields, served>>
        PROVE  AnswerInv'
    <3>1. ans[t] = 0
      BY <2>5, <2>no, Zenon
    <3>2. to \notin HasAnswer /\ to # "tick_unlock"
      BY <2>early, <2>5, Zenon DEF HasAnswer, SaveCS
    <3> QED
      BY <2>stay, <2>5, <3>1, <3>2, Zenon
  \* Steps after it.
  <2>6. ASSUME NEW t \in Thread, NEW to \in {"release", "save_lock"} \cup SaveCS, Goto(t, to), Live(t),
               pc[t] \in HasAnswer, UNCHANGED <<proc, ans, fields, served>>
        PROVE  AnswerInv'
    <3>1. ans[t] > 0
      BY <2>6, <2>has, Zenon
    <3> QED
      BY <2>stay, <2>6, <2>late, <3>1, Zenon
  \* The return from a call.
  <2>7. ASSUME NEW t \in Thread, Return(t), Live(t), pc[t] \notin InitPhase,
               UNCHANGED <<proc, ans, served>>
        PROVE  AnswerInv'
    <3>1. PICK to \in {"begin", "idle", "stat_restore"} : Goto(t, to)
      BY <2>7, Zenon DEF Return
    <3>2. proc[ProcOf[t]] # "init" /\ \A u \in Thread \ {t} : fields'[u] = fields[u]
      BY <2>t, <2>7, Zenon DEF Return, ProcInv
    <3> QED
      BY <2>stay, <2>7, <2>plain, <3>1, <3>2, Zenon DEF StatCS
  <2>8. ASSUME NEW t \in Thread, Load(t) \/ Mode(t) \/ Release(t) PROVE AnswerInv'
    <3>1. CASE Load(t)
      BY <2>5, <3>1, Zenon DEF Load, NoAnswer
    <3>2. CASE Mode(t) /\ UNCHANGED <<ans, served>>
      <4>1. Goto(t, "tick_lock") \/ Goto(t, "release")
        BY <3>2, Zenon DEF Mode
      <4>2. ~Serve(t, G!RuleAnswer(ftpl_starttime[ProcOf[t]].real))
        BY <2>t, <2>app, <3>2 DEF Serve
      <4>3. Goto(t, "tick_lock")
        BY <3>2, <4>2, Zenon DEF Mode
      <4> QED
        BY <2>5, <3>2, <4>3, Zenon DEF Mode, NoAnswer
    <3>3. CASE Mode(t) /\ Goto(t, "release") /\ Serve(t, G!RuleAnswer(ftpl_starttime[ProcOf[t]].real))
      <4>1. pc[t] \notin InitPhase /\ Live(t) /\ UNCHANGED <<proc, fields>>
        BY <3>3, Zenon DEF Mode, InitPhase, InitCS, ResetCS
      <4> QED
        BY <2>serve, <3>3, <4>1, Zenon
    <3>4. CASE Release(t)
      <4>1. Live(t) /\ pc[t] = "release" /\ UNCHANGED <<proc, ans, served>>
        BY <3>4, Zenon DEF Release
      <4>2. pc[t] \notin InitPhase /\ pc[t] \in HasAnswer
        BY <4>1, Zenon DEF InitPhase, InitCS, ResetCS, HasAnswer
      <4>3. CASE Goto(t, "save_lock") /\ UNCHANGED fields
        BY <2>6, <4>1, <4>2, <4>3, Zenon
      <4>4. CASE Return(t)
        BY <2>7, <4>1, <4>2, <4>4, Zenon
      <4> QED
        BY <3>4, <4>3, <4>4, Zenon DEF Release
    <3> QED
      BY <2>8, <3>1, <3>2, <3>3, <3>4, Zenon DEF Mode
  <2>9. ASSUME NEW t \in Thread, LoadStep(t) PROVE AnswerInv'
    <3>1. CASE LoadLock(t) \/ LoadIdx(t) \/ LoadTicks(t) \/ LoadOne(t) \/ LoadUnset(t)
      BY <2>5, <3>1, Zenon DEF LoadLock, LoadIdx, LoadTicks, LoadOne, LoadUnset, NoAnswer, LoadCS
    <3>2. CASE PutReal(t, "load_real", "load_mon") \/ PutMon(t, "load_mon", "load_unset")
      BY <2>5, <3>2, Zenon DEF PutReal, PutMon, NoAnswer, LoadCS
    <3>3. CASE LoadTake(t)
      <4>1. /\ Goto(t, "load_unlock") /\ Live(t) /\ Serve(t, G!FileAnswer(reg[t]))
            /\ UNCHANGED <<proc, fields>> /\ pc[t] \notin InitPhase
        BY <3>3, Zenon DEF LoadTake, InitPhase, InitCS, ResetCS
      <4>2. G!FileAnswer(reg[t]).kind = "file"
        BY Zenon DEF G!FileAnswer
      <4> QED
        BY <2>serve, <4>1, <4>2, Zenon
    <3>4. CASE LoadUnlock(t)
      <4>1. /\ Live(t) /\ UNCHANGED <<proc, ans, fields, served>>
            /\ IF ans[t] > 0 THEN Goto(t, "release") ELSE Goto(t, "mode")
        BY <3>4, Zenon DEF LoadUnlock
      <4>2. ~(ans[t] > 0) => ans[t] = 0
        BY <2>t
      <4>3. "mode" \notin HasAnswer
        BY Zenon DEF HasAnswer, SaveCS
      <4> QED
        BY <2>stay, <2>late, <4>1, <4>2, <4>3, Zenon
    <3> QED
      BY <2>9, <3>1, <3>2, <3>3, <3>4, Zenon DEF LoadStep
  <2>10. ASSUME NEW t \in Thread, TickStep(t) PROVE AnswerInv'
    <3>1. CASE TickLock(t) \/ TickRead(t)
      BY <2>5, <3>1, Zenon DEF TickLock, TickRead, NoAnswer
    <3>2. CASE TickInc(t)
      <4>1. /\ Goto(t, "tick_unlock") /\ Live(t) /\ Serve(t, G!TickAnswer(reg[t]))
            /\ UNCHANGED <<proc, fields>> /\ pc[t] \notin InitPhase
        BY <3>2, Zenon DEF TickInc, InitPhase, InitCS, ResetCS
      <4>2. G!TickAnswer(reg[t]).kind = "tick"
        BY Zenon DEF G!TickAnswer
      <4> QED
        BY <2>serve, <4>1, <4>2, Zenon
    <3>3. CASE TickUnlock(t)
      BY <2>6, <3>3, Zenon DEF TickUnlock, HasAnswer
    <3> QED
      BY <2>10, <3>1, <3>2, <3>3, Zenon DEF TickStep
  <2>11. ASSUME NEW t \in Thread, SaveStep(t) PROVE AnswerInv'
    <3>1. CASE SaveLock(t) \/ SaveWrite(t) \/ SaveRest(t)
      BY <2>6, <3>1, Zenon DEF SaveLock, SaveWrite, SaveRest, HasAnswer, SaveCS
    <3>2. CASE SaveUnlock(t)
      <4>1. Live(t) /\ pc[t] \notin InitPhase /\ Return(t) /\ UNCHANGED <<proc, ans, served>>
        BY <3>2, Zenon DEF SaveUnlock, InitPhase, InitCS, ResetCS
      <4> QED
        BY <2>7, <4>1, Zenon
    <3> QED
      BY <2>11, <3>1, <3>2, Zenon DEF SaveStep
  <2>12. ASSUME NEW t \in Thread, StatStep(t) PROVE AnswerInv'
    <3>1. PICK to \in {"begin", "idle", "stat_lock"} \cup StatCS : Goto(t, to)
      BY <2>12, Zenon DEF StatStep, StatLock, StatClear, StatRestore, StatUnlock, StatCS
    <3>2. /\ Live(t) /\ pc[t] \notin InitPhase /\ UNCHANGED <<proc, ans, served>>
          /\ \A u \in Thread \ {t} : fields'[u] = fields[u]
      BY <2>12, <2>t, Zenon DEF StatStep, StatLock, StatClear, StatRestore, StatUnlock, InitPhase,
         InitCS, ResetCS
    <3>3. proc[ProcOf[t]] # "init"
      BY <3>2, Zenon DEF ProcInv
    <3> QED
      BY <2>stay, <2>plain, <3>1, <3>2, <3>3, Zenon
  <2>13. ASSUME NEW t \in Thread, NEW u \in Thread, Spawn(t, u) \/ Fork(t, u) PROVE AnswerInv'
    <3>1. /\ UNCHANGED <<ans, fields, served>> /\ proc[ProcOf[u]] = "off"
          /\ \A p \in Proc : p # ProcOf[u] => proc'[p] = proc[p]
          /\ pc' = [pc EXCEPT ![u] = "init_lock"] \/ pc' = [pc EXCEPT ![u] = "idle"]
      BY <2>13, <2>t, Zenon DEF Spawn, Fork, Goto
    <3>2. ASSUME NEW v \in Thread PROVE AnswerOf(v)'
      <4>1. CASE ProcOf[v] = ProcOf[u]
        <5>1. /\ ans'[v] = 0 /\ fields'[v] = 0 /\ ans'[v] \in 0..Len(served')
          BY <2>a, <3>1, <4>1, Zenon DEF AnswerOf
        <5>2. pc'[v] \in {"init_lock", "idle", "off"}
          BY <2>t, <3>1, <4>1, Zenon DEF ProcInv
        <5> QED
          BY <5>1, <5>2, Zenon DEF AnswerOf, NoAnswer, HasAnswer, ResetCS, LoadCS, SaveCS
      <4>2. CASE ProcOf[v] # ProcOf[u]
        BY <2>t, <2>other, <3>1, <4>2, Zenon
      <4> QED
        BY <4>1, <4>2, Zenon
    <3> QED
      BY <3>2, Zenon DEF AnswerInv
  <2>14. ASSUME NEW p \in Proc, Die(p) PROVE AnswerInv'
    <3>1. ASSUME NEW v \in Thread PROVE AnswerOf(v)'
      <4>1. CASE ProcOf[v] = p
        <5>1. ans'[v] = 0 /\ proc'[ProcOf[v]] = "dead" /\ served' = served
          BY <2>14, <2>t, <4>1, Zenon DEF Die, Forget
        <5>2. 0 \in 0..Len(served)
          BY <2>t
        <5> QED
          BY <5>1, <5>2, Zenon DEF AnswerOf, Live
      <4>2. CASE ProcOf[v] # p
        <5>1. /\ ans'[v] = ans[v] /\ fields'[v] = fields[v] /\ pc'[v] = pc[v]
              /\ proc'[ProcOf[v]] = proc[ProcOf[v]] /\ served' = served
          BY <2>14, <2>t, <4>2, Zenon DEF Die, Forget
        <5> QED
          BY <2>other, <5>1, Zenon
      <4> QED
        BY <4>1, <4>2, Zenon
    <3> QED
      BY <3>1, Zenon DEF AnswerInv
  <2>15. CASE Clock \/ UNCHANGED vars
    BY <2>other, <2>15, Zenon DEF Clock, vars, AnswerInv
  <2> QED
    BY <2>1, <2>2, <2>3, <2>4, <2>8, <2>9, <2>10, <2>11, <2>12, <2>13, <2>14, <2>15, Zenon
    DEF Next, LibraryStep, CallStep, Exit, Fault
<1> QED
  BY <1>1, <1>2, <1>proc, TypeCorrect, PTL DEF Spec
-----------------------------------------------------------------------------
(* The "i" modifier *)

\* With the "i" modifier a call of the time() family is never answered from the
\* system clock, if no other thread of the process can be inside stat(): what
\* lock_for_stat() switches off is on again, or still kept for unlock_for_stat(),
\* wherever fake_clock_gettime() looks.
THEOREM TicksOnly == ASSUME StatAlone PROVE Spec => []TickingIgnoresSystemClock
<1>1. Init => TickInv
  <2>1. SUFFICES ASSUME Init PROVE \A p \in Proc : proc[p] # "up"
    BY <2>1, Zenon DEF TickInv, TicksFor
  <2> QED
    BY <2>1, Zenon DEF Init
<1>2. ASSUME Ticking, TypeOK, ProcInv, AnswerInv, TickInv, [Next]_vars PROVE TickInv'
  <2> USE <1>2 DEF Move, Lock, Unlock, procVars, configVars, threadVars, historyVars, allButSem
  <2> DEFINE inc_set == user_per_tick_inc_set
             backup == user_per_tick_inc_set_backup
  <2>t. /\ pc \in [Thread -> Step] /\ proc \in [Proc -> {"off", "init", "up", "dead"}]
        /\ ans \in [Thread -> Nat] /\ fields \in [Thread -> 0..StatFields]
        /\ inc_set \in [Proc -> BOOLEAN] /\ backup \in [Proc -> BOOLEAN]
        /\ served \in Seq(Answer) /\ Len(served) \in Nat
    BY DEF TypeOK, ProcType, ConfigType, ThreadType, HistoryType
  <2>a. \A t \in Thread : AnswerOf(t) /\ TicksFor(t)
    BY Zenon DEF AnswerInv, TickInv
  <2>n. ~(0 > 0) /\ StatFields > 0
    OBVIOUS
  \* A step that does not move thread u leaves ticking as it was for u, or sets it.
  <2>other. ASSUME NEW u \in Thread, pc'[u] = pc[u], ans'[u] = ans[u], fields'[u] = fields[u],
                   proc'[ProcOf[u]] = proc[ProcOf[u]],
                   served' = served \/ \E a : served' = Append(served, a),
                   inc_set[ProcOf[u]] => inc_set'[ProcOf[u]],
                   backup'[ProcOf[u]] = backup[ProcOf[u]]
            PROVE  TicksFor(u)'
    <3>1. AnswerOf(u) /\ TicksFor(u) /\ (InStat(u)' <=> InStat(u))
      BY <2>a, <2>other, Zenon DEF InStat
    <3>2. ASSUME proc[ProcOf[u]] = "up", pc[u] = "release"
          PROVE  served'[ans[u]] = served[ans[u]]
      <4>1. ans[u] \in 0..Len(served) /\ ans[u] > 0
        BY <3>1, <3>2, Zenon DEF AnswerOf, Live, HasAnswer
      <4>2. ASSUME NEW a, served' = Append(served, a) PROVE served'[ans[u]] = served[ans[u]]
        BY <2>t, <4>1, <4>2
      <4> QED
        BY <2>other, <4>2, Zenon
    <3> QED
      BY <2>other, <3>1, <3>2, Zenon DEF TicksFor
  \* A step of thread t that stays inside or outside stat().
  <2>stay. ASSUME NEW t \in Thread, NEW to, Goto(t, to), UNCHANGED <<proc, fields, backup>>,
                  \A u \in Thread \ {t} : ans'[u] = ans[u],
                  served' = served \/ \E a : served' = Append(served, a),
                  \A p \in Proc : inc_set[p] => inc_set'[p],
                  pc[t] # "stat_restore", to # "stat_restore",
                  to \in {"stat_lock", "stat_clear"} => Stats,
                  to \in {"idle", "stat_lock"} \cup StatCS => fields[t] = 0,
                  to = "release" => fields[t] # 0 \/ served'[ans'[t]].kind # "rule"
           PROVE  TickInv'
    <3>1. pc'[t] = to /\ TicksFor(t) /\ (InStat(t)' <=> InStat(t)) /\ ProcOf[t] \in Proc
      BY <2>t, <2>a, <2>stay, Zenon DEF Goto, InStat
    <3>2. TicksFor(t)'
      BY <2>stay, <3>1, Zenon DEF TicksFor
    <3>3. ASSUME NEW u \in Thread, u # t PROVE TicksFor(u)'
      <4>1. pc'[u] = pc[u]
        BY <2>t, <2>stay, <3>3, Zenon DEF Goto
      <4> QED
        BY <2>stay, <2>other, <3>3, <4>1, Zenon
    <3> QED
      BY <3>2, <3>3, Zenon DEF TickInv
  \* A thread between the calls, or on its way into or out of stat(), converts no field.
  <2>out. ASSUME NEW t \in Thread, Live(t), pc[t] \in {"idle", "stat_lock"} \cup StatCS
          PROVE  /\ proc[ProcOf[t]] = "up" /\ fields[t] = 0
                 /\ pc[t] # "stat_restore" => inc_set[ProcOf[t]]
    <3>1. pc[t] \notin InitPhase
      BY <2>out, Zenon DEF InitPhase, InitCS, ResetCS, StatCS
    <3>2. proc[ProcOf[t]] = "up"
      BY <2>out, <3>1, Zenon DEF Live, ProcInv
    <3>3. fields[t] = 0
      BY <2>a, <2>out, <3>2, Zenon DEF TicksFor
    <3> QED
      BY <2>a, <2>n, <3>2, <3>3, Zenon DEF TicksFor, InStat
  <2>1. ASSUME NEW t \in Thread, Request(t) PROVE TickInv'
    <3>1. /\ (Goto(t, "begin") \/ (Stats /\ Goto(t, "stat_lock"))) /\ Live(t) /\ pc[t] = "idle"
          /\ UNCHANGED <<proc, fields, inc_set, backup, ans, served>>
      BY <2>1, Zenon DEF Request, GetTime, Stat
    <3>2. fields[t] = 0
      BY <2>1, <2>out, Zenon DEF Request, GetTime, Stat
    <3>3. "begin" \notin {"idle", "stat_lock"} \cup StatCS /\ "stat_lock" # "release"
      BY Zenon DEF StatCS
    <3>4. CASE Goto(t, "begin")
      BY <2>stay, <3>1, <3>2, <3>3, <3>4, Zenon
    <3>5. CASE Stats /\ Goto(t, "stat_lock")
      BY <2>1, <2>stay, <3>1, <3>2, <3>5, Zenon DEF Request, GetTime, Stat
    <3> QED
      BY <3>1, <3>4, <3>5, Zenon
  \* The library inside a call, without its end.
  <2>2. ASSUME NEW t \in Thread, NEW to, Goto(t, to), pc[t] # "stat_restore",
               UNCHANGED <<proc, fields, backup>>,
               \A u \in Thread \ {t} : ans'[u] = ans[u],
               served' = served \/ \E a : served' = Append(served, a),
               \A p \in Proc : inc_set[p] => inc_set'[p],
               to \in {"begin", "load", "mode"} \cup CS \cup (Waiting \ {"stat_lock"})
        PROVE  TickInv'
    <3>1. to \notin {"idle", "stat_lock", "release"} \cup StatCS
      BY <2>2, Zenon DEF StatCS, CS, InitCS, ResetCS, LoadCS, TickCS, SaveCS, Waiting
    <3> QED
      BY <2>2, <2>stay, <3>1, Zenon DEF StatCS
  \* The end of a call with its answer, of which ticking has had its say.
  <2>3. ASSUME NEW t \in Thread, Return(t), Live(t), pc[t] \notin InitPhase, pc[t] # "stat_restore",
               UNCHANGED <<proc, ans, served, inc_set, backup>>
        PROVE  TickInv'
    <3>1. proc[ProcOf[t]] = "up" /\ TicksFor(t) /\ ProcOf[t] \in Proc
      BY <2>a, <2>3, Zenon DEF Live, ProcInv
    <3>2. ASSUME NEW u \in Thread, u # t PROVE TicksFor(u)'
      <4>1. pc'[u] = pc[u] /\ fields'[u] = fields[u]
        BY <2>t, <2>3, <3>2, Zenon DEF Return, Goto
      <4> QED
        BY <2>3, <2>other, <4>1, Zenon
    <3>3. TicksFor(t)'
      <4>1. CASE fields[t] = 0
        <5>1. fields'[t] = 0 /\ pc'[t] = "idle"
          BY <2>t, <2>3, <4>1 DEF Return, Goto
        <5> QED
          BY <2>3, <2>n, <3>1, <4>1, <5>1, Zenon DEF TicksFor, InStat
      <4>2. CASE fields[t] = 1
        <5>1. fields'[t] = 0 /\ pc'[t] = "stat_restore" /\ fields[t] > 0
          BY <2>t, <2>3, <4>2 DEF Return, Goto
        <5> QED
          BY <2>3, <2>n, <3>1, <5>1, Zenon DEF TicksFor, InStat
      <4>3. CASE fields[t] # 0 /\ fields[t] # 1
        <5>1. fields'[t] > 0 /\ fields[t] > 0 /\ pc'[t] = "begin"
          BY <2>t, <2>3, <4>3 DEF Return, Goto
        <5> QED
          BY <2>3, <3>1, <5>1, Zenon DEF TicksFor, InStat, StatCS
      <4> QED
        BY <4>1, <4>2, <4>3, Zenon
    <3> QED
      BY <3>2, <3>3, Zenon DEF TickInv
  <2>4. ASSUME NEW t \in Thread, InitStep(t) \/ ResetStep(t), ~Up(t) PROVE TickInv'
    <3>1. /\ UNCHANGED <<proc, ans, fields, served, backup>> /\ pc[t] # "stat_restore"
          /\ inc_set' = inc_set \/ inc_set' = [inc_set EXCEPT ![ProcOf[t]] = Ticking]
      BY <2>4, Zenon DEF InitStep, ResetStep, InitLock, InitGet, PutReal, PutMon, InitUnlock,
         ResetLock, ResetUnlock
    <3>2. PICK to \in {"load"} \cup CS \cup (Waiting \ {"stat_lock"}) : Goto(t, to)
      BY <2>4, Zenon DEF InitStep, ResetStep, InitLock, InitGet, PutReal, PutMon, InitUnlock,
         ResetLock, ResetUnlock, CS, InitCS, ResetCS, Waiting
    <3>3. \A p \in Proc : inc_set[p] => inc_set'[p]
      BY <2>t, <3>1, Zenon
    <3> QED
      BY <2>2, <3>1, <3>2, <3>3, Zenon
  <2>5. ASSUME NEW t \in Thread, InitUnlock(t) \/ ResetUnlock(t), Up(t) PROVE TickInv'
    <3>0. pc'[t] = "idle" /\ "load" # "idle"
      BY <2>5, Zenon DEF Up
    <3>1. proc[ProcOf[t]] = "init"
      <4>1. CASE InitUnlock(t)
        BY <4>1, Zenon DEF InitUnlock, Live, ProcInv, InitCS
      <4>2. CASE ResetUnlock(t)
        BY <2>t, <3>0, <4>2, Zenon DEF ResetUnlock, Goto
      <4> QED
        BY <2>5, <4>1, <4>2, Zenon
    <3>2. UNCHANGED <<ans, fields, served, backup>> /\ inc_set' = [inc_set EXCEPT ![ProcOf[t]] = Ticking]
      BY <2>5, Zenon DEF InitUnlock, ResetUnlock
    <3>3. ASSUME NEW u \in Thread PROVE TicksFor(u)'
      <4>1. CASE ProcOf[u] = ProcOf[t]
        <5>1. fields'[u] = 0 /\ pc'[u] = "idle" /\ inc_set'[ProcOf[u]]
          BY <2>a, <2>t, <2>5, <3>1, <3>2, <4>1, Zenon DEF AnswerOf, Up
        <5> QED
          BY <2>n, <5>1, Zenon DEF TicksFor, InStat
      <4>2. CASE ProcOf[u] # ProcOf[t]
        <5>1. /\ pc'[u] = pc[u] /\ proc'[ProcOf[u]] = proc[ProcOf[u]]
              /\ inc_set'[ProcOf[u]] = inc_set[ProcOf[u]]
          BY <2>t, <2>5, <3>2, <4>2, Zenon DEF Up
        <5> QED
          BY <2>other, <3>2, <5>1, Zenon
      <4> QED
        BY <4>1, <4>2, Zenon
    <3> QED
      BY <3>3, Zenon DEF TickInv
  <2>6. ASSUME NEW t \in Thread, CallStep(t) PROVE TickInv'
    <3>1. CASE Begin(t)
      <4>1. /\ UNCHANGED <<proc, fields, served, inc_set, backup>> /\ pc[t] # "stat_restore"
            /\ \A u \in Thread \ {t} : ans'[u] = ans[u]
        BY <2>t, <3>1, Zenon DEF Begin
      <4>2. PICK to \in {"load", "reset_lock"} : Goto(t, to)
        BY <3>1, Zenon DEF Begin
      <4> QED
        BY <2>2, <4>1, <4>2, Zenon DEF Waiting
    <3>2. CASE Load(t)
      <4>1. UNCHANGED <<proc, ans, fields, served, inc_set, backup>> /\ pc[t] # "stat_restore"
        BY <3>2, Zenon DEF Load
      <4>2. PICK to \in {"load_lock", "mode"} : Goto(t, to)
        BY <3>2, Zenon DEF Load
      <4> QED
        BY <2>2, <4>1, <4>2, Zenon DEF Waiting
    <3>3. CASE Mode(t)
      <4>1. /\ UNCHANGED <<proc, fields, inc_set, backup>> /\ Live(t) /\ pc[t] = "mode"
            /\ \A u \in Thread \ {t} : ans'[u] = ans[u]
            /\ served' = served \/ \E a : served' = Append(served, a)
        BY <2>t, <3>3, Zenon DEF Mode, Serve
      <4>2. CASE inc_set[ProcOf[t]]
        <5>1. Goto(t, "tick_lock")
          BY <3>3, <4>2, Zenon DEF Mode
        <5> QED
          BY <2>2, <4>1, <5>1, Zenon DEF Waiting
      <4>3. CASE ~inc_set[ProcOf[t]]
        <5>1. Goto(t, "release")
          BY <3>3, <4>3, Zenon DEF Mode
        <5>2. proc[ProcOf[t]] = "up"
          BY <4>1, Zenon DEF Live, ProcInv, InitPhase, InitCS, ResetCS
        <5>3. fields[t] # 0
          BY <2>a, <2>n, <4>1, <4>3, <5>2, Zenon DEF TicksFor, InStat
        <5> QED
          BY <2>stay, <4>1, <5>1, <5>3, Zenon DEF StatCS
      <4> QED
        BY <4>2, <4>3, Zenon
    <3>4. CASE Release(t)
      <4>1. /\ UNCHANGED <<proc, ans, served, inc_set, backup>>
            /\ Live(t) /\ pc[t] = "release" /\ pc[t] \notin InitPhase
        BY <3>4, Zenon DEF Release, InitPhase, InitCS, ResetCS
      <4>2. CASE Goto(t, "save_lock") /\ UNCHANGED fields
        BY <2>2, <4>1, <4>2, Zenon DEF Waiting
      <4>3. CASE Return(t)
        BY <2>3, <4>1, <4>3, Zenon
      <4> QED
        BY <3>4, <4>2, <4>3, Zenon DEF Release
    <3> QED
      BY <2>6, <3>1, <3>2, <3>3, <3>4, Zenon DEF CallStep
  <2>7. ASSUME NEW t \in Thread, LoadStep(t) \/ TickStep(t), ~LoadUnlock(t), ~TickUnlock(t)
        PROVE  TickInv'
    <3>1. /\ UNCHANGED <<proc, fields, inc_set, backup>> /\ pc[t] # "stat_restore"
          /\ \A u \in Thread \ {t} : ans'[u] = ans[u]
          /\ served' = served \/ \E a : served' = Append(served, a)
      BY <2>t, <2>7, Zenon DEF LoadStep, LoadLock, LoadIdx, LoadTake, LoadTicks, LoadOne, PutReal,
         PutMon, LoadUnset, TickStep, TickLock, TickRead, TickInc, Serve
    <3>2. PICK to \in LoadCS \cup TickCS : Goto(t, to)
      BY <2>7, Zenon DEF LoadStep, LoadLock, LoadIdx, LoadTake, LoadTicks, LoadOne, PutReal,
         PutMon, LoadUnset, TickStep, TickLock, TickRead, TickInc, LoadCS, TickCS
    <3> QED
      BY <2>2, <3>1, <3>2, Zenon DEF CS
  <2>8. ASSUME NEW t \in Thread, LoadUnlock(t) \/ TickUnlock(t) PROVE TickInv'
    <3>1. UNCHANGED <<proc, ans, fields, served, inc_set, backup>> /\ Live(t)
      BY <2>8, Zenon DEF LoadUnlock, TickUnlock
    <3>2. CASE LoadUnlock(t) /\ ~(ans[t] > 0)
      <4>1. Goto(t, "mode") /\ pc[t] # "stat_restore"
        BY <3>2, Zenon DEF LoadUnlock
      <4> QED
        BY <2>2, <3>1, <4>1, Zenon
    <3>3. CASE TickUnlock(t) \/ (LoadUnlock(t) /\ ans[t] > 0)
      <4>1. Goto(t, "release") /\ pc[t] # "stat_restore"
        BY <3>3, Zenon DEF LoadUnlock, TickUnlock
      <4>2. served[ans[t]].kind \in {"tick", "file"}
        BY <2>a, <3>1, <3>3, Zenon DEF LoadUnlock, TickUnlock, AnswerOf
      <4>3. "release" \notin {"idle", "stat_lock"} \cup StatCS
        BY Zenon DEF StatCS
      <4> QED
        BY <2>stay, <3>1, <4>1, <4>2, <4>3, Zenon
    <3> QED
      BY <2>8, <3>2, <3>3, Zenon
  <2>9. ASSUME NEW t \in Thread, SaveStep(t) PROVE TickInv'
    <3>1. /\ UNCHANGED <<proc, ans, served, inc_set, backup>>
          /\ Live(t) /\ pc[t] # "stat_restore" /\ pc[t] \notin InitPhase
      BY <2>9, Zenon DEF SaveStep, SaveLock, SaveWrite, SaveRest, SaveUnlock, InitPhase, InitCS, ResetCS
    <3>2. CASE SaveUnlock(t)
      BY <2>3, <3>1, <3>2, Zenon DEF SaveUnlock
    <3>3. CASE SaveLock(t) \/ SaveWrite(t) \/ SaveRest(t)
      <4>1. PICK to \in SaveCS : Goto(t, to)
        BY <3>3, Zenon DEF SaveLock, SaveWrite, SaveRest, SaveCS
      <4>2. UNCHANGED fields
        BY <3>3, Zenon DEF SaveLock, SaveWrite, SaveRest
      <4> QED
        BY <2>2, <3>1, <4>1, <4>2, Zenon DEF CS
    <3> QED
      BY <2>9, <3>2, <3>3, Zenon DEF SaveStep
  <2>10. ASSUME NEW t \in Thread, StatLock(t) \/ StatUnlock(t) PROVE TickInv'
    <3>1. /\ UNCHANGED <<proc, ans, fields, served, inc_set, backup>> /\ Live(t)
          /\ pc[t] \in {"stat_lock", "stat_unlock"}
          /\ \/ Goto(t, "stat_clear") /\ pc[t] = "stat_lock"
             \/ Goto(t, "idle")
      BY <2>10, Zenon DEF StatLock, StatUnlock
    <3>2. fields[t] = 0 /\ proc[ProcOf[t]] = "up"
      BY <2>out, <3>1, Zenon DEF StatCS
    <3>3. pc[t] = "stat_lock" => Stats
      BY <2>a, <3>2, Zenon DEF TicksFor
    <3> QED
      BY <2>stay, <3>1, <3>2, <3>3, Zenon
  \* Only the one thread of the process sees that ticking is off.
  <2>11. ASSUME NEW t \in Thread, StatClear(t) \/ StatRestore(t) PROVE TickInv'
    <3> DEFINE p == ProcOf[t]
    <3>1. /\ UNCHANGED <<proc, ans, served>> /\ Live(t) /\ pc[t] \in StatCS
          /\ \A u \in Thread \ {t} : fields'[u] = fields[u] /\ pc'[u] = pc[u]
          /\ \A q \in Proc : q # p => inc_set'[q] = inc_set[q] /\ backup'[q] = backup[q]
      BY <2>t, <2>11, Zenon DEF StatClear, StatRestore, StatCS, Goto
    <3>2. proc[p] = "up" /\ fields[t] = 0 /\ (pc[t] # "stat_restore" => inc_set[p]) /\ p \in Proc
      BY <2>out, <3>1, Zenon
    <3>3. Stats
      BY <2>a, <2>11, <3>1, <3>2, Zenon DEF TicksFor, StatClear, StatRestore, InStat
    <3>4. ASSUME NEW u \in Thread, u # t PROVE TicksFor(u)'
      <4>1. ProcOf[u] # p /\ ProcOf[u] \in Proc
        BY <3>3, <3>4, Zenon DEF StatAlone
      <4> QED
        BY <2>other, <3>1, <3>4, <4>1, Zenon
    <3>5. CASE StatClear(t)
      <4>1. fields'[t] = StatFields /\ pc'[t] = "begin" /\ backup'[p] = inc_set[p] /\ inc_set[p]
        BY <2>t, <3>2, <3>5, Zenon DEF StatClear, Goto
      <4>2. TicksFor(t)'
        BY <2>n, <3>3, <4>1, Zenon DEF TicksFor, InStat, StatCS
      <4> QED
        BY <3>4, <4>2, Zenon DEF TickInv
    <3>6. CASE StatRestore(t)
      <4>1. fields'[t] = 0 /\ pc'[t] = "stat_unlock" /\ inc_set'[p] = backup[p] /\ pc[t] = "stat_restore"
        BY <2>t, <3>2, <3>6, Zenon DEF StatRestore, Goto
      <4>2. backup[p]
        BY <2>a, <3>2, <4>1, Zenon DEF TicksFor, InStat
      <4>3. TicksFor(t)'
        BY <2>n, <4>1, <4>2, Zenon DEF TicksFor, InStat
      <4> QED
        BY <3>4, <4>3, Zenon DEF TickInv
    <3> QED
      BY <2>11, <3>5, <3>6, Zenon
  <2>12. ASSUME NEW t \in Thread, NEW u \in Thread, Spawn(t, u) \/ Fork(t, u) PROVE TickInv'
    <3> DEFINE q == ProcOf[u]
    <3>1. /\ UNCHANGED <<ans, fields, served>> /\ proc[q] = "off" /\ q \in Proc
          /\ \A p \in Proc : p # q => /\ proc'[p] = proc[p] /\ inc_set'[p] = inc_set[p]
                                      /\ backup'[p] = backup[p]
          /\ pc' = [pc EXCEPT ![u] = "init_lock"] \/ pc' = [pc EXCEPT ![u] = "idle"]
      BY <2>12, <2>t, Zenon DEF Spawn, Fork, Goto
    <3>2. proc'[q] # "up" \/ inc_set'[q]
      <4>1. CASE Spawn(t, u)
        BY <2>t, <3>1, <4>1, Zenon DEF Spawn
      <4>2. CASE Fork(t, u)
        <5>1. inc_set'[q] = inc_set[ProcOf[t]] /\ Live(t) /\ pc[t] = "idle"
          BY <2>t, <3>1, <4>2, Zenon DEF Fork, Live
        <5> QED
          BY <2>out, <5>1, Zenon
      <4> QED
        BY <2>12, <4>1, <4>2, Zenon
    <3>3. ASSUME NEW v \in Thread PROVE TicksFor(v)'
      <4>1. CASE ProcOf[v] = q
        <5>1. fields'[v] = 0
          BY <2>a, <3>1, <4>1, Zenon DEF AnswerOf
        <5>2. pc'[v] \in {"init_lock", "idle", "off"}
          BY <2>t, <3>1, <4>1, Zenon DEF ProcInv
        <5> QED
          BY <2>n, <3>2, <4>1, <5>1, <5>2, Zenon DEF TicksFor, InStat, StatCS
      <4>2. CASE ProcOf[v] # q
        <5>1. pc'[v] = pc[v] /\ ProcOf[v] \in Proc
          BY <2>t, <3>1, <4>2, Zenon
        <5> QED
          BY <2>other, <3>1, <4>2, <5>1, Zenon
      <4> QED
        BY <4>1, <4>2, Zenon
    <3> QED
      BY <3>3, Zenon DEF TickInv
  <2>13. ASSUME NEW p \in Proc, Die(p) PROVE TickInv'
    <3>1. ASSUME NEW v \in Thread PROVE TicksFor(v)'
      <4>1. CASE ProcOf[v] = p
        <5>1. proc'[ProcOf[v]] = "dead"
          BY <2>13, <2>t, <4>1, Zenon DEF Die
        <5> QED
          BY <5>1, Zenon DEF TicksFor
      <4>2. CASE ProcOf[v] # p
        <5>1. /\ ans'[v] = ans[v] /\ fields'[v] = fields[v] /\ pc'[v] = pc[v]
              /\ proc'[ProcOf[v]] = proc[ProcOf[v]] /\ served' = served
              /\ inc_set'[ProcOf[v]] = inc_set[ProcOf[v]] /\ backup'[ProcOf[v]] = backup[ProcOf[v]]
          BY <2>13, <2>t, <4>2, Zenon DEF Die, Forget
        <5> QED
          BY <2>other, <5>1, Zenon
      <4> QED
        BY <4>1, <4>2, Zenon
    <3> QED
      BY <3>1, Zenon DEF TickInv
  <2>14. CASE Clock \/ UNCHANGED vars
    BY <2>other, <2>14, Zenon DEF Clock, vars, TickInv
  <2>15. ASSUME NEW t \in Thread, InitStep(t) \/ ResetStep(t), Up(t)
         PROVE  InitUnlock(t) \/ ResetUnlock(t)
    <3>1. pc'[t] = "idle"
      BY <2>15, Zenon DEF Up
    <3> QED
      BY <2>15, <2>t, <3>1, Zenon DEF InitStep, ResetStep, InitLock, InitGet, PutReal, PutMon,
         ResetLock, Goto
  <2> QED
    BY <2>1, <2>4, <2>5, <2>6, <2>7, <2>8, <2>9, <2>10, <2>11, <2>12, <2>13, <2>14, <2>15, Zenon
    DEF Next, LibraryStep, StatStep, Exit, Fault
<1>3. ASSUME ProcInv, Ticking => TickInv PROVE TickingIgnoresSystemClock
  <2>1. SUFFICES ASSUME Ticking, NEW t \in Thread, Live(t), pc[t] = "release", fields[t] = 0
                 PROVE  served[ans[t]].kind # "rule"
    BY Zenon DEF TickingIgnoresSystemClock
  <2>2. proc[ProcOf[t]] = "up"
    BY <1>3, <2>1, Zenon DEF Live, ProcInv, InitPhase, InitCS, ResetCS
  <2> QED
    BY <1>3, <2>1, <2>2, Zenon DEF TickInv, TicksFor
<1> DEFINE J == Ticking => TickInv
<1>4. Init => J
  BY <1>1, Zenon
<1>5. TypeOK /\ ProcInv /\ AnswerInv /\ J /\ [Next]_vars => J'
  BY <1>2, Zenon
<1>6. ProcInv /\ J => TickingIgnoresSystemClock
  BY <1>3, Zenon
<1> HIDE DEF J
<1> QED
  BY <1>4, <1>5, <1>6, AnswerInvariant, TypeCorrect, PTL DEF Spec
-----------------------------------------------------------------------------
(* The save file *)

\* If no write fails, whatever a call of the time() family has returned to the
\* program, and that did not come from the load file, is complete in the save
\* file: save_time() is over before fake_clock_gettime() returns, with any lock
\* and any number of processes.
THEOREM SavedFirst == Spec => []SavedBeforeReturn
<1> DEFINE For(t) == Live(t) /\ ans[t] > 0 /\ pc[t] \in AfterSave => Saved(t)
<1>1. ASSUME Init PROVE SavedInv
  <2>1. \A t \in Thread : ans[t] = 0
    BY <1>1, Zenon DEF Init
  <2>2. ~(0 > 0)
    OBVIOUS
  <2> QED
    BY <2>1, <2>2, Zenon DEF SavedInv
<1>2. ASSUME Saving, ~WriteFails, TypeOK, ProcInv, AnswerInv, SavedInv, [Next]_vars PROVE SavedInv'
  <2> USE <1>2 DEF Move, Lock, Unlock, procVars, configVars, threadVars, kernelVars, historyVars, allButSem
  <2>t. /\ pc \in [Thread -> Step] /\ proc \in [Proc -> {"off", "init", "up", "dead"}]
        /\ ans \in [Thread -> Nat] /\ fields \in [Thread -> 0..StatFields]
        /\ served \in Seq(Answer) /\ outfile \in Seq(HalfRecord)
        /\ Len(served) \in Nat /\ Len(outfile) \in Nat
    BY DEF TypeOK, ProcType, KernelType, ThreadType, HistoryType
  <2>a. \A t \in Thread : AnswerOf(t) /\ For(t)
    BY Zenon DEF AnswerInv, SavedInv
  <2>n. ~(0 > 0)
    OBVIOUS
  \* What is saved stays saved.
  <2>kept. ASSUME NEW u \in Thread, Saved(u), ans[u] \in 1..Len(served), ans'[u] = ans[u],
                  served' = served \/ \E a : served' = Append(served, a),
                  outfile' = outfile \/ \E a \in HalfRecord : outfile' = Append(outfile, a)
           PROVE  Saved(u)'
    <3>1. served'[ans[u]] = served[ans[u]]
      <4>1. ASSUME NEW a, served' = Append(served, a) PROVE served'[ans[u]] = served[ans[u]]
        BY <2>t, <2>kept, <4>1
      <4> QED
        BY <2>kept, <4>1, Zenon
    <3>2. ASSUME NEW i \in 1..Len(outfile) PROVE i \in 1..Len(outfile') /\ outfile'[i] = outfile[i]
      <4>1. ASSUME NEW a \in HalfRecord, outfile' = Append(outfile, a)
            PROVE  i \in 1..Len(outfile') /\ outfile'[i] = outfile[i]
        BY <2>t, <3>2, <4>1
      <4> QED
        BY <2>kept, <4>1, Zenon
    <3> QED
      BY <2>kept, <3>1, <3>2, Zenon DEF Saved
  <2>other. ASSUME NEW u \in Thread, pc'[u] = pc[u], ans'[u] = ans[u], Live(u)' => Live(u),
                   served' = served \/ \E a : served' = Append(served, a),
                   outfile' = outfile \/ \E a \in HalfRecord : outfile' = Append(outfile, a)
            PROVE  For(u)'
    <3>1. SUFFICES ASSUME Live(u), ans[u] > 0, pc[u] \in AfterSave PROVE Saved(u)'
      BY <2>other, Zenon
    <3>2. ans[u] \in 1..Len(served)
      <4>1. ans[u] \in 0..Len(served)
        BY <2>a, <3>1, Zenon DEF AnswerOf
      <4> QED
        BY <2>t, <3>1, <4>1
    <3> QED
      BY <2>a, <2>kept, <2>other, <3>1, <3>2, Zenon
  \* A step of thread t alone.
  <2>one. ASSUME NEW t \in Thread, NEW to, Goto(t, to), UNCHANGED proc,
                 \A u \in Thread \ {t} : ans'[u] = ans[u],
                 served' = served \/ \E a : served' = Append(served, a),
                 outfile' = outfile \/ \E a \in HalfRecord : outfile' = Append(outfile, a),
                 For(t)'
          PROVE  SavedInv'
    <3>1. ASSUME NEW u \in Thread, u # t PROVE For(u)'
      <4>1. pc'[u] = pc[u] /\ (Live(u)' => Live(u))
        BY <2>t, <2>one, <3>1, Zenon DEF Goto, Live
      <4> QED
        BY <2>one, <2>other, <3>1, <4>1, Zenon
    <3> QED
      BY <2>one, <3>1, Zenon DEF SavedInv
  \* A step to where nothing needs to be saved.
  <2>before. ASSUME NEW t \in Thread, NEW to, Goto(t, to), UNCHANGED proc, to \notin AfterSave,
                    \A u \in Thread \ {t} : ans'[u] = ans[u],
                    served' = served \/ \E a : served' = Append(served, a),
                    outfile' = outfile \/ \E a \in HalfRecord : outfile' = Append(outfile, a)
             PROVE  SavedInv'
    <3>1. pc'[t] = to
      BY <2>t, <2>before, Zenon DEF Goto
    <3> QED
      BY <2>one, <2>before, <3>1, Zenon
  \* A step of a thread whose answer is saved.
  <2>after. ASSUME NEW t \in Thread, NEW to, Goto(t, to), Live(t), UNCHANGED <<proc, ans, served, outfile>>,
                   ans[t] > 0 => Saved(t)
            PROVE  SavedInv'
    <3>1. Saved(t)' <=> Saved(t)
      BY <2>after, Zenon DEF Saved
    <3> QED
      BY <2>one, <2>after, <3>1, Zenon
  <2>1. ASSUME NEW t \in Thread, Request(t) PROVE SavedInv'
    <3>1. UNCHANGED <<proc, ans, served, outfile>>
      BY <2>1, Zenon DEF Request, GetTime, Stat
    <3>2. PICK to \in {"begin", "stat_lock"} : Goto(t, to)
      BY <2>1, Zenon DEF Request, GetTime, Stat
    <3> QED
      BY <2>before, <3>1, <3>2, Zenon DEF AfterSave
  <2>2. ASSUME NEW t \in Thread, InitStep(t) \/ ResetStep(t), ~Up(t) PROVE SavedInv'
    <3>1. UNCHANGED <<proc, ans, served, outfile>>
      BY <2>2, Zenon DEF InitStep, ResetStep, InitLock, InitGet, PutReal, PutMon, InitUnlock,
         ResetLock, ResetUnlock
    <3>2. PICK to \in {"load", "reset_lock"} \cup InitCS \cup ResetCS : Goto(t, to)
      BY <2>2, Zenon DEF InitStep, ResetStep, InitLock, InitGet, PutReal, PutMon, InitUnlock,
         ResetLock, ResetUnlock, InitCS, ResetCS
    <3> QED
      BY <2>before, <3>1, <3>2, Zenon DEF AfterSave, InitCS, ResetCS
  <2>3. ASSUME NEW t \in Thread, InitUnlock(t) \/ ResetUnlock(t), Up(t) PROVE SavedInv'
    <3>0. pc'[t] = "idle" /\ "load" # "idle"
      BY <2>3, Zenon DEF Up
    <3>1. proc[ProcOf[t]] = "init"
      <4>1. CASE InitUnlock(t)
        BY <4>1, Zenon DEF InitUnlock, Live, ProcInv, InitCS
      <4>2. CASE ResetUnlock(t)
        BY <2>t, <3>0, <4>2, Zenon DEF ResetUnlock, Goto
      <4> QED
        BY <2>3, <4>1, <4>2, Zenon
    <3>2. UNCHANGED <<ans, served, outfile>>
      BY <2>3, Zenon DEF InitUnlock, ResetUnlock
    <3>3. ASSUME NEW u \in Thread PROVE For(u)'
      <4>1. CASE ProcOf[u] = ProcOf[t]
        BY <2>a, <2>n, <3>1, <3>2, <4>1, Zenon DEF AnswerOf
      <4>2. CASE ProcOf[u] # ProcOf[t]
        <5>1. pc'[u] = pc[u] /\ (Live(u)' => Live(u))
          BY <2>t, <2>3, <4>2, Zenon DEF Up, Live
        <5> QED
          BY <2>other, <3>2, <5>1, Zenon
      <4> QED
        BY <4>1, <4>2, Zenon
    <3> QED
      BY <3>3, Zenon DEF SavedInv
  <2>4. ASSUME NEW t \in Thread, Begin(t) \/ Load(t) \/ Mode(t) PROVE SavedInv'
    <3>1. /\ UNCHANGED <<proc, outfile>> /\ \A u \in Thread \ {t} : ans'[u] = ans[u]
          /\ served' = served \/ \E a : served' = Append(served, a)
      BY <2>t, <2>4, Zenon DEF Begin, Load, Mode, Serve
    <3>2. PICK to \in {"load", "reset_lock", "load_lock", "mode", "tick_lock", "release"} : Goto(t, to)
      BY <2>4, Zenon DEF Begin, Load, Mode
    <3> QED
      BY <2>before, <3>1, <3>2, Zenon DEF AfterSave
  <2>5. ASSUME NEW t \in Thread, Release(t) PROVE SavedInv'
    <3>1. UNCHANGED <<proc, ans, served, outfile>> /\ Live(t)
      BY <2>5, Zenon DEF Release
    <3>2. CASE Goto(t, "save_lock")
      BY <2>before, <3>1, <3>2, Zenon DEF AfterSave
    <3>3. CASE served[ans[t]].kind = "file" /\ Return(t)
      BY <2>after, <3>1, <3>3, Zenon DEF Return, Saved
    <3> QED
      BY <2>5, <3>2, <3>3, Zenon DEF Release
  <2>6. ASSUME NEW t \in Thread, LoadStep(t) \/ TickStep(t) PROVE SavedInv'
    <3>1. /\ UNCHANGED <<proc, outfile>> /\ \A u \in Thread \ {t} : ans'[u] = ans[u]
          /\ served' = served \/ \E a : served' = Append(served, a)
      BY <2>t, <2>6, Zenon DEF LoadStep, LoadLock, LoadIdx, LoadTake, LoadTicks, LoadOne, PutReal,
         PutMon, LoadUnset, LoadUnlock, TickStep, TickLock, TickRead, TickInc, TickUnlock, Serve
    <3>2. PICK to \in {"mode", "release"} \cup LoadCS \cup TickCS : Goto(t, to)
      BY <2>6, Zenon DEF LoadStep, LoadLock, LoadIdx, LoadTake, LoadTicks, LoadOne, PutReal,
         PutMon, LoadUnset, LoadUnlock, TickStep, TickLock, TickRead, TickInc, TickUnlock,
         LoadCS, TickCS
    <3> QED
      BY <2>before, <3>1, <3>2, Zenon DEF AfterSave, LoadCS, TickCS
  \* No write fails: the second part of the record is in the file.
  <2>7. ASSUME NEW t \in Thread, SaveStep(t) PROVE SavedInv'
    <3>1. UNCHANGED <<proc, ans, served>> /\ Live(t)
      BY <2>7, Zenon DEF SaveStep, SaveLock, SaveWrite, SaveRest, SaveUnlock
    <3>2. CASE SaveLock(t)
      BY <2>before, <3>1, <3>2, Zenon DEF SaveLock, AfterSave
    <3>3. CASE SaveWrite(t)
      <4>1. Goto(t, "save_rest") /\ outfile' = Append(outfile, <<ans[t], 1>>)
        BY <3>3, Zenon DEF SaveWrite
      <4>2. <<ans[t], 1>> \in HalfRecord
        BY <2>t DEF HalfRecord
      <4> QED
        BY <2>before, <3>1, <4>1, <4>2, Zenon DEF AfterSave
    <3>4. CASE SaveRest(t)
      <4>1. Goto(t, "save_unlock") /\ outfile' = Append(outfile, <<ans[t], 2>>)
        BY <3>4, Zenon DEF SaveRest
      <4>2. <<ans[t], 2>> \in HalfRecord
        BY <2>t DEF HalfRecord
      <4>3. Len(outfile) + 1 \in 1..Len(outfile') /\ outfile'[Len(outfile) + 1] = <<ans[t], 2>>
        BY <2>t, <4>1, <4>2
      <4>4. Saved(t)'
        BY <3>1, <4>3, Zenon DEF Saved
      <4> QED
        BY <2>one, <3>1, <4>1, <4>2, <4>4, Zenon
    <3>5. CASE SaveUnlock(t)
      <4>1. PICK to : Goto(t, to)
        BY <3>5, Zenon DEF SaveUnlock, Return
      <4> QED
        BY <2>a, <2>after, <3>1, <3>5, <4>1, Zenon DEF SaveUnlock, AfterSave
    <3> QED
      BY <2>7, <3>2, <3>3, <3>4, <3>5, Zenon DEF SaveStep
  <2>8. ASSUME NEW t \in Thread, StatStep(t) PROVE SavedInv'
    <3>1. UNCHANGED <<proc, ans, served, outfile>> /\ Live(t)
      BY <2>8, Zenon DEF StatStep, StatLock, StatClear, StatRestore, StatUnlock
    <3>2. CASE StatLock(t) \/ StatClear(t)
      <4>1. PICK to \in {"stat_clear", "begin"} : Goto(t, to)
        BY <3>2, Zenon DEF StatLock, StatClear
      <4> QED
        BY <2>before, <3>1, <4>1, Zenon DEF AfterSave
    <3>3. CASE StatRestore(t) \/ StatUnlock(t)
      <4>1. PICK to : Goto(t, to)
        BY <3>3, Zenon DEF StatRestore, StatUnlock
      <4> QED
        BY <2>a, <2>after, <3>1, <3>3, <4>1, Zenon DEF StatRestore, StatUnlock, AfterSave
    <3> QED
      BY <2>8, <3>2, <3>3, Zenon DEF StatStep
  <2>9. ASSUME NEW t \in Thread, NEW u \in Thread, Spawn(t, u) \/ Fork(t, u) PROVE SavedInv'
    <3> DEFINE q == ProcOf[u]
    <3>1. /\ UNCHANGED <<ans, served, outfile>> /\ proc[q] = "off" /\ q \in Proc
          /\ \A p \in Proc : p # q => proc'[p] = proc[p]
          /\ pc' = [pc EXCEPT ![u] = "init_lock"] \/ pc' = [pc EXCEPT ![u] = "idle"]
      BY <2>9, <2>t, Zenon DEF Spawn, Fork, Goto
    <3>2. ASSUME NEW v \in Thread PROVE For(v)'
      <4>1. CASE ProcOf[v] = q
        BY <2>a, <2>n, <3>1, <4>1, Zenon DEF AnswerOf
      <4>2. CASE ProcOf[v] # q
        <5>1. pc'[v] = pc[v] /\ ProcOf[v] \in Proc /\ (Live(v)' => Live(v))
          BY <2>t, <3>1, <4>2, Zenon DEF Live
        <5> QED
          BY <2>other, <3>1, <4>2, <5>1, Zenon
      <4> QED
        BY <4>1, <4>2, Zenon
    <3> QED
      BY <3>2, Zenon DEF SavedInv
  <2>10. ASSUME NEW p \in Proc, Die(p) PROVE SavedInv'
    <3>1. ASSUME NEW v \in Thread PROVE For(v)'
      <4>1. CASE ProcOf[v] = p
        BY <2>10, <2>n, <4>1, Zenon DEF Die, Forget
      <4>2. CASE ProcOf[v] # p
        <5>1. /\ ans'[v] = ans[v] /\ pc'[v] = pc[v] /\ served' = served /\ outfile' = outfile
              /\ (Live(v)' => Live(v))
          BY <2>10, <2>t, <4>2, Zenon DEF Die, Forget, Live
        <5> QED
          BY <2>other, <5>1, Zenon
      <4> QED
        BY <4>1, <4>2, Zenon
    <3> QED
      BY <3>1, Zenon DEF SavedInv
  <2>11. CASE Clock \/ UNCHANGED vars
    <3>1. ASSUME NEW v \in Thread PROVE For(v)'
      BY <2>other, <2>11, Zenon DEF Clock, vars, Live
    <3> QED
      BY <3>1, Zenon DEF SavedInv
  <2>12. ASSUME NEW t \in Thread, InitStep(t) \/ ResetStep(t), Up(t)
         PROVE  InitUnlock(t) \/ ResetUnlock(t)
    <3>1. pc'[t] = "idle"
      BY <2>12, Zenon DEF Up
    <3> QED
      BY <2>12, <2>t, <3>1, Zenon DEF InitStep, ResetStep, InitLock, InitGet, PutReal, PutMon,
         ResetLock, Goto
  <2> QED
    BY <2>1, <2>2, <2>3, <2>4, <2>5, <2>6, <2>7, <2>8, <2>9, <2>10, <2>11, <2>12, Zenon
    DEF Next, LibraryStep, CallStep, Exit, Fault
<1> DEFINE J == Saving /\ ~WriteFails => SavedInv
<1>3. Init => J
  BY <1>1, Zenon
<1>4. TypeOK /\ ProcInv /\ AnswerInv /\ J /\ [Next]_vars => J'
  BY <1>2, Zenon
<1>5. J => SavedBeforeReturn
  BY Zenon DEF SavedInv, Saved, AfterSave, SavedBeforeReturn
<1> HIDE DEF J
<1> QED
  BY <1>3, <1>4, <1>5, AnswerInvariant, TypeCorrect, PTL DEF Spec
=============================================================================

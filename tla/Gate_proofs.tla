----------------------------- MODULE Gate_proofs ----------------------------
(***************************************************************************)
(* Proofs about Gate for any set of threads and any environments: types,   *)
(* that nothing is faked before the library is initialised, that a skipped *)
(* command sees the real time and, where calls are counted under           *)
(* time_mutex, about the limits and the spawned command.                   *)
(***************************************************************************)
EXTENDS Gate, TLAPS

Outside == {"idle", "lock"}
Early == {"idle", "lock", "init", "unlock", "read", "fake", "return"}
Inside == {"count", "increment", "limits", "spawn", "launch", "mode", "abort"}

\* GateTypeOK, the types it leaves out, and the bound that keeps the counter
\* in its range.
Typed ==
  /\ GateTypeOK
  /\ pc \in [Thread -> Early \union Inside]
  /\ call \in [Thread -> {"time", "clock_gettime"}]
  /\ back \in [Thread -> BOOLEAN]
  /\ tp \in [Thread -> 0..MaxElapsed]
  /\ phase \in [Thread -> 0..2]
  /\ since \in [Thread -> 0..2]
  /\ reached \in 0..2
  /\ launches \in Nat
  /\ \A t \in Thread : pc[t] = "increment" => loaded[t] < CounterMax

\* Where the threads can be while the library is not yet initialised: all but
\* the one that holds the mutex are outside, and that one does not fake.
InitInv ==
  /\ state = "uninitialized" =>
       initMutex = None /\ \A t \in Thread : pc[t] \in Outside /\ ~back[t] /\ ~dont_fake[t]
  /\ state = "initializing" =>
       /\ initMutex \in Thread
       /\ \A t \in Thread :
            IF t = initMutex
            THEN /\ dont_fake[t]
                 /\ pc[t] \in {"init", "lock", "read", "fake", "return"}
                 /\ pc[t] # "init" => back[t]
            ELSE pc[t] \in Outside /\ ~back[t] /\ ~dont_fake[t]
  /\ \A t \in Thread : pc[t] \in {"init", "unlock"} => initMutex = t
  /\ \A t \in Thread : pc[t] = "init" => state = "initializing"
  /\ \A t \in Thread : back[t] /\ state = "ready" => pc[t] = "unlock"

\* A thread that does not fake is never inside; a skipped command has one,
\* and the mode of the others is FT_NOOP or overridden.
SkipInv ==
  /\ \A t \in Thread : dont_fake[t] => pc[t] \notin Inside /\ answer[t] = "real"
  /\ \A t \in Thread : answer[t] # "real" => pc[t] \in {"abort", "return"}
  /\ state = "ready" /\ env.skip =>
       (\E u \in Thread : dont_fake[u]) /\ (ft_mode = "noop" \/ env.at)
  /\ \A t \in Thread : answer[t] = "fake" /\ env.skip => state = "ready" /\ env.at

\* One thread at a time is inside, the one that holds time_mutex, so that the
\* value it increments is the counter's.
MutexInv ==
  env.mt =>
    /\ \A t \in Thread : pc[t] \in Inside <=> time_mutex = t
    /\ \A t \in Thread : pc[t] = "increment" => loaded[t] = callcounter

\* The types, who gets past an initialisation under way, and who is inside,
\* whatever the threads do.
LEMMA GateInvariant == GateSpec => [](Typed /\ InitInv /\ MutexInv)
\* Every variable keeps its type and the counter of calls its range, because
\* Count lets no thread increment it at LONG_MAX.
<1>typed. GateSpec => []Typed
  <2> USE GateAssumption
  <2>1. GateInit => Typed
    BY DEF GateInit, Typed, GateTypeOK, Early, Inside
  <2>2. Typed /\ [GateNext]_vars => Typed'
  <3> SUFFICES ASSUME Typed, [GateNext]_vars PROVE Typed'
    BY Zenon
  <3> USE DEF Typed, GateTypeOK, Early, Inside
  <3>1. ASSUME NEW t \in Thread, time(t) \/ clock_gettime(t) PROVE Typed'
    BY <3>1 DEF time, clock_gettime, Enter, Goto, At, shared, history
  <3>2. ASSUME NEW t \in Thread, InitLock(t) PROVE Typed'
    <4>1. CASE TakeInit(t) /\ state = "uninitialized"
      BY <3>2, <4>1, Zenon DEF InitLock, TakeInit, KeepRest, Goto, At, shared, history
    <4>2. CASE TakeInit(t) /\ state # "uninitialized"
      BY <3>2, <4>2, Zenon DEF InitLock, TakeInit, KeepRest, Goto, At, shared, history
    <4>3. CASE GoOn(t)
      BY <3>2, <4>3, Zenon DEF InitLock, GoOn, KeepRest, Goto, At, shared, history
    <4> QED
      BY <3>2, <4>1, <4>2, <4>3, Zenon DEF InitLock
  <3>3. ASSUME NEW t \in Thread, CallBack(t) PROVE Typed'
    BY <3>3, Zenon DEF CallBack, Goto, At, shared, history
  <3>4. ASSUME NEW t \in Thread, ftpl_really_init(t) PROVE Typed'
    BY <3>4, Zenon DEF ftpl_really_init, Goto, At, shared, history, Setting
  <3>5. ASSUME NEW t \in Thread, InitUnlock(t) PROVE Typed'
    BY <3>5, Zenon DEF InitUnlock, Goto, At, shared, history
  <3>6. ASSUME NEW t \in Thread, ReadReal(t) PROVE Typed'
    BY <3>6, Zenon DEF ReadReal, Goto, At, shared, history
  <3>7. ASSUME NEW t \in Thread, fake_clock_gettime(t) PROVE Typed'
    BY <3>7 DEF fake_clock_gettime, Goto, At, shared, history
  <3>8. ASSUME NEW t \in Thread, Count(t) PROVE Typed'
    BY <3>8, Zenon DEF Count, Goto, At, shared, history
  <3>9. ASSUME NEW t \in Thread, Increment(t) PROVE Typed'
    BY <3>9 DEF Increment, Goto, At, shared, history
  <3>10. ASSUME NEW t \in Thread, Limits(t) PROVE Typed'
    BY <3>10 DEF Limits, Goto, At, shared, history
  <3>11. ASSUME NEW t \in Thread, Spawn(t) PROVE Typed'
    BY <3>11, Zenon DEF Spawn, Goto, At, shared, history
  <3>12. ASSUME NEW t \in Thread, Launch(t) PROVE Typed'
    BY <3>12 DEF Launch, Goto, At, shared, history
  <3>13. ASSUME NEW t \in Thread, Mode(t) PROVE Typed'
    BY <3>13, Zenon DEF Mode, Goto, At, shared, history
  <3>14. ASSUME NEW t \in Thread, Abort(t) PROVE Typed'
    BY <3>14, Zenon DEF Abort, Goto, At, shared, history
  <3>15. ASSUME NEW t \in Thread, Return(t) PROVE Typed'
    BY <3>15 DEF Return, Goto, At, shared, history
  <3>16. ASSUME Tick PROVE Typed'
    BY <3>16 DEF Tick, history
  <3>17. ASSUME UNCHANGED vars PROVE Typed'
    BY <3>17, Zenon DEF vars
  <3> QED
    BY <3>1, <3>2, <3>3, <3>4, <3>5, <3>6, <3>7, <3>8, <3>9,
       <3>10, <3>11, <3>12, <3>13, <3>14, <3>15, <3>16, <3>17, Zenon DEF GateNext, Step
  <2> QED
    BY <2>1, <2>2, PTL DEF GateSpec
\* Until the library is initialised a thread that finds the mutex taken waits,
\* and the initialiser, which gets past it in a call of its own, returns with
\* the real time at dont_fake.
<1>init. GateSpec => []InitInv
  <2> USE GateAssumption
  <2>1. GateInit => InitInv
    BY Zenon DEF GateInit, InitInv, Outside
  <2>2. Typed /\ InitInv /\ [GateNext]_vars => InitInv'
  <3> SUFFICES ASSUME Typed, InitInv, [GateNext]_vars PROVE InitInv'
    BY Zenon
  <3> USE DEF Typed, GateTypeOK, Early, Inside, InitInv, Outside
  <3>1. ASSUME NEW t \in Thread, time(t) \/ clock_gettime(t) PROVE InitInv'
    BY <3>1 DEF time, clock_gettime, Enter, Goto, At, shared, history
  <3>2. ASSUME NEW t \in Thread, InitLock(t) PROVE InitInv'
    BY <3>2 DEF InitLock, TakeInit, GoOn, KeepRest, Goto, At, shared, history
  <3>3. ASSUME NEW t \in Thread, CallBack(t) PROVE InitInv'
    BY <3>3 DEF CallBack, Goto, At, shared, history
  <3>4. ASSUME NEW t \in Thread, ftpl_really_init(t) PROVE InitInv'
    BY <3>4, Zenon DEF ftpl_really_init, Goto, At, shared, history
  <3>5. ASSUME NEW t \in Thread, InitUnlock(t) PROVE InitInv'
    BY <3>5, Zenon DEF InitUnlock, Goto, At, shared, history
  <3>6. ASSUME NEW t \in Thread, ReadReal(t) PROVE InitInv'
    BY <3>6 DEF ReadReal, Goto, At, shared, history
  <3>7. ASSUME NEW t \in Thread, fake_clock_gettime(t) PROVE InitInv'
    BY <3>7 DEF fake_clock_gettime, Goto, At, shared, history
  <3>8. ASSUME NEW t \in Thread, Count(t) PROVE InitInv'
    BY <3>8, Zenon DEF Count, Goto, At, shared, history
  <3>9. ASSUME NEW t \in Thread, Increment(t) PROVE InitInv'
    BY <3>9, Zenon DEF Increment, Goto, At, shared, history
  <3>10. ASSUME NEW t \in Thread, Limits(t) PROVE InitInv'
    BY <3>10, Zenon DEF Limits, Goto, At, shared, history
  <3>11. ASSUME NEW t \in Thread, Spawn(t) PROVE InitInv'
    BY <3>11, Zenon DEF Spawn, Goto, At, shared, history
  <3>12. ASSUME NEW t \in Thread, Launch(t) PROVE InitInv'
    BY <3>12, Zenon DEF Launch, Goto, At, shared, history
  <3>13. ASSUME NEW t \in Thread, Mode(t) PROVE InitInv'
    BY <3>13, Zenon DEF Mode, Goto, At, shared, history
  <3>14. ASSUME NEW t \in Thread, Abort(t) PROVE InitInv'
    BY <3>14, Zenon DEF Abort, Goto, At, shared, history
  <3>15. ASSUME NEW t \in Thread, Return(t) PROVE InitInv'
    BY <3>15 DEF Return, Goto, At, shared, history
  <3>16. ASSUME Tick PROVE InitInv'
    BY <3>16, Zenon DEF Tick, history
  <3>17. ASSUME UNCHANGED vars PROVE InitInv'
    BY <3>17, Zenon DEF vars
  <3> QED
    BY <3>1, <3>2, <3>3, <3>4, <3>5, <3>6, <3>7, <3>8, <3>9,
       <3>10, <3>11, <3>12, <3>13, <3>14, <3>15, <3>16, <3>17, Zenon DEF GateNext, Step
  <2> QED
    BY <2>1, <2>2, <1>typed, PTL DEF GateSpec
\* Where calls are counted under time_mutex the threads count one at a time,
\* and no call is lost from the count.
<1>counted. GateSpec => []MutexInv
  <2> USE GateAssumption
  <2>1. GateInit => MutexInv
    BY DEF GateInit, MutexInv, Inside
  <2>2. Typed /\ MutexInv /\ [GateNext]_vars => MutexInv'
  <3> SUFFICES ASSUME Typed, MutexInv, [GateNext]_vars PROVE MutexInv'
    OBVIOUS
  <3> USE DEF Typed, GateTypeOK, Early, Inside, MutexInv
  <3>1. ASSUME NEW t \in Thread, time(t) \/ clock_gettime(t) PROVE MutexInv'
    BY <3>1 DEF time, clock_gettime, Enter, Goto, At, shared, history
  <3>2. ASSUME NEW t \in Thread, InitLock(t) PROVE MutexInv'
    BY <3>2 DEF InitLock, TakeInit, GoOn, KeepRest, Goto, At, shared, history
  <3>3. ASSUME NEW t \in Thread, CallBack(t) PROVE MutexInv'
    BY <3>3, Zenon DEF CallBack, Goto, At, shared, history
  <3>4. ASSUME NEW t \in Thread, ftpl_really_init(t) PROVE MutexInv'
    BY <3>4, Zenon DEF ftpl_really_init, Goto, At, shared, history
  <3>5. ASSUME NEW t \in Thread, InitUnlock(t) PROVE MutexInv'
    BY <3>5, Zenon DEF InitUnlock, Goto, At, shared, history
  <3>6. ASSUME NEW t \in Thread, ReadReal(t) PROVE MutexInv'
    BY <3>6, Zenon DEF ReadReal, Goto, At, shared, history
  <3>7. ASSUME NEW t \in Thread, fake_clock_gettime(t) PROVE MutexInv'
    BY <3>7 DEF fake_clock_gettime, Goto, At, shared, history
  <3>8. ASSUME NEW t \in Thread, Count(t) PROVE MutexInv'
    BY <3>8 DEF Count, Goto, At, shared, history
  <3>9. ASSUME NEW t \in Thread, Increment(t) PROVE MutexInv'
    BY <3>9 DEF Increment, Goto, At, shared, history
  <3>10. ASSUME NEW t \in Thread, Limits(t) PROVE MutexInv'
    BY <3>10 DEF Limits, Goto, At, shared, history
  <3>11. ASSUME NEW t \in Thread, Spawn(t) PROVE MutexInv'
    BY <3>11 DEF Spawn, Goto, At, shared, history
  <3>12. ASSUME NEW t \in Thread, Launch(t) PROVE MutexInv'
    BY <3>12 DEF Launch, Goto, At, shared, history
  <3>13. ASSUME NEW t \in Thread, Mode(t) PROVE MutexInv'
    BY <3>13 DEF Mode, Goto, At, shared, history
  <3>14. ASSUME NEW t \in Thread, Abort(t) PROVE MutexInv'
    BY <3>14 DEF Abort, Goto, At, shared, history
  <3>15. ASSUME NEW t \in Thread, Return(t) PROVE MutexInv'
    BY <3>15, Zenon DEF Return, Goto, At, shared, history
  <3>16. ASSUME Tick PROVE MutexInv'
    BY <3>16, Zenon DEF Tick, history
  <3>17. ASSUME UNCHANGED vars PROVE MutexInv'
    BY <3>17, Zenon DEF vars
  <3> QED
    BY <3>1, <3>2, <3>3, <3>4, <3>5, <3>6, <3>7, <3>8, <3>9,
       <3>10, <3>11, <3>12, <3>13, <3>14, <3>15, <3>16, <3>17, Zenon DEF GateNext, Step
  <2> QED
    BY <2>1, <2>2, <1>typed, PTL DEF GateSpec
<1> QED
  BY <1>typed, <1>init, <1>counted, PTL

\* GateTypeOK for any threads and environments; in particular the counter of
\* calls stays within its range, racing increments included.
THEOREM GateTypeCorrect == GateSpec => []GateTypeOK
<1>1. Typed => GateTypeOK
  BY Zenon DEF Typed
<1> QED
  BY <1>1, GateInvariant, PTL

\* FakedOnlyWhenReady on every thread: only the initialiser gets past the
\* mutex before it is done, and it does not get inside.
THEOREM ReadyFirst == GateSpec => []FakedOnlyWhenReady
<1>1. Typed /\ InitInv => FakedOnlyWhenReady
  BY Zenon DEF Typed, GateTypeOK, InitInv, Outside, FakedOnlyWhenReady
<1> QED
  BY <1>1, GateInvariant, PTL

\* SkippedSeesReal for any threads: the thread that initialised the library keeps
\* dont_fake, so that it never gets inside, and where the time does not
\* override it the mode refuses the others.
THEOREM SkippedIsReal == GateSpec => []SkippedSeesReal
<1> USE GateAssumption
<1>1. GateInit => InitInv /\ SkipInv
  BY Zenon DEF GateInit, InitInv, SkipInv, Outside, Inside
<1>2. Typed /\ InitInv /\ SkipInv /\ [GateNext]_vars => SkipInv'
<2> SUFFICES ASSUME Typed, InitInv, SkipInv, [GateNext]_vars PROVE SkipInv'
  BY Zenon
<2> USE DEF Typed, GateTypeOK, Early, Inside, InitInv, Outside, SkipInv
<2>1. ASSUME NEW t \in Thread, time(t) \/ clock_gettime(t) PROVE SkipInv'
  BY <2>1 DEF time, clock_gettime, Enter, Goto, At, shared, history
<2>2. ASSUME NEW t \in Thread, InitLock(t) PROVE SkipInv'
  BY <2>2 DEF InitLock, TakeInit, GoOn, KeepRest, Goto, At, shared, history
<2>3. ASSUME NEW t \in Thread, CallBack(t) PROVE SkipInv'
  BY <2>3 DEF CallBack, Goto, At, shared, history
<2>4. ASSUME NEW t \in Thread, ftpl_really_init(t) PROVE SkipInv'
  BY <2>4 DEF ftpl_really_init, Goto, At, shared, history, Setting
<2>5. ASSUME NEW t \in Thread, InitUnlock(t) PROVE SkipInv'
  BY <2>5 DEF InitUnlock, Goto, At, shared, history
<2>6. ASSUME NEW t \in Thread, ReadReal(t) PROVE SkipInv'
  BY <2>6 DEF ReadReal, Goto, At, shared, history
<2>7. ASSUME NEW t \in Thread, fake_clock_gettime(t) PROVE SkipInv'
  BY <2>7 DEF fake_clock_gettime, Goto, At, shared, history
<2>8. ASSUME NEW t \in Thread, Count(t) PROVE SkipInv'
  BY <2>8 DEF Count, Goto, At, shared, history
<2>9. ASSUME NEW t \in Thread, Increment(t) PROVE SkipInv'
  BY <2>9 DEF Increment, Goto, At, shared, history
<2>10. ASSUME NEW t \in Thread, Limits(t) PROVE SkipInv'
  BY <2>10 DEF Limits, Goto, At, shared, history
<2>11. ASSUME NEW t \in Thread, Spawn(t) PROVE SkipInv'
  BY <2>11 DEF Spawn, Goto, At, shared, history
<2>12. ASSUME NEW t \in Thread, Launch(t) PROVE SkipInv'
  BY <2>12 DEF Launch, Goto, At, shared, history
<2>13. ASSUME NEW t \in Thread, Mode(t) PROVE SkipInv'
  BY <2>13 DEF Mode, Goto, At, shared, history
<2>14. ASSUME NEW t \in Thread, Abort(t) PROVE SkipInv'
  BY <2>14 DEF Abort, Goto, At, shared, history
<2>15. ASSUME NEW t \in Thread, Return(t) PROVE SkipInv'
  BY <2>15 DEF Return, Goto, At, shared, history
<2>16. ASSUME Tick PROVE SkipInv'
  BY <2>16, Zenon DEF Tick, history
<2>17. ASSUME UNCHANGED vars PROVE SkipInv'
  BY <2>17, Zenon DEF vars
<2> QED
  BY <2>1, <2>2, <2>3, <2>4, <2>5, <2>6, <2>7, <2>8, <2>9,
     <2>10, <2>11, <2>12, <2>13, <2>14, <2>15, <2>16, <2>17, Zenon DEF GateNext, Step
<1>3. Typed /\ SkipInv => SkippedSeesReal
  BY Zenon DEF Typed, GateTypeOK, SkipInv, SkippedSeesReal
<1> QED
  BY <1>1, <1>2, <1>3, GateInvariant, PTL DEF GateSpec
-----------------------------------------------------------------------------
(* The limits and the spawned command *)

\* spawned tells whether the command was run.  The call that is to run it is
\* either past, and it was run, or on its way to it.
SpawnInv ==
  env.mt =>
    /\ launches = spawned
    /\ \A t \in Thread : pc[t] = "launch" => spawned = 0
    /\ env.spawn /\ ~limited_faking /\ env.spawnCalls > 0 =>
         /\ callcounter > env.spawnCalls => spawned = 1
         /\ callcounter = env.spawnCalls =>
              spawned = 1 \/ \E t \in Thread : pc[t] \in {"limits", "spawn", "launch"}

\* The limits as they are at second e with the count as it is.
StartedAt(e) ==
  /\ env.startSecs = Unset \/ e >= env.startSecs
  /\ env.startCalls = Unset \/ callcounter >= env.startCalls
StoppedAt(e) ==
  \/ env.stopSecs # Unset /\ e >= env.stopSecs
  \/ env.stopCalls # Unset /\ callcounter >= env.stopCalls
Reached(p, e) == (p = 1 => StartedAt(e)) /\ (p = 2 => StoppedAt(e))

\* What a call has seen of the limits still holds: the limits reached by the
\* calls that have returned, by the ones that had returned when this one
\* began, and by this one once it has passed them.
LimitInv ==
  env.mt =>
    /\ Reached(reached, elapsed)
    /\ \A t \in Thread :
         /\ tp[t] <= elapsed
         /\ pc[t] # "idle" => Reached(since[t], elapsed)
         /\ pc[t] \in {"fake", "count", "increment", "limits"} => Reached(since[t], tp[t])
         /\ pc[t] \in {"spawn", "launch", "mode", "abort", "return"} /\ ~dont_fake[t] =>
              phase[t] >= since[t] /\ Reached(phase[t], elapsed)

\* SpawnOnce for any threads: under time_mutex the command is run once, and
\* without limits the count does not pass its call before it was run.
THEOREM SpawnsOnce == GateSpec => []SpawnOnce
<1> USE GateAssumption
<1>1. GateInit => SpawnInv
  BY DEF GateInit, SpawnInv, Setting
<1>2. Typed /\ MutexInv /\ SpawnInv /\ [GateNext]_vars => SpawnInv'
<2> SUFFICES ASSUME Typed, MutexInv, SpawnInv, [GateNext]_vars PROVE SpawnInv'
  OBVIOUS
<2> USE DEF Typed, GateTypeOK, Early, Inside, MutexInv, SpawnInv, limited_faking, Setting
<2>1. ASSUME NEW t \in Thread, time(t) \/ clock_gettime(t) PROVE SpawnInv'
  BY <2>1 DEF time, clock_gettime, Enter, Goto, At, shared, history
<2>2. ASSUME NEW t \in Thread, InitLock(t) PROVE SpawnInv'
  BY <2>2 DEF InitLock, TakeInit, GoOn, KeepRest, Goto, At, shared, history
<2>3. ASSUME NEW t \in Thread, CallBack(t) PROVE SpawnInv'
  BY <2>3 DEF CallBack, Goto, At, shared, history
<2>4. ASSUME NEW t \in Thread, ftpl_really_init(t) PROVE SpawnInv'
  BY <2>4 DEF ftpl_really_init, Goto, At, shared, history
<2>5. ASSUME NEW t \in Thread, InitUnlock(t) PROVE SpawnInv'
  BY <2>5 DEF InitUnlock, Goto, At, shared, history
<2>6. ASSUME NEW t \in Thread, ReadReal(t) PROVE SpawnInv'
  BY <2>6 DEF ReadReal, Goto, At, shared, history
<2>7. ASSUME NEW t \in Thread, fake_clock_gettime(t) PROVE SpawnInv'
  BY <2>7 DEF fake_clock_gettime, Goto, At, shared, history
<2>8. ASSUME NEW t \in Thread, Count(t) PROVE SpawnInv'
  BY <2>8 DEF Count, Goto, At, shared, history
<2>9. ASSUME NEW t \in Thread, Increment(t) PROVE SpawnInv'
  BY <2>9 DEF Increment, Goto, At, shared, history
<2>10. ASSUME NEW t \in Thread, Limits(t) PROVE SpawnInv'
  BY <2>10 DEF Limits, Goto, At, shared, history
<2>11. ASSUME NEW t \in Thread, Spawn(t) PROVE SpawnInv'
  BY <2>11 DEF Spawn, Goto, At, shared, history
<2>12. ASSUME NEW t \in Thread, Launch(t) PROVE SpawnInv'
  BY <2>12 DEF Launch, Goto, At, shared, history
<2>13. ASSUME NEW t \in Thread, Mode(t) PROVE SpawnInv'
  BY <2>13 DEF Mode, Goto, At, shared, history
<2>14. ASSUME NEW t \in Thread, Abort(t) PROVE SpawnInv'
  BY <2>14 DEF Abort, Goto, At, shared, history
<2>15. ASSUME NEW t \in Thread, Return(t) PROVE SpawnInv'
  BY <2>15 DEF Return, Goto, At, shared, history
<2>16. ASSUME Tick PROVE SpawnInv'
  BY <2>16, Zenon DEF Tick, history
<2>17. ASSUME UNCHANGED vars PROVE SpawnInv'
  BY <2>17, Zenon DEF vars
<2> QED
  BY <2>1, <2>2, <2>3, <2>4, <2>5, <2>6, <2>7, <2>8, <2>9,
     <2>10, <2>11, <2>12, <2>13, <2>14, <2>15, <2>16, <2>17, Zenon DEF GateNext, Step
<1>3. Typed /\ SpawnInv => SpawnOnce
  BY DEF Typed, GateTypeOK, SpawnInv, SpawnOnce, Setting
<1> QED
  BY <1>1, <1>2, <1>3, GateInvariant, PTL DEF GateSpec

\* LimitsInOrder for any threads: seconds and the count only grow, so a limit
\* one call has passed is passed for every call that begins later.
THEOREM LimitsOrdered == GateSpec => []LimitsInOrder
<1> USE GateAssumption
<1>1. GateInit => LimitInv
  BY DEF GateInit, LimitInv, Reached
<1>2. Typed /\ MutexInv /\ LimitInv /\ [GateNext]_vars => LimitInv'
<2> SUFFICES ASSUME Typed, MutexInv, LimitInv, [GateNext]_vars PROVE LimitInv'
  OBVIOUS
<2> USE DEF Typed, GateTypeOK, Early, Inside, MutexInv, LimitInv, Reached, StartedAt,
        StoppedAt, Setting
<2>1. ASSUME NEW t \in Thread, time(t) \/ clock_gettime(t) PROVE LimitInv'
  BY <2>1 DEF time, clock_gettime, Enter, Goto, At, shared, history
<2>2. ASSUME NEW t \in Thread, InitLock(t) PROVE LimitInv'
  BY <2>2 DEF InitLock, TakeInit, GoOn, KeepRest, Goto, At, shared, history
<2>3. ASSUME NEW t \in Thread, CallBack(t) PROVE LimitInv'
  BY <2>3 DEF CallBack, Goto, At, shared, history
<2>4. ASSUME NEW t \in Thread, ftpl_really_init(t) PROVE LimitInv'
  BY <2>4 DEF ftpl_really_init, Goto, At, shared, history
<2>5. ASSUME NEW t \in Thread, InitUnlock(t) PROVE LimitInv'
  BY <2>5 DEF InitUnlock, Goto, At, shared, history
<2>6. ASSUME NEW t \in Thread, ReadReal(t) PROVE LimitInv'
  BY <2>6 DEF ReadReal, Goto, At, shared, history
<2>7. ASSUME NEW t \in Thread, fake_clock_gettime(t) PROVE LimitInv'
  BY <2>7 DEF fake_clock_gettime, Goto, At, shared, history
<2>8. ASSUME NEW t \in Thread, Count(t) PROVE LimitInv'
  BY <2>8 DEF Count, Goto, At, shared, history
<2>9. ASSUME NEW t \in Thread, Increment(t) PROVE LimitInv'
  BY <2>9 DEF Increment, Goto, At, shared, history
<2>10. ASSUME NEW t \in Thread, Limits(t) PROVE LimitInv'
  BY <2>10 DEF Limits, Goto, At, shared, history, NotStarted, Stopped
<2>11. ASSUME NEW t \in Thread, Spawn(t) PROVE LimitInv'
  BY <2>11 DEF Spawn, Goto, At, shared, history
<2>12. ASSUME NEW t \in Thread, Launch(t) PROVE LimitInv'
  BY <2>12 DEF Launch, Goto, At, shared, history
<2>13. ASSUME NEW t \in Thread, Mode(t) PROVE LimitInv'
  BY <2>13 DEF Mode, Goto, At, shared, history
<2>14. ASSUME NEW t \in Thread, Abort(t) PROVE LimitInv'
  BY <2>14 DEF Abort, Goto, At, shared, history
<2>15. ASSUME NEW t \in Thread, Return(t) PROVE LimitInv'
  BY <2>15 DEF Return, Goto, At, shared, history
<2>16. ASSUME Tick PROVE LimitInv'
  BY <2>16 DEF Tick, history
<2>17. ASSUME UNCHANGED vars PROVE LimitInv'
  BY <2>17, Zenon DEF vars
<2> QED
  BY <2>1, <2>2, <2>3, <2>4, <2>5, <2>6, <2>7, <2>8, <2>9,
     <2>10, <2>11, <2>12, <2>13, <2>14, <2>15, <2>16, <2>17, Zenon DEF GateNext, Step
<1>3. LimitInv => LimitsInOrder
  BY Zenon DEF LimitInv, LimitsInOrder, At
<1> QED
  BY <1>1, <1>2, <1>3, GateInvariant, PTL DEF GateSpec
=============================================================================

------------------------ MODULE ShmLifecycle_proofs -------------------------
(***************************************************************************)
(* Proofs about ShmLifecycle for any number of processes, left-over        *)
(* objects, failing system calls and executed programs: types, who removes *)
(* what, what is left over, which pair a process joins.                    *)
(***************************************************************************)
EXTENDS ShmLifecycle, TLAPS

\* TypeOK, with what keeps the count of attempts in its range and the name a
\* process maps a name.
Typed ==
  /\ TypeOK
  /\ \A p \in Proc : pc[p] \notin Ending \cup {"dead"} => retry_count[p] <= RetryLimit
  /\ \A p \in Proc : pc[p] = "map" => env[p] \in Name

\* What is there under a name was made by the process of that id or is
\* older than the session; how far a process is tells what there is under its
\* own name; and what the environment of a process names is not older, and its own when it
\* removes it.
Made ==
  /\ \A a \in Name : sem[a] \in {a, Old, None} /\ shm[a] \in {a, Old, None}
  /\ \A a \in Name : header[a] => shm[a] # None
  /\ \A p \in Proc : pc[p] \in {"c_shm", "w_shm"} => sem[p] = p
  /\ \A p \in Proc : pc[p] \in {"c_init", "w_init"} =>
       sem[p] = p /\ shm[p] = p /\ ~header[p]
  /\ \A p \in Proc : pc[p] \in {"c_env", "w_env", "u_sem"} \cup Waiting =>
       sem[p] = p /\ shm[p] = p /\ header[p]
  /\ \A p \in Proc : pc[p] = "u_shm" => shm[p] = p
  /\ \A p \in Proc : pc[p] \in {"x_sem", "x_shm"} => env[p] = p
  /\ \A p \in Proc : env[p] \in Proc => sem[env[p]] # Old /\ shm[env[p]] # Old

\* What a process that can still clean up owns, by how far it is: nothing
\* before it makes a pair and after its end; in between the pair is the one
\* its environment names and it knows that it made it.
Owns(p) == sem[p] = p \/ shm[p] = p

Accounted(p) ==
  /\ pc[p] \in {"off", "load", "c_sem", "w_sem", "dead"} => ~Owns(p)
  /\ pc[p] \in {"c_shm", "w_shm"} => shm[p] # p
  /\ pc[p] \in {"x_shm", "u_shm"} => sem[p] # p
  /\ pc[p] \in {"check", "attach", "map", "up", "exit", "x_open"} =>
       (Owns(p) => shmCreator[p] /\ env[p] = p /\ sem[p] = p)

Tidy == \A p \in Proc : tidy[p] => Accounted(p)

USE ShmAssumption DEF Goto, lib, objects, setup, Name, Maker

\* Nobody makes or removes what is under another process's name.
LEMMA MadeInvariant == ShmSpec => [](Typed /\ Made)
\* The variables keep their types; an attempt is counted only while the limit
\* of ft_shm_really_init has not been reached.
<1>typed. ShmSpec => []Typed
  <2>1. ShmInit => Typed
    BY DEF ShmInit, Typed, TypeOK, Labels, Creating, Starting, Wrapping, Waiting, Ending
  <2>2. Typed /\ [ShmNext]_vars => Typed'
  <3> SUFFICES ASSUME Typed, [ShmNext]_vars PROVE Typed'
    BY Zenon
  <3>a. /\ {"w_sem", "w_shm", "w_init", "w_env", "w_fork", "w_wait", "w_read", "c_sem",
            "c_shm", "c_init", "c_env", "load", "check", "attach", "map", "off", "up"}
             \subseteq Labels \ (Ending \cup {"dead"})
        /\ {"exit", "x_open", "x_sem", "x_shm", "u_sem", "u_shm", "dead"}
             \subseteq Labels \cap (Ending \cup {"dead"})
        /\ Waiting = {"w_fork", "w_wait", "w_read"}
    BY Zenon DEF Labels, Creating, Starting, Wrapping, Waiting, Ending
  <3> USE DEF TypeOK, Typed
  <3>e. ASSUME NEW p \in Proc, Ends(p), UNCHANGED <<setup, child, faults, execs>>,
               (sem \in [Name -> Maker] /\ shm \in [Name -> Maker] /\ header \in [Name -> BOOLEAN])',
               (tidy \in [Proc -> BOOLEAN])'
        PROVE  Typed'
    <4>1. TypeOK'
      BY <3>e, <3>a DEF Ends
    <4> QED
      BY <3>e, <3>a, <4>1 DEF Ends
  <3>d. ASSUME NEW p \in Proc, Done(p)
        PROVE  (env \in [Proc -> Name \cup {Bad, None}] /\ tidy \in [Proc -> BOOLEAN])'
    <4>1. CASE flshm /\ shmCreator[p]
      BY <3>d, <4>1, Zenon DEF Done
    <4>2. CASE ~(flshm /\ shmCreator[p])
      BY <3>d, <4>2, Zenon DEF Done
    <4> QED
      BY <4>1, <4>2, Zenon
  <3>1. ASSUME NEW p \in Proc, CreateSem(p)
        PROVE  Typed'
    BY <3>1, <3>a DEF CreateSem, ft_sem_create
  <3>2. ASSUME NEW p \in Proc, CreateShm(p)
        PROVE  Typed'
    BY <3>2, <3>a DEF CreateShm
  <3>3. ASSUME NEW p \in Proc, InitHeader(p)
        PROVE  Typed'
    BY <3>3, <3>a DEF InitHeader
  <3>4. ASSUME NEW p \in Proc, Export(p)
        PROVE  Typed'
    BY <3>4, <3>a DEF Export
  <3>5. ASSUME NEW p \in Proc, WrapperSem(p)
        PROVE  Typed'
    BY <3>5, <3>a DEF WrapperSem, ft_sem_create
  <3>6. ASSUME NEW p \in Proc, WrapperShm(p)
        PROVE  Typed'
    BY <3>6, <3>a DEF WrapperShm
  <3>7. ASSUME NEW p \in Proc, WrapperHeader(p)
        PROVE  Typed'
    BY <3>7, <3>a DEF WrapperHeader
  <3>8. ASSUME NEW p \in Proc, WrapperExport(p)
        PROVE  Typed'
    BY <3>8, <3>a DEF WrapperExport
  <3>9. ASSUME NEW p \in Proc, Load(p)
        PROVE  Typed'
    BY <3>9, <3>a DEF Load, CallCreate
  <3>10. ASSUME NEW p \in Proc, CheckStale(p)
        PROVE  Typed'
    BY <3>10, <3>a DEF CheckStale, CallCreate, SemGone
  <3>11. ASSUME NEW p \in Proc, RetryShared(p)
        PROVE  Typed'
    BY <3>11, <3>a DEF RetryShared, SemGone
  <3>12. ASSUME NEW p \in Proc, OpenShared(p)
        PROVE  Typed'
    <4>1. CASE env[p] = None
      <5>1. TypeOK'
        BY <3>12, <3>a, <3>d, <4>1 DEF OpenShared
      <5> QED
        BY <3>12, <3>a, <4>1, <5>1 DEF OpenShared, Done
    <4>2. CASE env[p] # None
      BY <3>12, <3>a, <4>2 DEF OpenShared
    <4> QED
      BY <4>1, <4>2, Zenon
  <3>13. ASSUME NEW p \in Proc, MapShared(p)
        PROVE  Typed'
    <4>1. CASE ft_shared_header_valid(env[p])
      <5>1. shm[env[p]] \in Maker
        BY <3>13, Zenon DEF MapShared
      <5>2. TypeOK'
        BY <3>13, <3>a, <3>d, <4>1, <5>1 DEF MapShared
      <5> QED
        BY <3>13, <3>a, <4>1, <5>2 DEF MapShared, Done
    <4>2. CASE ~ft_shared_header_valid(env[p])
      BY <3>13, <3>a, <4>2 DEF MapShared, Detach
    <4> QED
      BY <4>1, <4>2, Zenon
  <3>14. ASSUME NEW p \in Proc, ft_cleanup(p)
        PROVE  Typed'
    <4>1. CASE shmCreator[p]
      BY <3>14, <3>a, <4>1 DEF ft_cleanup, Detach
    <4>2. CASE ~shmCreator[p]
      BY <3>14, <4>2, <3>e, Zenon DEF ft_cleanup
    <4> QED
      BY <4>1, <4>2, Zenon
  <3>15. ASSUME NEW p \in Proc, OpenToDestroy(p)
        PROVE  Typed'
    <4>1. CASE env[p] = p /\ ~SemGone(p)
      BY <3>15, <3>a, <4>1 DEF OpenToDestroy
    <4>2. CASE env[p] # p \/ SemGone(p)
      BY <3>15, <4>2, <3>e, Zenon DEF OpenToDestroy
    <4> QED
      BY <4>1, <4>2, Zenon
  <3>16. ASSUME NEW p \in Proc, UnlinkSem(p)
        PROVE  Typed'
    <4>1. (sem \in [Name -> Maker] /\ pc \in [Proc -> Labels])'
      BY <3>16, <3>a, Zenon DEF UnlinkSem, Goto, Maker
    <4> QED
      BY <3>16, <3>a, <4>1 DEF UnlinkSem, Goto
  <3>17. ASSUME NEW p \in Proc, UnlinkShm(p)
        PROVE  Typed'
    BY <3>17, <3>e, Zenon DEF UnlinkShm
  <3>18. ASSUME NEW p \in Proc, NEW q \in Proc, WrapperFork(p, q)
        PROVE  Typed'
    BY <3>18, <3>a DEF WrapperFork
  <3>19. ASSUME NEW p \in Proc, WaitForChild(p)
        PROVE  Typed'
    BY <3>19, <3>a DEF WaitForChild
  <3>20. ASSUME NEW p \in Proc, WaitForPipe(p)
        PROVE  Typed'
    BY <3>20, <3>a DEF WaitForPipe
  <3>21. ASSUME NEW p \in Proc, WrapperUnlinkSem(p)
        PROVE  Typed'
    BY <3>21, <3>a DEF WrapperUnlinkSem
  <3>22. ASSUME NEW p \in Proc, WrapperUnlinkShm(p)
        PROVE  Typed'
    BY <3>22, <3>a DEF WrapperUnlinkShm
  <3>23. ASSUME NEW p \in Proc, InitFails(p)
        PROVE  Typed'
    BY <3>23, <3>a DEF InitFails, Faulty, RemoveBoth
  <3>24. ASSUME NEW p \in Proc, ExportFails(p)
        PROVE  Typed'
    BY <3>24, <3>a DEF ExportFails, Faulty, RemoveBoth
  <3>25. ASSUME NEW p \in Proc, MapFails(p)
        PROVE  Typed'
    BY <3>25, <3>a DEF MapFails, Faulty, Detach
  <3>26. ASSUME NEW p \in Proc, WrapperInitFails(p)
        PROVE  Typed'
    BY <3>26, <3>a DEF WrapperInitFails, Faulty, RemoveBoth
  <3>27. ASSUME NEW p \in Proc, WrapperExportFails(p)
        PROVE  Typed'
    BY <3>27, <3>a DEF WrapperExportFails, Faulty
  <3>28. ASSUME NEW p \in Proc, WrapperFails(p)
        PROVE  Typed'
    BY <3>28, <3>a DEF WrapperFails, Faulty
  <3>29. ASSUME NEW p \in Proc, NEW q \in Proc, Fork(p, q)
        PROVE  Typed'
    BY <3>29, <3>a DEF Fork, Running
  <3>30. ASSUME NEW p \in Proc, Exec(p)
        PROVE  Typed'
    BY <3>30, <3>a DEF Exec, Running
  <3>31. ASSUME NEW p \in Proc, CloseDescriptors(p)
        PROVE  Typed'
    BY <3>31, <3>a, Zenon DEF CloseDescriptors, Running
  <3>32. ASSUME NEW p \in Proc, Exit(p)
        PROVE  Typed'
    BY <3>32, <3>a DEF Exit, Running
  <3>33. ASSUME NEW p \in Proc, Kill(p)
        PROVE  Typed'
    BY <3>33, <3>e, Zenon DEF Kill
  <3>34. CASE GhostEnds
    <4>1. (sem \in [Name -> Maker] /\ shm \in [Name -> Maker] /\ header \in [Name -> BOOLEAN])'
      <5>1. CASE sem[Ghost] # None
        BY <3>34, <5>1, Zenon DEF GhostEnds, Maker
      <5>2. CASE sem[Ghost] = None
        BY <3>34, <5>2, Zenon DEF GhostEnds, Maker
      <5> QED
        BY <5>1, <5>2, Zenon
    <4> QED
      BY <3>34, <4>1, Zenon DEF GhostEnds
  <3>35. CASE UNCHANGED vars
    BY <3>35, Zenon DEF vars
  <3> QED
    BY <3>1, <3>2, <3>3, <3>4, <3>5, <3>6, <3>7, <3>8, <3>9, <3>10, <3>11, <3>12, <3>13,
       <3>14, <3>15, <3>16, <3>17, <3>18, <3>19, <3>20, <3>21, <3>22, <3>23, <3>24, <3>25,
       <3>26, <3>27, <3>28, <3>29, <3>30, <3>31, <3>32, <3>33, <3>34, <3>35, Zenon DEF ShmNext,
       Step, World
  <2> QED
    BY <2>1, <2>2, PTL DEF ShmSpec
<1>1. ShmInit => Made
  BY DEF ShmInit, Made, Waiting
<1>2. Typed /\ Made /\ [ShmNext]_vars => Made'
<2> SUFFICES ASSUME Typed, Made, [ShmNext]_vars PROVE Made'
  BY Zenon
<2>t. /\ sem \in [Name -> Maker] /\ shm \in [Name -> Maker] /\ header \in [Name -> BOOLEAN]
      /\ pc \in [Proc -> Labels] /\ env \in [Proc -> Name \cup {Bad, None}]
      /\ back \in [Proc -> {"check", "attach"}]
  BY Zenon DEF Typed, TypeOK
<2> USE DEF Made, Waiting
<2>1. ASSUME NEW p \in Proc, CreateSem(p)
      PROVE  Made'
  BY <2>1, <2>t DEF CreateSem, ft_sem_create
<2>2. ASSUME NEW p \in Proc, CreateShm(p)
      PROVE  Made'
  BY <2>2, <2>t DEF CreateShm
<2>3. ASSUME NEW p \in Proc, InitHeader(p)
      PROVE  Made'
  BY <2>3, <2>t DEF InitHeader
<2>4. ASSUME NEW p \in Proc, Export(p)
      PROVE  Made'
  BY <2>4, <2>t DEF Export
<2>5. ASSUME NEW p \in Proc, WrapperSem(p)
      PROVE  Made'
  BY <2>5, <2>t DEF WrapperSem, ft_sem_create
<2>6. ASSUME NEW p \in Proc, WrapperShm(p)
      PROVE  Made'
  BY <2>6, <2>t DEF WrapperShm
<2>7. ASSUME NEW p \in Proc, WrapperHeader(p)
      PROVE  Made'
  BY <2>7, <2>t DEF WrapperHeader
<2>8. ASSUME NEW p \in Proc, WrapperExport(p)
      PROVE  Made'
  BY <2>8, <2>t DEF WrapperExport
<2>9. ASSUME NEW p \in Proc, Load(p)
      PROVE  Made'
  BY <2>9, <2>t DEF Load, CallCreate
<2>10. ASSUME NEW p \in Proc, CheckStale(p)
      PROVE  Made'
  BY <2>10, <2>t DEF CheckStale, CallCreate, SemGone
<2>11. ASSUME NEW p \in Proc, RetryShared(p)
      PROVE  Made'
  BY <2>11, <2>t DEF RetryShared, SemGone
<2>12. ASSUME NEW p \in Proc, OpenShared(p)
      PROVE  Made'
  BY <2>12, <2>t DEF OpenShared, SemGone, Done
<2>13. ASSUME NEW p \in Proc, MapShared(p)
      PROVE  Made'
  BY <2>13, <2>t DEF MapShared, ft_shared_header_valid, Detach, Done
<2>14. ASSUME NEW p \in Proc, ft_cleanup(p)
      PROVE  Made'
  BY <2>14, <2>t DEF ft_cleanup, Detach, Ends
<2>15. ASSUME NEW p \in Proc, OpenToDestroy(p)
      PROVE  Made'
  BY <2>15, <2>t DEF OpenToDestroy, SemGone, Ends
<2>16. ASSUME NEW p \in Proc, UnlinkSem(p)
      PROVE  Made'
  BY <2>16, <2>t DEF UnlinkSem
<2>17. ASSUME NEW p \in Proc, UnlinkShm(p)
      PROVE  Made'
  BY <2>17, <2>t DEF UnlinkShm, Ends
<2>18. ASSUME NEW p \in Proc, NEW q \in Proc, WrapperFork(p, q)
      PROVE  Made'
  BY <2>18, <2>t DEF WrapperFork
<2>19. ASSUME NEW p \in Proc, WaitForChild(p)
      PROVE  Made'
  BY <2>19, <2>t DEF WaitForChild
<2>20. ASSUME NEW p \in Proc, WaitForPipe(p)
      PROVE  Made'
  BY <2>20, <2>t DEF WaitForPipe
<2>21. ASSUME NEW p \in Proc, WrapperUnlinkSem(p)
      PROVE  Made'
  BY <2>21, <2>t DEF WrapperUnlinkSem
<2>22. ASSUME NEW p \in Proc, WrapperUnlinkShm(p)
      PROVE  Made'
  BY <2>22, <2>t DEF WrapperUnlinkShm
<2>23. ASSUME NEW p \in Proc, InitFails(p)
      PROVE  Made'
  BY <2>23, <2>t DEF InitFails, Faulty, RemoveBoth
<2>24. ASSUME NEW p \in Proc, ExportFails(p)
      PROVE  Made'
  BY <2>24, <2>t DEF ExportFails, Faulty, RemoveBoth
<2>25. ASSUME NEW p \in Proc, MapFails(p)
      PROVE  Made'
  BY <2>25, <2>t DEF MapFails, Faulty, Detach
<2>26. ASSUME NEW p \in Proc, WrapperInitFails(p)
      PROVE  Made'
  BY <2>26, <2>t DEF WrapperInitFails, Faulty, RemoveBoth
<2>27. ASSUME NEW p \in Proc, WrapperExportFails(p)
      PROVE  Made'
  BY <2>27, <2>t DEF WrapperExportFails, Faulty
<2>28. ASSUME NEW p \in Proc, WrapperFails(p)
      PROVE  Made'
  BY <2>28, <2>t DEF WrapperFails, Faulty
<2>29. ASSUME NEW p \in Proc, NEW q \in Proc, Fork(p, q)
      PROVE  Made'
  BY <2>29, <2>t DEF Fork, Running
<2>30. ASSUME NEW p \in Proc, Exec(p)
      PROVE  Made'
  BY <2>30, <2>t DEF Exec, Running
<2>31. ASSUME NEW p \in Proc, CloseDescriptors(p)
      PROVE  Made'
  BY <2>31, <2>t, Zenon DEF CloseDescriptors, Running
<2>32. ASSUME NEW p \in Proc, Exit(p)
      PROVE  Made'
  BY <2>32, <2>t DEF Exit, Running
<2>33. ASSUME NEW p \in Proc, Kill(p)
      PROVE  Made'
  BY <2>33, <2>t DEF Kill, Ends
<2>34. CASE GhostEnds
  BY <2>34, <2>t DEF GhostEnds
<2>35. CASE UNCHANGED vars
  BY <2>35, Zenon DEF vars
<2> QED
  BY <2>1, <2>2, <2>3, <2>4, <2>5, <2>6, <2>7, <2>8, <2>9, <2>10, <2>11, <2>12, <2>13,
     <2>14, <2>15, <2>16, <2>17, <2>18, <2>19, <2>20, <2>21, <2>22, <2>23, <2>24, <2>25,
     <2>26, <2>27, <2>28, <2>29, <2>30, <2>31, <2>32, <2>33, <2>34, <2>35, Zenon DEF ShmNext,
     Step, World
<1> QED
  BY <1>typed, <1>1, <1>2, PTL DEF ShmSpec

\* Whatever fails, whoever is killed or executes another program, the state of
\* the library and of the objects keeps its type, and no process tries more
\* often than FT_SHM_RETRY_LIMIT allows.
THEOREM ShmTypeCorrect == ShmSpec => []TypeOK
  BY MadeInvariant, PTL DEF Typed

\* Objects are removed only by a step of the process that made them, and what
\* is left over from an earlier process of the same id is not touched: ft_shm_destroy()
\* goes by the name in the environment, which is the process's own only if it made it.
THEOREM MakerRemoves == ShmSpec => OnlyMakerRemoves
<1> DEFINE Kept(r) ==
      /\ sem[r] = Old => sem'[r] = Old
      /\ shm[r] = Old => shm'[r] = Old
      /\ sem[r] = r /\ sem'[r] # r => pc[r] # pc'[r]
      /\ shm[r] = r /\ shm'[r] # r => pc[r] # pc'[r]
<1>1. Typed /\ Made /\ [ShmNext]_vars => [\A p \in Proc : Kept(p)]_vars
<2> SUFFICES ASSUME Typed, Made, [ShmNext]_vars, NEW r \in Proc PROVE Kept(r)
  BY Zenon
<2>t. /\ sem \in [Name -> Maker] /\ shm \in [Name -> Maker] /\ header \in [Name -> BOOLEAN]
      /\ pc \in [Proc -> Labels] /\ env \in [Proc -> Name \cup {Bad, None}]
      /\ back \in [Proc -> {"check", "attach"}]
  BY Zenon DEF Typed, TypeOK
<2> USE DEF Made, Waiting
<2>1. ASSUME NEW p \in Proc, CreateSem(p)
      PROVE  Kept(r)
  BY <2>1, <2>t DEF CreateSem, ft_sem_create
<2>2. ASSUME NEW p \in Proc, CreateShm(p)
      PROVE  Kept(r)
  BY <2>2, <2>t DEF CreateShm
<2>3. ASSUME NEW p \in Proc, WrapperSem(p)
      PROVE  Kept(r)
  BY <2>3, <2>t DEF WrapperSem, ft_sem_create
<2>4. ASSUME NEW p \in Proc, WrapperShm(p)
      PROVE  Kept(r)
  BY <2>4, <2>t DEF WrapperShm
<2>5. ASSUME NEW p \in Proc,
             \/ Load(p) \/ CheckStale(p) \/ RetryShared(p) \/ OpenShared(p) \/ MapShared(p)
             \/ ft_cleanup(p) \/ OpenToDestroy(p) \/ WaitForChild(p) \/ WaitForPipe(p) \/ MapFails(p)
             \/ WrapperExportFails(p) \/ WrapperFails(p) \/ Exec(p) \/ CloseDescriptors(p) \/ Exit(p)
             \/ Kill(p) \/ InitHeader(p) \/ Export(p) \/ WrapperHeader(p) \/ WrapperExport(p)
      PROVE  Kept(r)
  BY <2>5, <2>t, Zenon DEF Load, CallCreate, CheckStale, SemGone, RetryShared, OpenShared, Done,
     MapShared, ft_shared_header_valid, Detach, ft_cleanup, Ends, OpenToDestroy,
     WaitForChild, WaitForPipe, MapFails, Faulty, WrapperExportFails, WrapperFails, Exec,
     Running, CloseDescriptors, Exit, Kill, InitHeader, Export, WrapperHeader, WrapperExport
<2>6. ASSUME NEW p \in Proc, UnlinkSem(p)
      PROVE  Kept(r)
  BY <2>6, <2>t DEF UnlinkSem
<2>7. ASSUME NEW p \in Proc, UnlinkShm(p)
      PROVE  Kept(r)
  BY <2>7, <2>t DEF UnlinkShm, Ends
<2>8. ASSUME NEW p \in Proc, NEW q \in Proc, WrapperFork(p, q) \/ Fork(p, q)
      PROVE  Kept(r)
  BY <2>8, <2>t, Zenon DEF WrapperFork, Fork, Running
<2>9. ASSUME NEW p \in Proc, WrapperUnlinkSem(p)
      PROVE  Kept(r)
  BY <2>9, <2>t DEF WrapperUnlinkSem
<2>10. ASSUME NEW p \in Proc, WrapperUnlinkShm(p)
      PROVE  Kept(r)
  BY <2>10, <2>t DEF WrapperUnlinkShm
<2>11. ASSUME NEW p \in Proc, InitFails(p)
      PROVE  Kept(r)
  BY <2>11, <2>t DEF InitFails, Faulty, RemoveBoth
<2>12. ASSUME NEW p \in Proc, ExportFails(p)
      PROVE  Kept(r)
  BY <2>12, <2>t DEF ExportFails, Faulty, RemoveBoth
<2>13. ASSUME NEW p \in Proc, WrapperInitFails(p)
      PROVE  Kept(r)
  BY <2>13, <2>t DEF WrapperInitFails, Faulty, RemoveBoth
<2>14. CASE GhostEnds
  BY <2>14, <2>t DEF GhostEnds
<2>15. CASE UNCHANGED vars
  BY <2>15, Zenon DEF vars
<2> QED
  BY <2>1, <2>2, <2>3, <2>4, <2>5, <2>6, <2>7, <2>8, <2>9, <2>10, <2>11, <2>12, <2>13,
     <2>14, <2>15, Zenon DEF ShmNext, Step, World
<1> QED
  BY MadeInvariant, <1>1, PTL DEF ShmSpec, OnlyMakerRemoves

\* A process that ends by itself leaves neither a semaphore nor shared memory of
\* its own, whatever failed in ft_shm_create() and however often it was called.  The
\* invariant is that a process that can clean up owns a pair only where it will come
\* to remove it.
THEOREM LeavesNothing == ShmSpec => []NothingLeft
<1>1. ShmInit => Tidy
  BY DEF ShmInit, Tidy, Accounted, Owns
<1>2. Typed /\ Made /\ Tidy /\ [ShmNext]_vars => Tidy'
<2> SUFFICES ASSUME Typed, Made, Tidy, [ShmNext]_vars PROVE Tidy'
  BY Zenon
<2>t. /\ sem \in [Name -> Maker] /\ shm \in [Name -> Maker] /\ pc \in [Proc -> Labels]
      /\ env \in [Proc -> Name \cup {Bad, None}] /\ back \in [Proc -> {"check", "attach"}]
      /\ shmCreator \in [Proc -> BOOLEAN] /\ tidy \in [Proc -> BOOLEAN]
  BY Zenon DEF Typed, TypeOK
<2> USE DEF Made, Waiting, Tidy, Accounted, Owns
<2>1. ASSUME NEW p \in Proc, CreateSem(p)
      PROVE  Tidy'
  BY <2>1, <2>t DEF CreateSem, ft_sem_create
<2>2. ASSUME NEW p \in Proc, CreateShm(p)
      PROVE  Tidy'
  BY <2>2, <2>t DEF CreateShm
<2>3. ASSUME NEW p \in Proc, InitHeader(p)
      PROVE  Tidy'
  BY <2>3, <2>t DEF InitHeader
<2>4. ASSUME NEW p \in Proc, Export(p)
      PROVE  Tidy'
  BY <2>4, <2>t DEF Export
<2>5. ASSUME NEW p \in Proc, WrapperSem(p)
      PROVE  Tidy'
  BY <2>5, <2>t DEF WrapperSem, ft_sem_create
<2>6. ASSUME NEW p \in Proc, WrapperShm(p)
      PROVE  Tidy'
  BY <2>6, <2>t DEF WrapperShm
<2>7. ASSUME NEW p \in Proc, WrapperHeader(p)
      PROVE  Tidy'
  BY <2>7, <2>t DEF WrapperHeader
<2>8. ASSUME NEW p \in Proc, WrapperExport(p)
      PROVE  Tidy'
  BY <2>8, <2>t DEF WrapperExport
<2>9. ASSUME NEW p \in Proc, Load(p)
      PROVE  Tidy'
  BY <2>9, <2>t DEF Load, CallCreate
<2>10. ASSUME NEW p \in Proc, CheckStale(p)
      PROVE  Tidy'
  BY <2>10, <2>t DEF CheckStale, CallCreate, SemGone
<2>11. ASSUME NEW p \in Proc, RetryShared(p)
      PROVE  Tidy'
  BY <2>11, <2>t DEF RetryShared, SemGone
<2>12. ASSUME NEW p \in Proc, OpenShared(p)
      PROVE  Tidy'
  BY <2>12, <2>t DEF OpenShared, SemGone, Done
<2>13. ASSUME NEW p \in Proc, MapShared(p)
      PROVE  Tidy'
  BY <2>13, <2>t DEF MapShared, ft_shared_header_valid, Detach, Done
<2>14. ASSUME NEW p \in Proc, ft_cleanup(p)
      PROVE  Tidy'
  BY <2>14, <2>t DEF ft_cleanup, Detach, Ends
<2>15. ASSUME NEW p \in Proc, OpenToDestroy(p)
      PROVE  Tidy'
  BY <2>15, <2>t DEF OpenToDestroy, SemGone, Ends
<2>16. ASSUME NEW p \in Proc, UnlinkSem(p)
      PROVE  Tidy'
  BY <2>16, <2>t DEF UnlinkSem
<2>17. ASSUME NEW p \in Proc, UnlinkShm(p)
      PROVE  Tidy'
  BY <2>17, <2>t DEF UnlinkShm, Ends
<2>18. ASSUME NEW p \in Proc, NEW q \in Proc, WrapperFork(p, q)
      PROVE  Tidy'
  BY <2>18, <2>t DEF WrapperFork
<2>19. ASSUME NEW p \in Proc, WaitForChild(p)
      PROVE  Tidy'
  BY <2>19, <2>t DEF WaitForChild
<2>20. ASSUME NEW p \in Proc, WaitForPipe(p)
      PROVE  Tidy'
  BY <2>20, <2>t DEF WaitForPipe
<2>21. ASSUME NEW p \in Proc, WrapperUnlinkSem(p)
      PROVE  Tidy'
  BY <2>21, <2>t DEF WrapperUnlinkSem
<2>22. ASSUME NEW p \in Proc, WrapperUnlinkShm(p)
      PROVE  Tidy'
  BY <2>22, <2>t DEF WrapperUnlinkShm
<2>23. ASSUME NEW p \in Proc, InitFails(p)
      PROVE  Tidy'
  BY <2>23, <2>t DEF InitFails, Faulty, RemoveBoth
<2>24. ASSUME NEW p \in Proc, ExportFails(p)
      PROVE  Tidy'
  BY <2>24, <2>t DEF ExportFails, Faulty, RemoveBoth
<2>25. ASSUME NEW p \in Proc, MapFails(p)
      PROVE  Tidy'
  BY <2>25, <2>t DEF MapFails, Faulty, Detach
<2>26. ASSUME NEW p \in Proc, WrapperInitFails(p)
      PROVE  Tidy'
  BY <2>26, <2>t DEF WrapperInitFails, Faulty, RemoveBoth
<2>27. ASSUME NEW p \in Proc, WrapperExportFails(p)
      PROVE  Tidy'
  BY <2>27, <2>t DEF WrapperExportFails, Faulty
<2>28. ASSUME NEW p \in Proc, WrapperFails(p)
      PROVE  Tidy'
  BY <2>28, <2>t DEF WrapperFails, Faulty
<2>29. ASSUME NEW p \in Proc, NEW q \in Proc, Fork(p, q)
      PROVE  Tidy'
  BY <2>29, <2>t DEF Fork, Running
<2>30. ASSUME NEW p \in Proc, Exec(p)
      PROVE  Tidy'
  BY <2>30, <2>t DEF Exec, Running
<2>31. ASSUME NEW p \in Proc, CloseDescriptors(p)
      PROVE  Tidy'
  BY <2>31, <2>t, Zenon DEF CloseDescriptors, Running
<2>32. ASSUME NEW p \in Proc, Exit(p)
      PROVE  Tidy'
  BY <2>32, <2>t DEF Exit, Running
<2>33. ASSUME NEW p \in Proc, Kill(p)
      PROVE  Tidy'
  BY <2>33, <2>t DEF Kill, Ends
<2>34. CASE GhostEnds
  BY <2>34, <2>t DEF GhostEnds
<2>35. CASE UNCHANGED vars
  BY <2>35, Zenon DEF vars
<2> QED
  BY <2>1, <2>2, <2>3, <2>4, <2>5, <2>6, <2>7, <2>8, <2>9, <2>10, <2>11, <2>12, <2>13,
     <2>14, <2>15, <2>16, <2>17, <2>18, <2>19, <2>20, <2>21, <2>22, <2>23, <2>24, <2>25,
     <2>26, <2>27, <2>28, <2>29, <2>30, <2>31, <2>32, <2>33, <2>34, <2>35, Zenon DEF ShmNext,
     Step, World
<1>3. Tidy => NothingLeft
  BY Zenon DEF Tidy, Accounted, Owns, NothingLeft
<1> QED
  BY MadeInvariant, <1>1, <1>2, <1>3, PTL DEF ShmSpec
-----------------------------------------------------------------------------
(* Whole pairs and one session *)

\* A process has memory mapped only when it runs or begins to exit; the
\* semaphore it opened before is of the pair its environment names.
Joined ==
  \A p \in Proc :
    /\ pc[p] \notin {"up", "exit"} => ft_shared[p] = None
    /\ pc[p] = "map" => shared_sem[p] = (IF env[p] = Ghost THEN Old ELSE env[p])

\* The session of a wrapper none of whose calls fails: as long as somebody
\* holds its pipe its pair is there, and who holds it has the pair's name and
\* makes none of their own.
Holding == {"load", "check", "attach", "map", "up", "exit"}
Session ==
  /\ \A p \in Proc : pc[p] \in Wrapping \cup Waiting \cup {"u_sem", "u_shm"} => p = Root
  /\ \A p \in Proc : pc[p] = "off" => ~shmCreator[p]
  /\ wrapped => pc[Root] \in Wrapping \cup Waiting \cup {"u_sem", "u_shm", "dead"}
  /\ wrapped /\ ~flshm /\ faults = 0 =>
       /\ pc[Root] = "w_fork" => env[Root] = Root
       /\ \A p \in Proc : keepalive[p] =>
            /\ pc[Root] \in {"w_wait", "w_read", "dead"}
            /\ sem[Root] = Root /\ shm[Root] = Root /\ header[Root]
            /\ pc[p] \in Holding /\ ~shmCreator[p]
            /\ pc[p] # "exit" => env[p] = Root
            /\ pc[p] \in {"map", "up"} => shared_sem[p] = Root
            /\ pc[p] = "up" => ft_shared[p] = Root

\* What ft_shm_create(), ft_shm_really_init(), ft_shm_destroy() and the wrapper do
\* step by step implements SharedPair: a process joins the semaphore and the memory of one
\* pair whose header is complete, whatever is made, removed or left over
\* at the same time, or shares its parent's.
THEOREM WholePairs == ShmSpec => JoinsWholePair
\* A process holds memory only after it has found its header valid, and its
\* semaphore is of the same pair.
<1>joined. ShmSpec => []Joined
  <2>1. ShmInit => Joined
    BY Zenon DEF ShmInit, Joined
  <2>2. Typed /\ Made /\ Joined /\ [ShmNext]_vars => Joined'
  <3> SUFFICES ASSUME Typed, Made, Joined, [ShmNext]_vars PROVE Joined'
    BY Zenon
  <3>t. /\ sem \in [Name -> Maker] /\ pc \in [Proc -> Labels]
        /\ env \in [Proc -> Name \cup {Bad, None}] /\ back \in [Proc -> {"check", "attach"}]
        /\ shared_sem \in [Proc -> Maker] /\ ft_shared \in [Proc -> Maker]
    BY Zenon DEF Typed, TypeOK
  <3> USE DEF Made, Waiting, Joined
  <3>1. ASSUME NEW p \in Proc, CreateSem(p)
        PROVE  Joined'
    BY <3>1, <3>t DEF CreateSem, ft_sem_create
  <3>2. ASSUME NEW p \in Proc, CreateShm(p)
        PROVE  Joined'
    BY <3>2, <3>t DEF CreateShm
  <3>3. ASSUME NEW p \in Proc, InitHeader(p)
        PROVE  Joined'
    BY <3>3, <3>t DEF InitHeader
  <3>4. ASSUME NEW p \in Proc, Export(p)
        PROVE  Joined'
    BY <3>4, <3>t DEF Export
  <3>5. ASSUME NEW p \in Proc, WrapperSem(p)
        PROVE  Joined'
    BY <3>5, <3>t DEF WrapperSem, ft_sem_create
  <3>6. ASSUME NEW p \in Proc, WrapperShm(p)
        PROVE  Joined'
    BY <3>6, <3>t DEF WrapperShm
  <3>7. ASSUME NEW p \in Proc, WrapperHeader(p)
        PROVE  Joined'
    BY <3>7, <3>t DEF WrapperHeader
  <3>8. ASSUME NEW p \in Proc, WrapperExport(p)
        PROVE  Joined'
    BY <3>8, <3>t DEF WrapperExport
  <3>9. ASSUME NEW p \in Proc, Load(p)
        PROVE  Joined'
    BY <3>9, <3>t DEF Load, CallCreate
  <3>10. ASSUME NEW p \in Proc, CheckStale(p)
        PROVE  Joined'
    BY <3>10, <3>t DEF CheckStale, CallCreate, SemGone
  <3>11. ASSUME NEW p \in Proc, RetryShared(p)
        PROVE  Joined'
    BY <3>11, <3>t DEF RetryShared, SemGone
  <3>12. ASSUME NEW p \in Proc, OpenShared(p)
        PROVE  Joined'
    BY <3>12, <3>t DEF OpenShared, SemGone, Done
  <3>13. ASSUME NEW p \in Proc, MapShared(p)
        PROVE  Joined'
    BY <3>13, <3>t DEF MapShared, ft_shared_header_valid, Detach, Done
  <3>14. ASSUME NEW p \in Proc, ft_cleanup(p)
        PROVE  Joined'
    BY <3>14, <3>t DEF ft_cleanup, Detach, Ends
  <3>15. ASSUME NEW p \in Proc, OpenToDestroy(p)
        PROVE  Joined'
    BY <3>15, <3>t DEF OpenToDestroy, SemGone, Ends
  <3>16. ASSUME NEW p \in Proc, UnlinkSem(p)
        PROVE  Joined'
    BY <3>16, <3>t DEF UnlinkSem
  <3>17. ASSUME NEW p \in Proc, UnlinkShm(p)
        PROVE  Joined'
    BY <3>17, <3>t DEF UnlinkShm, Ends
  <3>18. ASSUME NEW p \in Proc, NEW q \in Proc, WrapperFork(p, q)
        PROVE  Joined'
    BY <3>18, <3>t DEF WrapperFork
  <3>19. ASSUME NEW p \in Proc, WaitForChild(p)
        PROVE  Joined'
    BY <3>19, <3>t DEF WaitForChild
  <3>20. ASSUME NEW p \in Proc, WaitForPipe(p)
        PROVE  Joined'
    BY <3>20, <3>t DEF WaitForPipe
  <3>21. ASSUME NEW p \in Proc, WrapperUnlinkSem(p)
        PROVE  Joined'
    BY <3>21, <3>t DEF WrapperUnlinkSem
  <3>22. ASSUME NEW p \in Proc, WrapperUnlinkShm(p)
        PROVE  Joined'
    BY <3>22, <3>t DEF WrapperUnlinkShm
  <3>23. ASSUME NEW p \in Proc, InitFails(p)
        PROVE  Joined'
    BY <3>23, <3>t DEF InitFails, Faulty, RemoveBoth
  <3>24. ASSUME NEW p \in Proc, ExportFails(p)
        PROVE  Joined'
    BY <3>24, <3>t DEF ExportFails, Faulty, RemoveBoth
  <3>25. ASSUME NEW p \in Proc, MapFails(p)
        PROVE  Joined'
    BY <3>25, <3>t DEF MapFails, Faulty, Detach
  <3>26. ASSUME NEW p \in Proc, WrapperInitFails(p)
        PROVE  Joined'
    BY <3>26, <3>t DEF WrapperInitFails, Faulty, RemoveBoth
  <3>27. ASSUME NEW p \in Proc, WrapperExportFails(p)
        PROVE  Joined'
    BY <3>27, <3>t DEF WrapperExportFails, Faulty
  <3>28. ASSUME NEW p \in Proc, WrapperFails(p)
        PROVE  Joined'
    BY <3>28, <3>t DEF WrapperFails, Faulty
  <3>29. ASSUME NEW p \in Proc, NEW q \in Proc, Fork(p, q)
        PROVE  Joined'
    BY <3>29, <3>t DEF Fork, Running
  <3>30. ASSUME NEW p \in Proc, Exec(p)
        PROVE  Joined'
    BY <3>30, <3>t DEF Exec, Running
  <3>31. ASSUME NEW p \in Proc, CloseDescriptors(p)
        PROVE  Joined'
    BY <3>31, <3>t, Zenon DEF CloseDescriptors, Running
  <3>32. ASSUME NEW p \in Proc, Exit(p)
        PROVE  Joined'
    BY <3>32, <3>t DEF Exit, Running
  <3>33. ASSUME NEW p \in Proc, Kill(p)
        PROVE  Joined'
    BY <3>33, <3>t DEF Kill, Ends
  <3>34. CASE GhostEnds
    BY <3>34, <3>t, Zenon DEF GhostEnds
  <3>35. CASE UNCHANGED vars
    BY <3>35, Zenon DEF vars
  <3> QED
    BY <3>1, <3>2, <3>3, <3>4, <3>5, <3>6, <3>7, <3>8, <3>9, <3>10, <3>11, <3>12, <3>13,
       <3>14, <3>15, <3>16, <3>17, <3>18, <3>19, <3>20, <3>21, <3>22, <3>23, <3>24, <3>25,
       <3>26, <3>27, <3>28, <3>29, <3>30, <3>31, <3>32, <3>33, <3>34, <3>35, Zenon DEF ShmNext,
       Step, World
  <2> QED
    BY MadeInvariant, <2>1, <2>2, PTL DEF ShmSpec
<1> DEFINE MADE == {p \in Proc : shm[p] = p /\ header[p]}
           MEMBER == [p \in Proc |-> IF ft_shared[p] = None \/ shared_sem[p] = ft_shared[p]
                                     THEN ft_shared[p] ELSE Half]
<1>1. ShmInit => Pair!PInit
  BY Zenon DEF ShmInit, Pair!PInit
<1>2. Typed /\ Made /\ Joined /\ [ShmNext]_vars => [Pair!PNext]_(Pair!pvars)
<2> SUFFICES ASSUME Typed, Made, Joined, [ShmNext]_vars PROVE [Pair!PNext]_(Pair!pvars)
  BY Zenon
<2> USE DEF TypeOK, Typed, Made, Waiting, Joined, Pair!pvars, Pair!PNext
<2>0. ASSUME NEW p \in Proc, NEW o, ft_shared' = [ft_shared EXCEPT ![p] = o],
             shared_sem \in [Proc -> Maker], ft_shared \in [Proc -> Maker],
             shared_sem' = [shared_sem EXCEPT ![p] = o]
      PROVE  MEMBER' = [MEMBER EXCEPT ![p] = o]
  <3> HIDE DEF Typed, TypeOK, Made, Joined
  <3>1. \A r \in Proc : MEMBER'[r] = IF r = p THEN o ELSE MEMBER[r]
    BY <2>0, Zenon
  <3> QED
    BY <3>1, Zenon
<2>1. ASSUME NEW p \in Proc,
             \/ CreateSem(p) \/ Export(p) \/ WrapperSem(p) \/ WrapperExport(p) \/ Load(p)
             \/ CheckStale(p) \/ RetryShared(p) \/ UnlinkSem(p) \/ WaitForChild(p) \/ WaitForPipe(p)
             \/ WrapperUnlinkSem(p) \/ WrapperExportFails(p) \/ WrapperFails(p) \/ CloseDescriptors(p) \/ Exit(p)
      PROVE  [Pair!PNext]_(Pair!pvars)
  <3>1. UNCHANGED <<shm, header, ft_shared, shared_sem>>
    BY <2>1, Zenon DEF CreateSem, Export, WrapperSem, WrapperExport, Load, CheckStale,
       RetryShared, UnlinkSem, WaitForChild, WaitForPipe, WrapperUnlinkSem,
       WrapperExportFails, WrapperFails, CloseDescriptors, Exit
  <3> QED
    BY <3>1
<2>2. ASSUME NEW p \in Proc, CreateShm(p) \/ WrapperShm(p)
      PROVE  [Pair!PNext]_(Pair!pvars)
  <3>1. MADE' = MADE
    BY <2>2 DEF CreateShm, WrapperShm
  <3> QED
    BY <2>2, <3>1 DEF CreateShm, WrapperShm
<2>3. ASSUME NEW p \in Proc, InitHeader(p) \/ WrapperHeader(p)
      PROVE  [Pair!PNext]_(Pair!pvars)
  <3>1. p \notin MADE /\ MADE' = MADE \cup {p}
    BY <2>3 DEF InitHeader, WrapperHeader
  <3>2. MEMBER' = MEMBER
    BY <2>3 DEF InitHeader, WrapperHeader
  <3> QED
    BY <3>1, <3>2, Zenon DEF Pair!Make
<2>4. ASSUME NEW p \in Proc, OpenShared(p) \/ MapFails(p)
      PROVE  [Pair!PNext]_(Pair!pvars)
  <3>1. MEMBER' = MEMBER
    BY <2>4 DEF OpenShared, MapFails, Detach
  <3> QED
    BY <2>4, <3>1 DEF OpenShared, MapFails
<2>5. ASSUME NEW p \in Proc, MapShared(p)
      PROVE  [Pair!PNext]_(Pair!pvars)
  <3>1. MADE' = MADE
    BY <2>5, Zenon DEF MapShared
  <3>2. CASE ft_shared_header_valid(env[p])
    <4> DEFINE o == shm[env[p]]
    <4>0. pc[p] = "map" /\ env[p] \in Name /\ o # None /\ header[env[p]]
      BY <2>5, <3>2, Zenon DEF MapShared, ft_shared_header_valid
    <4>1. o \in MADE \cup {Old} /\ shared_sem[p] = o
      <5>1. CASE env[p] = Ghost
        <6>1. o = Old
          BY <4>0, <5>1
        <6> QED
          BY <4>0, <5>1, <6>1, Zenon
      <5>2. CASE env[p] \in Proc
        <6>1. o = env[p]
          BY <4>0, <5>2, Zenon
        <6> QED
          BY <4>0, <5>2, <6>1, Zenon
      <5> QED
        BY <4>0, <5>1, <5>2, Zenon
    <4>2. MEMBER[p] = None /\ MEMBER' = [MEMBER EXCEPT ![p] = o]
      <5>1. ft_shared[p] = None /\ ft_shared' = [ft_shared EXCEPT ![p] = o]
        BY <2>5, <3>2, <4>0, Zenon DEF MapShared
      <5>2. shared_sem' = [shared_sem EXCEPT ![p] = o]
        BY <2>5, <3>2, <4>1 DEF MapShared
      <5>3. shared_sem \in [Proc -> Maker] /\ ft_shared \in [Proc -> Maker]
        BY Zenon
      <5>4. MEMBER[p] = None
        BY <5>1, Zenon
      <5> QED
        BY <5>1, <5>2, <5>3, <5>4, <2>0, Zenon
    <4> QED
      BY <3>1, <4>1, <4>2, Zenon DEF Pair!Join
  <3>3. CASE ~ft_shared_header_valid(env[p])
    <4>1. MEMBER' = MEMBER
      BY <2>5, <3>3 DEF MapShared, Detach
    <4> QED
      BY <3>1, <4>1, Zenon
  <3> QED
    BY <3>2, <3>3, Zenon
<2>6. ASSUME NEW p \in Proc, ft_cleanup(p) \/ OpenToDestroy(p) \/ Exec(p) \/ Kill(p)
      PROVE  [Pair!PNext]_(Pair!pvars)
  <3>1. MADE' = MADE
    BY <2>6 DEF ft_cleanup, OpenToDestroy, Exec, Kill
  <3>2. \/ UNCHANGED <<ft_shared, shared_sem>>
        \/ /\ ft_shared' = [ft_shared EXCEPT ![p] = None]
           /\ shared_sem' = [shared_sem EXCEPT ![p] = None]
    BY <2>6, Zenon DEF ft_cleanup, OpenToDestroy, Exec, Kill, Ends, Detach
  <3>3. MEMBER' = MEMBER \/ MEMBER' = [MEMBER EXCEPT ![p] = None]
    BY <3>2, <2>0
  <3> QED
    BY <3>1, <3>3, Zenon DEF Pair!Leave
<2>7. ASSUME NEW p \in Proc, UnlinkShm(p)
      PROVE  [Pair!PNext]_(Pair!pvars)
  <3>1. MADE' = MADE \ {p}
    BY <2>7 DEF UnlinkShm
  <3>2. MEMBER' = MEMBER
    BY <2>7 DEF UnlinkShm, Ends
  <3> QED
    BY <3>1, <3>2, Zenon DEF Pair!Remove
<2>8. ASSUME NEW p \in Proc, NEW q \in Proc, WrapperFork(p, q)
      PROVE  [Pair!PNext]_(Pair!pvars)
  BY <2>8 DEF WrapperFork
<2>9. ASSUME NEW p \in Proc, WrapperUnlinkShm(p)
      PROVE  [Pair!PNext]_(Pair!pvars)
  <3>1. MADE' = MADE \ {p}
    BY <2>9, Zenon DEF WrapperUnlinkShm
  <3>2. MEMBER' = MEMBER
    BY <2>9, Zenon DEF WrapperUnlinkShm
  <3> QED
    BY <3>1, <3>2, Zenon DEF Pair!Remove
<2>10. ASSUME NEW p \in Proc, InitFails(p) \/ WrapperInitFails(p)
      PROVE  [Pair!PNext]_(Pair!pvars)
  <3>1. MADE' = MADE
    BY <2>10 DEF InitFails, WrapperInitFails, RemoveBoth
  <3>2. UNCHANGED <<ft_shared, shared_sem>>
    BY <2>10, Zenon DEF InitFails, WrapperInitFails
  <3>3. MEMBER' = MEMBER
    BY <3>2, Zenon
  <3> QED
    BY <3>1, <3>3, Zenon
<2>11. ASSUME NEW p \in Proc, ExportFails(p)
      PROVE  [Pair!PNext]_(Pair!pvars)
  <3>1. MADE' = MADE \ {p}
    BY <2>11, Zenon DEF ExportFails, RemoveBoth
  <3>2. MEMBER' = MEMBER
    BY <2>11, Zenon DEF ExportFails
  <3> QED
    BY <3>1, <3>2 DEF Pair!Remove
<2>12. ASSUME NEW p \in Proc, NEW q \in Proc, Fork(p, q)
      PROVE  [Pair!PNext]_(Pair!pvars)
  <3>1. MEMBER[q] = None /\ MEMBER' = [MEMBER EXCEPT ![q] = MEMBER[p]]
    <4>1. /\ shared_sem \in [Proc -> Maker] /\ ft_shared \in [Proc -> Maker]
          /\ ft_shared' = [ft_shared EXCEPT ![q] = ft_shared[p]]
          /\ shared_sem' = [shared_sem EXCEPT ![q] = shared_sem[p]]
      BY <2>12, Zenon DEF Fork
    <4>2. ft_shared[q] = None
      BY <2>12, Zenon DEF Fork
    <4> HIDE DEF Typed, TypeOK, Made, Joined
    <4>3. MEMBER[q] = None
      BY <4>2, Zenon
    <4>4. \A r \in Proc : MEMBER'[r] = IF r = q THEN MEMBER[p] ELSE MEMBER[r]
      BY <4>1, Zenon
    <4> QED
      BY <4>3, <4>4, Zenon
  <3>2. MADE' = MADE
    BY <2>12, Zenon DEF Fork
  <3> QED
    BY <3>1, <3>2, Zenon DEF Pair!Inherit
<2>13. CASE GhostEnds
  <3>1. MADE' = MADE
    BY <2>13 DEF GhostEnds
  <3> QED
    BY <2>13, <3>1 DEF GhostEnds
<2>14. CASE UNCHANGED vars
  BY <2>14 DEF vars
<2> QED
  BY <2>1, <2>2, <2>3, <2>4, <2>5, <2>6, <2>7, <2>8, <2>9, <2>10, <2>11, <2>12, <2>13,
     <2>14, Zenon DEF ShmNext, Step, World
<1> QED
  BY MadeInvariant, <1>joined, <1>1, <1>2, PTL
  DEF ShmSpec, JoinsWholePair, Pair!PSpec

\* The keepalive pipe of faketime.c does what it is there for: as long as no
\* call of the wrapper fails, every process that holds it runs on the wrapper's pair.
\* The invariant is that while somebody holds the pipe, the wrapper's pair is there
\* and those who hold it use it.
THEOREM SessionShares == ShmSpec => []OneSession
<1>1. ShmInit => Session
  BY DEF ShmInit, Session, Wrapping, Waiting, Holding
<1>2. Typed /\ Made /\ Session /\ [ShmNext]_vars => Session'
<2> SUFFICES ASSUME Typed, Made, Session, [ShmNext]_vars PROVE Session'
  OBVIOUS
<2>t. /\ sem \in [Name -> Maker] /\ shm \in [Name -> Maker] /\ header \in [Name -> BOOLEAN]
      /\ pc \in [Proc -> Labels] /\ env \in [Proc -> Name \cup {Bad, None}]
      /\ back \in [Proc -> {"check", "attach"}] /\ shmCreator \in [Proc -> BOOLEAN]
      /\ shared_sem \in [Proc -> Maker] /\ ft_shared \in [Proc -> Maker]
      /\ keepalive \in [Proc -> BOOLEAN] /\ faults \in Nat /\ child \in Proc \cup {None}
  BY DEF Typed, TypeOK
<2> USE DEF Made, Wrapping, Waiting, Holding, Session
<2>1. ASSUME NEW p \in Proc, CreateSem(p)
      PROVE  Session'
  BY <2>1, <2>t DEF CreateSem, ft_sem_create
<2>2. ASSUME NEW p \in Proc, CreateShm(p)
      PROVE  Session'
  BY <2>2, <2>t DEF CreateShm
<2>3. ASSUME NEW p \in Proc, InitHeader(p)
      PROVE  Session'
  BY <2>3, <2>t DEF InitHeader
<2>4. ASSUME NEW p \in Proc, Export(p)
      PROVE  Session'
  BY <2>4, <2>t DEF Export
<2>5. ASSUME NEW p \in Proc, WrapperSem(p)
      PROVE  Session'
  BY <2>5, <2>t DEF WrapperSem, ft_sem_create
<2>6. ASSUME NEW p \in Proc, WrapperShm(p)
      PROVE  Session'
  BY <2>6, <2>t DEF WrapperShm
<2>7. ASSUME NEW p \in Proc, WrapperHeader(p)
      PROVE  Session'
  BY <2>7, <2>t DEF WrapperHeader
<2>8. ASSUME NEW p \in Proc, WrapperExport(p)
      PROVE  Session'
  BY <2>8, <2>t DEF WrapperExport
<2>9. ASSUME NEW p \in Proc, Load(p)
      PROVE  Session'
  BY <2>9, <2>t DEF Load, CallCreate
<2>10. ASSUME NEW p \in Proc, CheckStale(p)
      PROVE  Session'
  BY <2>10, <2>t DEF CheckStale, CallCreate, SemGone
<2>11. ASSUME NEW p \in Proc, RetryShared(p)
      PROVE  Session'
  BY <2>11, <2>t DEF RetryShared, SemGone
<2>12. ASSUME NEW p \in Proc, OpenShared(p)
      PROVE  Session'
  BY <2>12, <2>t DEF OpenShared, SemGone, Done
<2>13. ASSUME NEW p \in Proc, MapShared(p)
      PROVE  Session'
  BY <2>13, <2>t DEF MapShared, ft_shared_header_valid, Detach, Done
<2>14. ASSUME NEW p \in Proc, ft_cleanup(p)
      PROVE  Session'
  BY <2>14, <2>t DEF ft_cleanup, Detach, Ends
<2>15. ASSUME NEW p \in Proc, OpenToDestroy(p)
      PROVE  Session'
  BY <2>15, <2>t DEF OpenToDestroy, SemGone, Ends
<2>16. ASSUME NEW p \in Proc, UnlinkSem(p)
      PROVE  Session'
  BY <2>16, <2>t DEF UnlinkSem
<2>17. ASSUME NEW p \in Proc, UnlinkShm(p)
      PROVE  Session'
  BY <2>17, <2>t DEF UnlinkShm, Ends
<2>18. ASSUME NEW p \in Proc, NEW q \in Proc, WrapperFork(p, q)
      PROVE  Session'
  BY <2>18, <2>t DEF WrapperFork
<2>19. ASSUME NEW p \in Proc, WaitForChild(p)
      PROVE  Session'
  BY <2>19, <2>t DEF WaitForChild
<2>20. ASSUME NEW p \in Proc, WaitForPipe(p)
      PROVE  Session'
  BY <2>20, <2>t DEF WaitForPipe
<2>21. ASSUME NEW p \in Proc, WrapperUnlinkSem(p)
      PROVE  Session'
  BY <2>21, <2>t DEF WrapperUnlinkSem
<2>22. ASSUME NEW p \in Proc, WrapperUnlinkShm(p)
      PROVE  Session'
  BY <2>22, <2>t DEF WrapperUnlinkShm
<2>23. ASSUME NEW p \in Proc, InitFails(p)
      PROVE  Session'
  BY <2>23, <2>t DEF InitFails, Faulty, RemoveBoth
<2>24. ASSUME NEW p \in Proc, ExportFails(p)
      PROVE  Session'
  BY <2>24, <2>t DEF ExportFails, Faulty, RemoveBoth
<2>25. ASSUME NEW p \in Proc, MapFails(p)
      PROVE  Session'
  BY <2>25, <2>t DEF MapFails, Faulty, Detach
<2>26. ASSUME NEW p \in Proc, WrapperInitFails(p)
      PROVE  Session'
  BY <2>26, <2>t DEF WrapperInitFails, Faulty, RemoveBoth
<2>27. ASSUME NEW p \in Proc, WrapperExportFails(p)
      PROVE  Session'
  BY <2>27, <2>t DEF WrapperExportFails, Faulty
<2>28. ASSUME NEW p \in Proc, WrapperFails(p)
      PROVE  Session'
  BY <2>28, <2>t DEF WrapperFails, Faulty
<2>29. ASSUME NEW p \in Proc, NEW q \in Proc, Fork(p, q)
      PROVE  Session'
  BY <2>29, <2>t DEF Fork, Running
<2>30. ASSUME NEW p \in Proc, Exec(p)
      PROVE  Session'
  BY <2>30, <2>t DEF Exec, Running
<2>31. ASSUME NEW p \in Proc, CloseDescriptors(p)
      PROVE  Session'
  BY <2>31, <2>t DEF CloseDescriptors, Running
<2>32. ASSUME NEW p \in Proc, Exit(p)
      PROVE  Session'
  BY <2>32, <2>t DEF Exit, Running
<2>33. ASSUME NEW p \in Proc, Kill(p)
      PROVE  Session'
  BY <2>33, <2>t DEF Kill, Ends
<2>34. CASE GhostEnds
  BY <2>34, <2>t DEF GhostEnds
<2>35. CASE UNCHANGED vars
  BY <2>35, Zenon DEF vars
<2> QED
  BY <2>1, <2>2, <2>3, <2>4, <2>5, <2>6, <2>7, <2>8, <2>9, <2>10, <2>11, <2>12, <2>13,
     <2>14, <2>15, <2>16, <2>17, <2>18, <2>19, <2>20, <2>21, <2>22, <2>23, <2>24, <2>25,
     <2>26, <2>27, <2>28, <2>29, <2>30, <2>31, <2>32, <2>33, <2>34, <2>35, Zenon DEF ShmNext,
     Step, World
<1>3. Session => OneSession
  BY Zenon DEF Session, OneSession
<1> QED
  BY MadeInvariant, <1>1, <1>2, <1>3, PTL DEF ShmSpec
=============================================================================

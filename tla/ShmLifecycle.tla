---------------------------- MODULE ShmLifecycle ----------------------------
(***************************************************************************)
(* Who makes, joins and removes the pair of shared objects - a semaphore   *)
(* and a piece of shared memory, both named after the process that makes   *)
(* them - and what is left of it: ft_shm_create, ft_shm_really_init,       *)
(* ft_shm_destroy and ft_cleanup of libfaketime.c, run by every process    *)
(* that loads the library, and the same work in the wrapper, faketime.c,   *)
(* which waits for its command and for every process that still holds the  *)
(* write end of its pipe.  The processes fork, execute other programs,     *)
(* close their descriptors, exit and are killed at any time.               *)
(*                                                                         *)
(* One step is one system call on a name other processes may know.         *)
(***************************************************************************)
EXTENDS Naturals

CONSTANTS
  Proc,          \* process ids
  Root,          \* the first process of the session
  Ghost,         \* the id of a process of an earlier session
  Old,           \* what made the objects that are older than the session
  None,
  Bad,           \* a value of FAKETIME_SHARED that is not a pair of names
  RetryLimit,    \* FT_SHM_RETRY_LIMIT
  Leftover,      \* the ids for which objects may be left over from earlier
  MaxFaults,     \* bound: how many system calls fail
  MaxExecs       \* bound: how often a process executes another program

ASSUME ShmAssumption ==
  /\ Root \in Proc
  /\ Leftover \subseteq Proc
  /\ Ghost \notin Proc /\ Old \notin Proc /\ None \notin Proc
  /\ Ghost # Old /\ Ghost # None /\ Old # None
  /\ Bad \notin Proc \cup {Ghost, Old, None}
  /\ RetryLimit \in Nat \ {0} /\ MaxFaults \in Nat /\ MaxExecs \in Nat

VARIABLES
  wrapped,         \* Root is the wrapper
  flshm,           \* FAKETIME_FLSHM is set
  sem, shm,        \* what made the object of each name
  header,          \* the memory of a name has a valid header
  pc,
  back,            \* where ft_shm_create returns to
  child,           \* child_pid: the wrapper's command
  env,             \* the name in FAKETIME_SHARED
  shmCreator,
  retry_count,
  shared_sem,      \* what made the semaphore the process has open
  ft_shared,       \* what made the memory the process has mapped
  keepalive,       \* the process holds the write end of the wrapper's pipe
  tidy,            \* history: the process did nothing that keeps it from cleaning up
  faults, execs

lib == <<back, env, shmCreator, retry_count, shared_sem, ft_shared>>
objects == <<sem, shm, header>>
setup == <<wrapped, flshm>>
vars == <<setup, objects, pc, lib, child, keepalive, tidy, faults, execs>>

Name == Proc \cup {Ghost}
Maker == Proc \cup {Old, None}

Creating == {"c_sem", "c_shm", "c_init", "c_env"}
Starting == {"load", "check", "attach", "map"}
Wrapping == {"w_sem", "w_shm", "w_init", "w_env"}
Waiting == {"w_fork", "w_wait", "w_read"}
Ending == {"exit", "x_open", "x_sem", "x_shm", "u_sem", "u_shm"}
Labels == Wrapping \cup Creating \cup Starting \cup Waiting \cup Ending \cup {"off", "up", "dead"}

Goto(p, l) == pc' = [pc EXCEPT ![p] = l]

ShmInit ==
  /\ wrapped \in BOOLEAN /\ flshm \in BOOLEAN
  /\ sem \in [Name -> {Old, None}] /\ \A p \in Proc \ Leftover : sem[p] = None
  /\ shm \in [Name -> {Old, None}] /\ \A p \in Proc \ Leftover : shm[p] = None
  /\ header \in [Name -> BOOLEAN] /\ \A p \in Proc : ~header[p]
  /\ header[Ghost] => shm[Ghost] = Old
  /\ pc = [p \in Proc |-> IF p # Root THEN "off" ELSE IF wrapped THEN "w_sem" ELSE "load"]
  /\ back = [p \in Proc |-> "check"]
  /\ env \in [Proc -> {Ghost, Bad, None}] /\ \A p \in Proc \ {Root} : env[p] = None
  /\ wrapped => env[Root] = None        \* overwritten before it is read
  /\ env[Root] # Ghost => sem[Ghost] = None /\ shm[Ghost] = None
  /\ child = None
  /\ shmCreator = [p \in Proc |-> FALSE]
  /\ retry_count = [p \in Proc |-> 1]
  /\ shared_sem = [p \in Proc |-> None]
  /\ ft_shared = [p \in Proc |-> None]
  /\ keepalive = [p \in Proc |-> FALSE]
  /\ tidy = [p \in Proc |-> TRUE]
  /\ faults = 0 /\ execs = 0

-----------------------------------------------------------------------------
(* Making a pair: ft_shm_create.                                           *)

\* O_CREAT|O_EXCL: an object of that name, whoever made it, is not taken over.
ft_sem_create(p, made, failed) ==
  \/ /\ sem[p] = None
     /\ sem' = [sem EXCEPT ![p] = p]
     /\ Goto(p, made)
  \/ /\ sem[p] # None
     /\ Goto(p, failed)
     /\ UNCHANGED sem

\* Mutant: the semaphore is named after the inherited pair.
CreateSem_inherited(p) ==
  /\ pc[p] = "c_sem" /\ sem[p] = None
  /\ sem' = [sem EXCEPT ![p] = env[p]]
  /\ Goto(p, "c_shm")
  /\ UNCHANGED <<setup, child, shm, header, lib, keepalive, tidy, faults, execs>>

CreateSem(p) ==
  /\ pc[p] = "c_sem"
  /\ ft_sem_create(p, "c_shm", back[p])
  /\ UNCHANGED <<setup, child, shm, header, lib, keepalive, tidy, faults, execs>>

\* Mutant: the semaphore stays when the memory cannot be made.
CreateShm_keep(p) ==
  /\ pc[p] = "c_shm"
  /\ \/ /\ shm[p] = None
        /\ shm' = [shm EXCEPT ![p] = p]
        /\ Goto(p, "c_init")
     \/ /\ shm[p] # None
        /\ Goto(p, back[p])
        /\ UNCHANGED shm
  /\ UNCHANGED <<setup, child, sem, header, lib, keepalive, tidy, faults, execs>>

CreateShm(p) ==
  /\ pc[p] = "c_shm"
  /\ \/ /\ shm[p] = None
        /\ shm' = [shm EXCEPT ![p] = p]
        /\ Goto(p, "c_init")
        /\ UNCHANGED sem
     \/ /\ shm[p] # None
        /\ sem' = [sem EXCEPT ![p] = None]
        /\ Goto(p, back[p])
        /\ UNCHANGED shm
  /\ UNCHANGED <<setup, child, header, lib, keepalive, tidy, faults, execs>>

\* Size, mapping, lock, header, unlock.
InitHeader(p) ==
  /\ pc[p] = "c_init"
  /\ header' = [header EXCEPT ![p] = TRUE]
  /\ Goto(p, "c_env")
  /\ UNCHANGED <<setup, child, sem, shm, lib, keepalive, tidy, faults, execs>>

\* The pair is named in the environment and the process remembers that it is
\* its maker.
Export(p) ==
  /\ pc[p] = "c_env"
  /\ env' = [env EXCEPT ![p] = p]
  /\ shmCreator' = [shmCreator EXCEPT ![p] = TRUE]
  /\ Goto(p, back[p])
  /\ UNCHANGED <<setup, child, objects, back, retry_count, shared_sem, ft_shared, keepalive, tidy, faults, execs>>

\* A system call fails.
Faulty == faults < MaxFaults /\ faults' = faults + 1

RemoveBoth(p) ==
  /\ sem' = [sem EXCEPT ![p] = None]
  /\ shm' = [shm EXCEPT ![p] = None]
  /\ header' = [header EXCEPT ![p] = FALSE]

\* ftruncate, mmap, close, lock, unlock or munmap: the pair is removed, and exit.
InitFails(p) ==
  /\ pc[p] = "c_init" /\ Faulty
  /\ RemoveBoth(p)
  /\ Goto(p, "exit")
  /\ UNCHANGED <<setup, child, lib, keepalive, tidy, execs>>

\* The semaphore cannot be reopened or setenv fails: on without a pair.
ExportFails(p) ==
  /\ pc[p] = "c_env" /\ Faulty
  /\ RemoveBoth(p)
  /\ Goto(p, back[p])
  /\ UNCHANGED <<setup, child, lib, keepalive, tidy, execs>>

-----------------------------------------------------------------------------
(* The same in the wrapper, which gives up at the first failure.           *)

WrapperSem(p) ==
  /\ pc[p] = "w_sem"
  /\ ft_sem_create(p, "w_shm", "dead")
  /\ UNCHANGED <<setup, child, shm, header, lib, keepalive, tidy, faults, execs>>

WrapperShm(p) ==
  /\ pc[p] = "w_shm"
  /\ \/ /\ shm[p] = None
        /\ shm' = [shm EXCEPT ![p] = p]
        /\ Goto(p, "w_init")
        /\ UNCHANGED sem
     \/ /\ shm[p] # None
        /\ sem' = [sem EXCEPT ![p] = None]
        /\ Goto(p, "dead")
        /\ UNCHANGED shm
  /\ UNCHANGED <<setup, child, header, lib, keepalive, tidy, faults, execs>>

WrapperHeader(p) ==
  /\ pc[p] = "w_init"
  /\ header' = [header EXCEPT ![p] = TRUE]
  /\ Goto(p, "w_env")
  /\ UNCHANGED <<setup, child, sem, shm, lib, keepalive, tidy, faults, execs>>

WrapperExport(p) ==
  /\ pc[p] = "w_env"
  /\ env' = [env EXCEPT ![p] = p]
  /\ Goto(p, "w_fork")
  /\ UNCHANGED <<setup, child, objects, back, shmCreator, retry_count, shared_sem, ft_shared, keepalive, tidy, faults, execs>>

\* cleanup_shobjs, then exit.
WrapperInitFails(p) ==
  /\ pc[p] = "w_init" /\ Faulty
  /\ RemoveBoth(p)
  /\ Goto(p, "dead")
  /\ UNCHANGED <<setup, child, lib, keepalive, tidy, execs>>

\* set_env_or_exit, for FAKETIME_SHARED or LD_PRELOAD, leaves the pair where
\* it is; so does the failing malloc.
WrapperExportFails(p) ==
  /\ pc[p] = "w_env" /\ Faulty
  /\ Goto(p, "dead")
  /\ tidy' = [tidy EXCEPT ![p] = FALSE]
  /\ UNCHANGED <<setup, child, objects, lib, keepalive, execs>>

-----------------------------------------------------------------------------
(* Joining a pair: ft_shm_really_init.                                     *)

\* ft_sem_open fails for the name in FAKETIME_SHARED.
SemGone(p) == env[p] \in Name /\ sem[env[p]] = None

CallCreate(p, l) ==
  /\ back' = [back EXCEPT ![p] = l]
  /\ Goto(p, "c_sem")

Load(p) ==
  /\ pc[p] = "load"
  /\ \/ /\ env[p] = None
        /\ CallCreate(p, "check")
     \/ /\ env[p] # None
        /\ Goto(p, "check")
        /\ UNCHANGED back
  /\ UNCHANGED <<setup, child, objects, env, shmCreator, retry_count, shared_sem, ft_shared, keepalive, tidy, faults, execs>>

\* What is not a pair of names ends the program; a pair whose semaphore is
\* gone is stale, and replaced.
CheckStale(p) ==
  /\ pc[p] = "check"
  /\ \/ /\ env[p] = Bad
        /\ Goto(p, "exit")
        /\ UNCHANGED back
     \/ /\ SemGone(p)
        /\ CallCreate(p, "attach")
     \/ /\ env[p] # Bad /\ ~SemGone(p)
        /\ Goto(p, "attach")
        /\ UNCHANGED back
  /\ UNCHANGED <<setup, child, objects, env, shmCreator, retry_count, shared_sem, ft_shared, keepalive, tidy, faults, execs>>

\* FAKETIME_FLSHM: the children shall not find the pair; nor does
\* ft_shm_destroy.
Done(p) ==
  IF flshm
    THEN /\ env' = [env EXCEPT ![p] = None]
         /\ tidy' = IF shmCreator[p] THEN [tidy EXCEPT ![p] = FALSE] ELSE tidy
    ELSE UNCHANGED <<env, tidy>>

\* Mutant: the stale name stays in the environment and the attempts are not counted.
RetryShared_kept(p) ==
  /\ pc[p] = "attach" /\ SemGone(p) /\ ~shmCreator[p]
  /\ CallCreate(p, "attach")
  /\ UNCHANGED <<setup, child, objects, env, shmCreator, retry_count, shared_sem, ft_shared, keepalive, tidy, faults, execs>>

\* The semaphore went away after the check: drop the name and try again; the
\* maker itself, and the last attempt, give up.
RetryShared(p) ==
  LET again == ~shmCreator[p] /\ retry_count[p] < RetryLimit
  IN  /\ pc[p] = "attach" /\ SemGone(p)
      /\ retry_count' = [retry_count EXCEPT ![p] = IF shmCreator[p] THEN @ ELSE @ + 1]
      /\ env' = [env EXCEPT ![p] = IF again THEN None ELSE @]
      /\ back' = [back EXCEPT ![p] = "attach"]
      /\ Goto(p, IF again THEN "c_sem" ELSE "exit")
      /\ UNCHANGED <<setup, child, objects, shmCreator, shared_sem, ft_shared, keepalive, tidy, faults, execs>>

OpenShared(p) ==
  /\ pc[p] = "attach"
  /\ \/ /\ env[p] = None
        /\ Done(p)
        /\ Goto(p, "up")
        /\ UNCHANGED shared_sem
     \/ /\ env[p] \in Name /\ ~SemGone(p)
        /\ shared_sem' = [shared_sem EXCEPT ![p] = sem[env[p]]]
        /\ Goto(p, "map")
        /\ UNCHANGED <<env, tidy>>
  /\ UNCHANGED <<setup, child, objects, back, shmCreator, retry_count, ft_shared, keepalive, faults, execs>>

\* The memory is there, with the magic number, version and size of this build.
ft_shared_header_valid(a) == shm[a] # None /\ header[a]

Detach(p) == shared_sem' = [shared_sem EXCEPT ![p] = None]

\* Mutant: shm_open with O_CREAT.
MapShared_create(p) ==
  /\ pc[p] = "map"
  /\ shm' = [shm EXCEPT ![env[p]] = IF @ = None THEN p ELSE @]
  /\ ft_shared' = [ft_shared EXCEPT ![p] = shm'[env[p]]]
  /\ Done(p)
  /\ Goto(p, "up")
  /\ UNCHANGED <<setup, child, sem, header, back, shmCreator, shared_sem, retry_count, keepalive, faults, execs>>

\* The memory must be there, large enough and with a valid header; if not
\* the program ends: ft_shm_cleanup_attached, exit(1).
MapShared(p) ==
  /\ pc[p] = "map"
  /\ \/ /\ ft_shared_header_valid(env[p])
        /\ ft_shared' = [ft_shared EXCEPT ![p] = shm[env[p]]]
        /\ Done(p)
        /\ Goto(p, "up")
        /\ UNCHANGED shared_sem
     \/ /\ ~ft_shared_header_valid(env[p])
        /\ Detach(p)
        /\ Goto(p, "exit")
        /\ UNCHANGED <<ft_shared, env, tidy>>
  /\ UNCHANGED <<setup, child, objects, back, shmCreator, retry_count, keepalive, faults, execs>>

\* fstat, mmap or close fails: the same.
MapFails(p) ==
  /\ pc[p] = "map" /\ Faulty
  /\ Detach(p)
  /\ Goto(p, "exit")
  /\ UNCHANGED <<setup, child, objects, back, env, shmCreator, retry_count, ft_shared, keepalive, tidy, execs>>

-----------------------------------------------------------------------------
(* Leaving: the destructor ft_cleanup, with ft_shm_destroy.                *)

\* The process ends: its memory and its end of the pipe go with it.
Ends(p) ==
  /\ Goto(p, "dead")
  /\ back' = [back EXCEPT ![p] = "check"]
  /\ env' = [env EXCEPT ![p] = None]
  /\ shmCreator' = [shmCreator EXCEPT ![p] = FALSE]
  /\ retry_count' = [retry_count EXCEPT ![p] = 1]
  /\ shared_sem' = [shared_sem EXCEPT ![p] = None]
  /\ ft_shared' = [ft_shared EXCEPT ![p] = None]
  /\ keepalive' = [keepalive EXCEPT ![p] = FALSE]

ft_cleanup(p) ==
  /\ pc[p] = "exit"
  /\ \/ /\ shmCreator[p]
        /\ ft_shared' = [ft_shared EXCEPT ![p] = None]
        /\ Detach(p)
        /\ Goto(p, "x_open")
        /\ UNCHANGED <<back, env, shmCreator, retry_count, keepalive>>
     \/ ~shmCreator[p] /\ Ends(p)
  /\ UNCHANGED <<setup, child, objects, tidy, faults, execs>>

\* Mutant: whoever has shmCreator set removes the pair.
OpenToDestroy_any(p) ==
  /\ pc[p] = "x_open" /\ ~SemGone(p)
  /\ Goto(p, "x_sem")
  /\ UNCHANGED <<setup, child, objects, lib, keepalive, tidy, faults, execs>>

\* A child of the maker has shmCreator set too: the process id in the name
\* decides.
OpenToDestroy(p) ==
  /\ pc[p] = "x_open"
  /\ \/ /\ env[p] = p /\ ~SemGone(p)
        /\ Goto(p, "x_sem")
        /\ UNCHANGED <<lib, keepalive>>
     \/ /\ env[p] # p \/ SemGone(p)
        /\ Ends(p)
  /\ UNCHANGED <<setup, child, objects, tidy, faults, execs>>

UnlinkSem(p) ==
  /\ pc[p] = "x_sem"
  /\ sem' = [sem EXCEPT ![env[p]] = None]
  /\ Goto(p, "x_shm")
  /\ UNCHANGED <<setup, child, shm, header, lib, keepalive, tidy, faults, execs>>

UnlinkShm(p) ==
  /\ pc[p] = "x_shm"
  /\ shm' = [shm EXCEPT ![env[p]] = None]
  /\ header' = [header EXCEPT ![env[p]] = FALSE]
  /\ Ends(p)
  /\ UNCHANGED <<setup, child, sem, tidy, faults, execs>>

-----------------------------------------------------------------------------
(* The wrapper once it has its pair.                                       *)

\* The child executes the command at once, with the library preloaded.
WrapperFork(p, q) ==
  /\ pc[p] = "w_fork" /\ pc[q] = "off"
  /\ pc' = [pc EXCEPT ![p] = "w_wait", ![q] = "load"]
  /\ env' = [env EXCEPT ![q] = env[p]]
  /\ keepalive' = [keepalive EXCEPT ![q] = TRUE]
  /\ child' = q
  /\ UNCHANGED <<setup, objects, back, shmCreator, retry_count, shared_sem, ft_shared, tidy, faults, execs>>

WaitForChild(p) ==
  /\ pc[p] = "w_wait" /\ pc[child] = "dead"
  /\ Goto(p, "w_read")
  /\ UNCHANGED <<setup, child, objects, lib, keepalive, tidy, faults, execs>>

\* Mutant: the pair is removed when the command has ended.
WaitForPipe_not(p) ==
  /\ pc[p] = "w_read"
  /\ Goto(p, "u_sem")
  /\ UNCHANGED <<setup, child, objects, lib, keepalive, tidy, faults, execs>>

\* Mutant: the wrapper keeps its own copy of the write end.
WaitForPipe_held(p) ==
  /\ pc[p] = "w_read"
  /\ \A q \in Proc : ~keepalive[q] /\ q # p
  /\ Goto(p, "u_sem")
  /\ UNCHANGED <<setup, child, objects, lib, keepalive, tidy, faults, execs>>

\* read() returns when no process holds the other end any more.
WaitForPipe(p) ==
  /\ pc[p] = "w_read"
  /\ \A q \in Proc : ~keepalive[q]
  /\ Goto(p, "u_sem")
  /\ UNCHANGED <<setup, child, objects, lib, keepalive, tidy, faults, execs>>

\* fork, waitpid or read fails: cleanup_shobjs at once.
WrapperFails(p) ==
  /\ pc[p] \in Waiting /\ Faulty
  /\ Goto(p, "u_sem")
  /\ UNCHANGED <<setup, child, objects, lib, keepalive, tidy, execs>>

\* cleanup_shobjs, then exit.
WrapperUnlinkSem(p) ==
  /\ pc[p] = "u_sem"
  /\ sem' = [sem EXCEPT ![p] = None]
  /\ Goto(p, "u_shm")
  /\ UNCHANGED <<setup, child, shm, header, lib, keepalive, tidy, faults, execs>>

WrapperUnlinkShm(p) ==
  /\ pc[p] = "u_shm"
  /\ shm' = [shm EXCEPT ![p] = None]
  /\ header' = [header EXCEPT ![p] = FALSE]
  /\ Goto(p, "dead")
  /\ UNCHANGED <<setup, child, sem, lib, keepalive, tidy, faults, execs>>

-----------------------------------------------------------------------------
(* What programs do, and what happens to them.                             *)

Running(p) == pc[p] = "up"

\* The child has all of the parent's state, shmCreator included.
Fork(p, q) ==
  /\ Running(p) /\ pc[q] = "off"
  /\ Goto(q, "up")
  /\ env' = [env EXCEPT ![q] = env[p]]
  /\ shmCreator' = [shmCreator EXCEPT ![q] = shmCreator[p]]
  /\ shared_sem' = [shared_sem EXCEPT ![q] = shared_sem[p]]
  /\ ft_shared' = [ft_shared EXCEPT ![q] = ft_shared[p]]
  /\ keepalive' = [keepalive EXCEPT ![q] = keepalive[p]]
  /\ UNCHANGED <<setup, child, objects, back, retry_count, tidy, faults, execs>>

\* The library starts afresh, under the same id and environment; nobody
\* remembers any more that this process made a pair.
Exec(p) ==
  /\ Running(p) /\ execs < MaxExecs
  /\ execs' = execs + 1
  /\ Goto(p, "load")
  /\ shmCreator' = [shmCreator EXCEPT ![p] = FALSE]
  /\ retry_count' = [retry_count EXCEPT ![p] = 1]
  /\ shared_sem' = [shared_sem EXCEPT ![p] = None]
  /\ ft_shared' = [ft_shared EXCEPT ![p] = None]
  /\ tidy' = IF env[p] = p THEN [tidy EXCEPT ![p] = FALSE] ELSE tidy
  /\ UNCHANGED <<setup, child, objects, back, env, keepalive, faults>>

CloseDescriptors(p) ==
  /\ Running(p) /\ keepalive[p]
  /\ keepalive' = [keepalive EXCEPT ![p] = FALSE]
  /\ UNCHANGED <<setup, child, objects, pc, lib, tidy, faults, execs>>

Exit(p) ==
  /\ Running(p)
  /\ Goto(p, "exit")
  /\ UNCHANGED <<setup, child, objects, lib, keepalive, tidy, faults, execs>>

\* A signal, or _exit.
Kill(p) ==
  /\ pc[p] \notin {"off", "dead"}
  /\ Ends(p)
  /\ tidy' = [tidy EXCEPT ![p] = FALSE]
  /\ UNCHANGED <<setup, child, objects, faults, execs>>

\* The earlier session comes to its end.
GhostEnds ==
  /\ \/ sem[Ghost] # None /\ sem' = [sem EXCEPT ![Ghost] = None] /\ UNCHANGED <<shm, header>>
     \/ /\ sem[Ghost] = None /\ shm[Ghost] # None
        /\ shm' = [shm EXCEPT ![Ghost] = None]
        /\ header' = [header EXCEPT ![Ghost] = FALSE]
        /\ UNCHANGED sem
  /\ UNCHANGED <<setup, child, pc, lib, keepalive, tidy, faults, execs>>

-----------------------------------------------------------------------------

\* What a process does of itself, without a fault.
Step(p) ==
  \/ CreateSem(p) \/ CreateShm(p) \/ InitHeader(p) \/ Export(p)
  \/ WrapperSem(p) \/ WrapperShm(p) \/ WrapperHeader(p) \/ WrapperExport(p)
  \/ Load(p) \/ CheckStale(p) \/ RetryShared(p) \/ OpenShared(p) \/ MapShared(p)
  \/ ft_cleanup(p) \/ OpenToDestroy(p) \/ UnlinkSem(p) \/ UnlinkShm(p)
  \/ \E q \in Proc : WrapperFork(p, q)
  \/ WaitForChild(p) \/ WaitForPipe(p) \/ WrapperUnlinkSem(p) \/ WrapperUnlinkShm(p)

\* What its program, its user or the system does to it.
World(p) ==
  \/ InitFails(p) \/ ExportFails(p) \/ MapFails(p)
  \/ WrapperInitFails(p) \/ WrapperExportFails(p) \/ WrapperFails(p)
  \/ \E q \in Proc : Fork(p, q)
  \/ Exec(p) \/ CloseDescriptors(p) \/ Exit(p) \/ Kill(p)

ShmNext == GhostEnds \/ \E p \in Proc : Step(p) \/ World(p)

ShmSpec == ShmInit /\ [][ShmNext]_vars

\* The operating system schedules every process that can run.
FairShmSpec == ShmSpec /\ \A p \in Proc : WF_vars(Step(p))
-----------------------------------------------------------------------------
(* Properties.                                                             *)

\* The variables have their types.
TypeOK ==
  /\ wrapped \in BOOLEAN /\ flshm \in BOOLEAN
  /\ sem \in [Name -> Maker] /\ shm \in [Name -> Maker] /\ header \in [Name -> BOOLEAN]
  /\ pc \in [Proc -> Labels] /\ back \in [Proc -> {"check", "attach"}]
  /\ child \in Proc \cup {None}
  /\ env \in [Proc -> Name \cup {Bad, None}]
  /\ shmCreator \in [Proc -> BOOLEAN]
  /\ retry_count \in [Proc -> 1..RetryLimit + 1]
  /\ shared_sem \in [Proc -> Maker] /\ ft_shared \in [Proc -> Maker]
  /\ keepalive \in [Proc -> BOOLEAN] /\ tidy \in [Proc -> BOOLEAN]
  /\ faults \in 0..MaxFaults /\ execs \in 0..MaxExecs

\* A process that ended by itself left nothing of its own behind, however
\* often it tried to make a pair and whatever failed on the way, and whether
\* or not its children are still there.  The exceptions are in tidy: it was
\* killed, it executed another program after making the pair,
\* FAKETIME_FLSHM hid the pair from its own ft_shm_destroy, or the wrapper's
\* set_env_or_exit failed.
NothingLeft ==
  \A p \in Proc : pc[p] = "dead" /\ tidy[p] => sem[p] # p /\ shm[p] # p

\* Objects go only by a step of the process that made them; what an earlier
\* process of the same id has left behind is neither removed nor replaced.
OnlyMakerRemoves ==
  [][\A p \in Proc :
       /\ sem[p] = Old => sem'[p] = Old
       /\ shm[p] = Old => shm'[p] = Old
       /\ sem[p] = p /\ sem'[p] # p => pc[p] # pc'[p]
       /\ shm[p] = p /\ shm'[p] # p => pc[p] # pc'[p]]_vars

\* As long as no call of the wrapper fails, every process that loads the
\* library under it and holds the pipe - the grandchildren that outlive the
\* command included - finds the wrapper's pair: one clock for the session.
\* (FAKETIME_FLSHM separates them on purpose.)
OneSession ==
  wrapped /\ ~flshm /\ faults = 0 =>
    \A p \in Proc : keepalive[p] /\ pc[p] = "up" => shared_sem[p] = Root /\ ft_shared[p] = Root

\* The abstract pair: complete once its header is written; a process is a
\* member when it has both objects, which must be of one maker.
Half == "half"
Pair == INSTANCE SharedPair WITH
  made <- {p \in Proc : shm[p] = p /\ header[p]},
  member <- [p \in Proc |-> IF ft_shared[p] = None \/ shared_sem[p] = ft_shared[p]
                            THEN ft_shared[p] ELSE Half]

\* Whatever is left over, removed or made at the same time, a process joins
\* the semaphore and the memory of one and the same pair, when its header
\* is complete.
JoinsWholePair == Pair!PSpec

\* Initialisation ends: a process that looks for a pair that disappears under
\* its hands gets one, does without or gives up, but does not try for ever.
InitEnds ==
  \A p \in Proc : pc[p] \in Starting \cup Creating ~> pc[p] \notin Starting \cup Creating

\* The wrapper removes its pair once its command and all processes holding
\* the pipe are gone, even if others that closed it live on, unless it is
\* killed.
WrapperRemoves ==
  ( /\ pc[Root] \in {"w_wait", "w_read"}
    /\ pc[child] = "dead"
    /\ \A q \in Proc : ~keepalive[q] )
  ~> (~tidy[Root] \/ (sem[Root] # Root /\ shm[Root] # Root))
=============================================================================

----------------------------- MODULE ClockTables ----------------------------
(***************************************************************************)
(* How the library finds the clock of an object it did not make: the table *)
(* of timer descriptors, backed by what the kernel says of a descriptor,   *)
(* and the set of condition variables on the monotonic clock.  Waits takes *)
(* the clock these tables answer for the clock of the object.              *)
(***************************************************************************)
EXTENDS Naturals, FiniteSets

CONSTANTS
  Fd,          \* descriptors, 0 among them
  Entries,     \* FT_TIMERFD_CLOCK_ENTRIES
  Cond,        \* addresses of condition variables
  None

ASSUME TableAssumption ==
  /\ Entries \in Nat \ {0} /\ 0 \in Fd /\ Fd \subseteq Nat
  /\ None \notin {"real", "mono", "pending", "create", "dup"}

VARIABLES
  timerfd_clocks,    \* the table: Entries pairs of a descriptor and a clock
  kernel,            \* the clock of an open timer descriptor, or None
  via,               \* how it came to be: "pending" until timerfd_create returns
  procfs,            \* /proc is mounted
  monotonic_conds,   \* the set of addresses
  life,              \* "none", "init", "live" or "dying"
  clock              \* the clock of the condition variable

fdVars == <<timerfd_clocks, kernel, via, procfs>>
condVars == <<monotonic_conds, life, clock>>

Kind == {"real", "mono"}

-----------------------------------------------------------------------------
(* Timer descriptors *)

\* The first entry that is for fd or has descriptor 0, which marks it free;
\* a full table forgets.
\* Mutant: only a free entry is taken.
remember_timerfd_clock_free(fd, c) ==
  LET fits == {i \in 1..Entries : timerfd_clocks[i].fd = 0}
      i == CHOOSE j \in fits : \A k \in fits : j <= k
  IN  timerfd_clocks' = IF fits = {} THEN timerfd_clocks
                        ELSE [timerfd_clocks EXCEPT ![i] = [fd |-> fd, clock_id |-> c]]

remember_timerfd_clock(fd, c) ==
  LET fits == {i \in 1..Entries : timerfd_clocks[i].fd \in {fd, 0}}
      i == CHOOSE j \in fits : \A k \in fits : j <= k
  IN  timerfd_clocks' = IF fits = {} THEN timerfd_clocks
                        ELSE [timerfd_clocks EXCEPT ![i] = [fd |-> fd, clock_id |-> c]]

\* The first entry for fd, then what the kernel says.
timerfd_clock(fd) ==
  LET fits == {i \in 1..Entries : timerfd_clocks[i].fd = fd}
      i == CHOOSE j \in fits : \A k \in fits : j <= k
  IN  IF procfs THEN kernel[fd]
      ELSE IF fits = {} THEN "real"
      ELSE timerfd_clocks[i].clock_id

\* timerfd_create: the kernel hands out a descriptor, then it is remembered.
RealCreate(fd, c) ==
  /\ kernel[fd] = None
  /\ kernel' = [kernel EXCEPT ![fd] = c]
  /\ via' = [via EXCEPT ![fd] = "pending"]
  /\ UNCHANGED <<timerfd_clocks, procfs>>

timerfd_create(fd) ==
  /\ via[fd] = "pending"
  /\ remember_timerfd_clock(fd, kernel[fd])
  /\ via' = [via EXCEPT ![fd] = "create"]
  /\ UNCHANGED <<kernel, procfs>>

\* The program: close and dup2 are not intercepted.
Close(fd) ==
  /\ kernel[fd] # None /\ via[fd] # "pending"
  /\ kernel' = [kernel EXCEPT ![fd] = None]
  /\ via' = [via EXCEPT ![fd] = None]
  /\ UNCHANGED <<timerfd_clocks, procfs>>

Dup(from, to) ==
  /\ kernel[from] # None /\ via[from] # "pending" /\ kernel[to] = None
  /\ kernel' = [kernel EXCEPT ![to] = kernel[from]]
  /\ via' = [via EXCEPT ![to] = "dup"]
  /\ UNCHANGED <<timerfd_clocks, procfs>>

FdNext ==
  \/ \E fd \in Fd :
       \/ \E c \in Kind : RealCreate(fd, c)
       \/ timerfd_create(fd) \/ Close(fd)
       \/ \E to \in Fd : Dup(fd, to)

-----------------------------------------------------------------------------
(* Condition variables *)

\* pthread_cond_init: the real function, then the set; without memory for
\* the entry the variable is destroyed again.
RealInit(x, c) ==
  /\ life[x] = "none"
  /\ clock' = [clock EXCEPT ![x] = c]
  /\ life' = [life EXCEPT ![x] = IF c = "mono" THEN "init" ELSE "live"]
  /\ UNCHANGED monotonic_conds

pthread_cond_init(x) ==
  /\ life[x] = "init"
  /\ \/ /\ monotonic_conds' = monotonic_conds \union {x}
        /\ life' = [life EXCEPT ![x] = "live"]
     \/ /\ life' = [life EXCEPT ![x] = "none"]
        /\ UNCHANGED monotonic_conds
  /\ UNCHANGED clock

\* pthread_cond_destroy: the real function, which may refuse, then the set.
RealDestroy(x) ==
  /\ life[x] = "live"
  /\ life' = [life EXCEPT ![x] = "dying"]
  /\ UNCHANGED <<monotonic_conds, clock>>

pthread_cond_destroy(x) ==
  /\ life[x] = "dying"
  /\ monotonic_conds' = monotonic_conds \ {x}
  /\ life' = [life EXCEPT ![x] = "none"]
  /\ UNCHANGED clock

CondNext ==
  \E x \in Cond :
    \/ \E c \in Kind : RealInit(x, c)
    \/ pthread_cond_init(x) \/ RealDestroy(x) \/ pthread_cond_destroy(x)

TableInit ==
  /\ timerfd_clocks = [i \in 1..Entries |-> [fd |-> 0, clock_id |-> "real"]]
  /\ kernel = [fd \in Fd |-> None]
  /\ via = [fd \in Fd |-> None]
  /\ procfs \in BOOLEAN
  /\ monotonic_conds = {}
  /\ life = [x \in Cond |-> "none"]
  /\ clock = [x \in Cond |-> "real"]

TableNext ==
  \/ FdNext /\ UNCHANGED condVars
  \/ CondNext /\ UNCHANGED fdVars

TableSpec == TableInit /\ [][TableNext]_<<fdVars, condVars>>

-----------------------------------------------------------------------------
(* Properties *)

\* pthread_cond_timedwait finds the clock of every live condition variable,
\* also at an address where another one was.  timerfd_settime finds the clock
\* of every open timer descriptor where /proc is mounted; elsewhere of those
\* that timerfd_create returned and the table has, descriptor 0 excepted,
\* also when the number was another timer's before.
RightClock ==
  /\ \A x \in Cond : life[x] = "live" => (x \in monotonic_conds <=> clock[x] = "mono")
  /\ \A fd \in Fd :
       LET listed == fd # 0 /\ \E i \in 1..Entries : timerfd_clocks[i].fd = fd
       IN  (procfs /\ via[fd] = "dup") \/ (via[fd] = "create" /\ (procfs \/ listed))
             => timerfd_clock(fd) = kernel[fd]
=============================================================================

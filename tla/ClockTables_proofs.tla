------------------------ MODULE ClockTables_proofs -------------------------
(***************************************************************************)
(* Proofs about the tables of clocks, for any number of descriptors,       *)
(* entries and condition variables.                                        *)
(***************************************************************************)
EXTENDS ClockTables, TLAPS, WellFoundedInduction

Entry == [fd : Fd, clock_id : Kind \cup {None}]

\* The entries in use come before the free ones, no descriptor has two, and
\* what timerfd_create has returned is listed with its clock.
FdInv ==
  /\ timerfd_clocks \in [1..Entries -> Entry]
  /\ kernel \in [Fd -> Kind \cup {None}]
  /\ via \in [Fd -> {None, "pending", "create", "dup"}]
  /\ \A i, j \in 1..Entries : i < j /\ timerfd_clocks[i].fd = 0 => timerfd_clocks[j].fd = 0
  /\ \A i, j \in 1..Entries : timerfd_clocks[i].fd = timerfd_clocks[j].fd => i = j \/ timerfd_clocks[i].fd = 0
  /\ \A i \in 1..Entries : LET e == timerfd_clocks[i] IN
       e.fd # 0 /\ via[e.fd] = "create" => e.clock_id = kernel[e.fd]

\* An address is in the set from the end of pthread_cond_init for the monotonic
\* clock to the end of pthread_cond_destroy.
CondInv ==
  /\ life \in [Cond -> {"none", "init", "live", "dying"}]
  /\ clock \in [Cond -> Kind]
  /\ \A x \in Cond : x \in monotonic_conds <=> life[x] \in {"live", "dying"} /\ clock[x] = "mono"
  /\ \A x \in Cond : life[x] = "init" => clock[x] = "mono"

\* Whatever the program creates, closes, duplicates, initialises and destroys, and
\* however many descriptors the table has room for, timerfd_settime and
\* pthread_cond_timedwait find the clock the object really has.
THEOREM ClocksFound == TableSpec => []RightClock
<1>least. ASSUME NEW S \in SUBSET Nat, S # {} PROVE \E x \in S : \A y \in S : x <= y
  <2>1. \E x \in S : \A y \in S : ~ (<<y, x>> \in OpToRel(<, Nat))
    BY <1>least, NatLessThanWellFounded, WFMin, Zenon
  <2>2. ASSUME NEW x \in S, NEW y \in S, y < x PROVE <<y, x>> \in OpToRel(<, Nat)
    BY <2>2 DEF OpToRel
  <2>3. \A x, y \in S : ~(y < x) => x <= y
    OBVIOUS
  <2> QED
    BY <2>1, <2>2, <2>3, Zenon
<1>t. Entries \in Nat \ {0} /\ 0 \in Fd /\ Fd \subseteq Nat /\ 1..Entries \subseteq Nat
      /\ None \notin Kind \cup {"pending", "create", "dup"}
  BY TableAssumption DEF TableAssumption, Kind
<1>1. ASSUME TableInit PROVE FdInv /\ CondInv
  <2>1. FdInv
    <3>1. timerfd_clocks \in [1..Entries -> Entry] /\ \A i \in 1..Entries : timerfd_clocks[i].fd = 0
      BY <1>1, <1>t DEF TableInit, Entry, Kind
    <3> QED
      BY <1>1, <3>1, Zenon DEF TableInit, FdInv
  <2>2. CondInv
    BY <1>1, Zenon DEF TableInit, CondInv, Kind
  <2> QED
    BY <2>1, <2>2, Zenon
<1>2. ASSUME CondInv, CondNext \/ UNCHANGED condVars PROVE CondInv'
  <2>1. CASE UNCHANGED condVars
    BY <1>2, <2>1, Zenon DEF CondInv, condVars
  <2>2. ASSUME NEW x \in Cond, NEW c \in Kind, RealInit(x, c) PROVE CondInv'
    BY <1>2, <2>2 DEF CondInv, RealInit, Kind
  <2>3. ASSUME NEW x \in Cond, pthread_cond_init(x) PROVE CondInv'
    BY <1>2, <2>3 DEF CondInv, pthread_cond_init, Kind
  <2>4. ASSUME NEW x \in Cond, RealDestroy(x) PROVE CondInv'
    BY <1>2, <2>4 DEF CondInv, RealDestroy, Kind
  <2>5. ASSUME NEW x \in Cond, pthread_cond_destroy(x) PROVE CondInv'
    BY <1>2, <2>5 DEF CondInv, pthread_cond_destroy, Kind
  <2> QED
    BY <1>2, <2>1, <2>2, <2>3, <2>4, <2>5, Zenon DEF CondNext
<1>3. ASSUME FdInv, FdNext \/ UNCHANGED fdVars PROVE FdInv'
  <2> USE <1>3
  <2>t. /\ timerfd_clocks \in [1..Entries -> Entry]
        /\ kernel \in [Fd -> Kind \cup {None}] /\ via \in [Fd -> {None, "pending", "create", "dup"}]
        /\ \A i \in 1..Entries : timerfd_clocks[i].fd \in Fd
    BY DEF FdInv, Entry
  \* The program and the kernel do not touch the table; a descriptor that
  \* changes hands is not one timerfd_create has returned.
  <2>same. ASSUME UNCHANGED timerfd_clocks, kernel' \in [Fd -> Kind \cup {None}],
                  via' \in [Fd -> {None, "pending", "create", "dup"}],
                  \A fd \in Fd : via'[fd] = "create" => via[fd] = "create" /\ kernel'[fd] = kernel[fd]
           PROVE  FdInv'
    BY <2>same, <2>t, Zenon DEF FdInv
  <2>1. CASE UNCHANGED fdVars
    BY <2>1, Zenon DEF FdInv, fdVars
  <2>2. ASSUME NEW fd \in Fd, NEW c \in Kind, RealCreate(fd, c) PROVE FdInv'
    BY <2>2, <2>t, <2>same, Zenon DEF RealCreate
  <2>3. ASSUME NEW fd \in Fd, Close(fd) PROVE FdInv'
    BY <1>t, <2>3, <2>t, <2>same, Zenon DEF Close
  <2>4. ASSUME NEW fd \in Fd, NEW to \in Fd, Dup(fd, to) PROVE FdInv'
    BY <2>4, <2>t, <2>same, Zenon DEF Dup
  <2>5. ASSUME NEW fd \in Fd, timerfd_create(fd) PROVE FdInv'
    <3> DEFINE fits == {i \in 1..Entries : timerfd_clocks[i].fd \in {fd, 0}}
               i == CHOOSE j \in fits : \A k \in fits : j <= k
               e == [fd |-> fd, clock_id |-> kernel[fd]]
    <3>1. /\ UNCHANGED kernel /\ via'[fd] = "create" /\ via' \in [Fd -> {None, "pending", "create", "dup"}]
          /\ \A x \in Fd \ {fd} : via'[x] = via[x]
          /\ timerfd_clocks' = IF fits = {} THEN timerfd_clocks ELSE [timerfd_clocks EXCEPT ![i] = e]
      BY <2>5, <2>t, Zenon DEF timerfd_create, remember_timerfd_clock
    <3>2. e \in Entry /\ e.fd = fd /\ e.clock_id = kernel[fd]
      BY <2>t DEF Entry
    <3>3. CASE fits = {}
      <4>1. \A k \in 1..Entries : timerfd_clocks[k].fd # fd
        BY <3>3, Zenon
      <4> QED
        BY <2>t, <3>1, <3>3, <4>1, Zenon DEF FdInv
    <3>4. CASE fits # {}
      <4>1. i \in fits /\ \A k \in fits : i <= k
        <5>1. \E j \in fits : \A k \in fits : j <= k
          <6>1. fits \in SUBSET Nat
            BY <1>t, Zenon
          <6> QED
            BY <1>least, <3>4, <6>1, Zenon
        <5> QED
          BY <5>1, Zenon
      <4>2. i \in 1..Entries /\ timerfd_clocks[i].fd \in {fd, 0}
        BY <4>1, Zenon
      <4>3. ASSUME NEW k \in 1..Entries, k < i PROVE timerfd_clocks[k].fd \notin {fd, 0}
        <5>1. ~(i <= k)
          BY <1>t, <4>2, <4>3
        <5> QED
          BY <4>1, <5>1, Zenon
      <4> HIDE DEF i, fits
      <4>4. /\ timerfd_clocks' \in [1..Entries -> Entry] /\ timerfd_clocks'[i] = e
            /\ \A k \in 1..Entries : k # i => timerfd_clocks'[k] = timerfd_clocks[k]
        BY <2>t, <3>1, <3>2, <3>4, <4>2, Zenon
      <4> HIDE DEF e
      \* The descriptor is not listed a second time.
      <4>5. ASSUME NEW k \in 1..Entries, k # i, timerfd_clocks[k].fd = fd PROVE fd = 0
        <5>1. k < i \/ i < k
          BY <1>t, <4>2, <4>5
        <5>2. CASE k < i
          BY <4>3, <4>5, <5>2, Zenon
        <5>3. CASE i < k
          BY <4>2, <4>5, <5>3, Zenon DEF FdInv
        <5> QED
          BY <5>1, <5>2, <5>3, Zenon
      <4>6. ASSUME NEW k \in 1..Entries, NEW l \in 1..Entries, k < l, timerfd_clocks'[k].fd = 0
            PROVE  timerfd_clocks'[l].fd = 0
        <5>1. k # l
          BY <1>t, <4>6
        <5>2. timerfd_clocks[k].fd = 0
          BY <4>2, <4>4, <4>6, <3>2, Zenon
        <5>3. ~(k < i)
          BY <4>3, <5>2, Zenon
        <5>4. l # i
          BY <4>6, <5>3, Zenon
        <5> QED
          BY <4>4, <4>6, <5>2, <5>4, Zenon DEF FdInv
      <4>7. ASSUME NEW k \in 1..Entries, NEW l \in 1..Entries, k # l,
                   timerfd_clocks'[k].fd = timerfd_clocks'[l].fd
            PROVE  timerfd_clocks'[k].fd = 0
        <5>1. CASE k # i /\ l # i
          BY <4>4, <4>7, <5>1, Zenon DEF FdInv
        <5>2. CASE k = i \/ l = i
          BY <3>2, <4>4, <4>5, <4>7, <5>2, Zenon
        <5> QED
          BY <5>1, <5>2, Zenon
      <4>8. ASSUME NEW k \in 1..Entries, timerfd_clocks'[k].fd # 0, via'[timerfd_clocks'[k].fd] = "create"
            PROVE  timerfd_clocks'[k].clock_id = kernel[timerfd_clocks'[k].fd]
        <5>1. CASE k = i
          BY <3>2, <4>4, <5>1, Zenon
        <5>2. CASE k # i
          <6>1. timerfd_clocks'[k] = timerfd_clocks[k] /\ timerfd_clocks[k].fd \in Fd \ {fd}
            BY <2>t, <4>4, <4>5, <4>8, <5>2, Zenon
          <6> QED
            BY <3>1, <4>8, <6>1, Zenon DEF FdInv
        <5> QED
          BY <5>1, <5>2, Zenon
      <4> QED
        BY <2>t, <3>1, <4>4, <4>6, <4>7, <4>8, Zenon DEF FdInv
    <3> QED
      BY <3>3, <3>4, Zenon
  <2> QED
    BY <2>1, <2>2, <2>3, <2>4, <2>5, Zenon DEF FdNext
<1>4. ASSUME FdInv, CondInv PROVE RightClock
  <2>1. ASSUME NEW x \in Cond, life[x] = "live" PROVE x \in monotonic_conds <=> clock[x] = "mono"
    BY <1>4, <2>1, Zenon DEF CondInv
  <2>2. ASSUME NEW fd \in Fd, procfs PROVE timerfd_clock(fd) = kernel[fd]
    BY <2>2, Zenon DEF timerfd_clock
  <2>3. ASSUME NEW fd \in Fd, ~procfs, fd # 0, NEW i \in 1..Entries, timerfd_clocks[i].fd = fd,
               via[fd] = "create"
        PROVE  timerfd_clock(fd) = kernel[fd]
    <3> DEFINE fits == {k \in 1..Entries : timerfd_clocks[k].fd = fd}
               first == CHOOSE j \in fits : \A k \in fits : j <= k
    <3>1. fits = {i} /\ i <= i
      <4>1. \A k \in 1..Entries : timerfd_clocks[k].fd = fd => k = i
        BY <1>4, <2>3, Zenon DEF FdInv
      <4>2. i <= i
        BY <1>t
      <4> QED
        BY <2>3, <4>1, <4>2, Zenon
    <3>2. first = i
      <4>1. \E j \in fits : \A k \in fits : j <= k
        BY <3>1, Zenon
      <4>2. first \in fits
        BY <4>1, Zenon
      <4> QED
        BY <3>1, <4>2, Zenon
    <3>3. timerfd_clock(fd) = timerfd_clocks[i].clock_id
      <4>1. timerfd_clock(fd) = timerfd_clocks[first].clock_id
        BY <2>3, <3>1, Zenon DEF timerfd_clock
      <4> QED
        BY <3>2, <4>1, Zenon
    <3> QED
      BY <1>4, <2>3, <3>3, Zenon DEF FdInv
  <2> QED
    BY <2>1, <2>2, <2>3, Zenon DEF RightClock
<1>5. FdInv /\ CondInv /\ [TableNext]_<<fdVars, condVars>> => FdInv' /\ CondInv'
  BY <1>2, <1>3, Zenon DEF TableNext
<1> QED
  BY <1>1, <1>4, <1>5, PTL DEF TableSpec
=============================================================================

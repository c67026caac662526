----------------------------- MODULE SharedPair -----------------------------
(***************************************************************************)
(* What the processes of a session rely on: a pair of semaphore and shared *)
(* memory is made once, as a whole; a process joins one pair that is       *)
(* there, with both of its objects, or inherits its parent's, and leaves   *)
(* it when it ends or executes another program.  ShmLifecycle shows that   *)
(* the wrapper and the library implement this.                             *)
(***************************************************************************)
CONSTANTS
  Proc,     \* process identities; a pair is named after the process that made it
  Old,      \* a pair that is older than the session
  None      \* no pair

VARIABLES
  made,     \* the pairs that are there, complete
  member    \* the pair each process uses

pvars == <<made, member>>

PInit == made = {} /\ member = [p \in Proc |-> None]

Make(p) ==
  /\ p \notin made
  /\ made' = made \cup {p}
  /\ UNCHANGED member

Remove(p) ==
  /\ made' = made \ {p}
  /\ UNCHANGED member

\* A pair can be used after it has been removed, but not joined.
Join(p, o) ==
  /\ member[p] = None
  /\ o \in made \cup {Old}
  /\ member' = [member EXCEPT ![p] = o]
  /\ UNCHANGED made

Inherit(p, q) ==
  /\ member[q] = None
  /\ member' = [member EXCEPT ![q] = member[p]]
  /\ UNCHANGED made

Leave(p) ==
  /\ member' = [member EXCEPT ![p] = None]
  /\ UNCHANGED made

PNext ==
  \E p \in Proc :
    \/ Make(p) \/ Remove(p) \/ Leave(p)
    \/ \E o \in Proc \cup {Old} : Join(p, o)
    \/ \E q \in Proc : Inherit(p, q)

PSpec == PInit /\ [][PNext]_pvars
=============================================================================

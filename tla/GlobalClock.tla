----------------------------- MODULE GlobalClock -----------------------------
(***************************************************************************)
(* What the state in shared memory promises to all processes started under *)
(* one faketime session: one global clock, whose every advance is atomic.  *)
(* First the records of FAKETIME_LOAD_FILE are replayed, each exactly once *)
(* and in order, whichever process asks; then, if the "i" modifier is in   *)
(* use, every call gets a tick of its own, and the ticks are consecutive.  *)
(* SharedClock shows that next_time() and load_time() implement this.      *)
(***************************************************************************)
EXTENDS Naturals, Sequences

CONSTANTS
  LoadLen,          \* number of records in FAKETIME_LOAD_FILE, 0 if not set
  Instant           \* the instants a start time can be

VARIABLES
  ticks,            \* ft_shared->ticks
  file_idx,         \* ft_shared->file_idx
  served            \* the answers given so far, in the order they were fixed

gvars == <<ticks, file_idx, served>>

\* An answer is a record of the load file, a tick, or computed from the rule
\* (start time and rate) alone, without touching the shared counters.
FileAnswer(n) == [kind |-> "file", n |-> n]
TickAnswer(n) == [kind |-> "tick", n |-> n]
RuleAnswer(n) == [kind |-> "rule", n |-> n]

GInit == ticks = 0 /\ file_idx = 0 /\ served = <<>>

\* load_time() hands out the next record.
Replay ==
  /\ file_idx < LoadLen
  /\ file_idx' = file_idx + 1
  /\ served' = Append(served, FileAnswer(file_idx))
  /\ UNCHANGED ticks

\* The first process to find the file used up moves the tick counter past 0,
\* so that the first tick after the replay differs from the last record.
EndReplay ==
  /\ LoadLen > 0 /\ file_idx >= LoadLen /\ ticks = 0
  /\ ticks' = 1
  /\ UNCHANGED <<file_idx, served>>

\* next_time() hands out a tick.
Tick ==
  /\ file_idx >= LoadLen
  /\ LoadLen > 0 => ticks > 0
  /\ served' = Append(served, TickAnswer(ticks))
  /\ ticks' = ticks + 1
  /\ UNCHANGED file_idx

\* A time computed from the start time.
Rule ==
  /\ file_idx >= LoadLen
  /\ \E n \in Instant : served' = Append(served, RuleAnswer(n))
  /\ UNCHANGED <<ticks, file_idx>>

GNext == Replay \/ EndReplay \/ Tick \/ Rule

GSpec == GInit /\ [][GNext]_gvars
=============================================================================

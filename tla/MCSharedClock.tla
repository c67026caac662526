---------------------------- MODULE MCSharedClock ----------------------------
(* Sessions small enough for TLC: who is a thread of which process. *)
EXTENDS SharedClock

\* Processes with one thread each.
OneThreadEach == [t \in Thread |-> t]

\* A process with two threads, and one with a single thread.
TwoThreads == <<1, 1, 2>>
=============================================================================

------------------------------ MODULE MCWaits -------------------------------
(***************************************************************************)
(* The blocking calls and the tables they ask share no variable.  A run    *)
(* follows one of the three machines, so that their states add.            *)
(***************************************************************************)
EXTENDS Waits, ClockTables

VARIABLE part

allVars == <<vars, fdVars, condVars, part>>

MCRates == {[set |-> FALSE, num |-> 1, den |-> 1], [set |-> TRUE, num |-> 2, den |-> 1],
            [set |-> TRUE, num |-> 1, den |-> 2], [set |-> TRUE, num |-> 3, den |-> 1]}
MCStart == [c \in {"real", "mono", "cpu"} |->
              [sec |-> CASE c = "real" -> 10 [] c = "mono" -> 3 [] c = "cpu" -> 0, nsec |-> 1]]
MCBase == [sec |-> 20, nsec |-> 2]
MCWaitMs == {Unset, 1}
MCTimeouts == {-1, 0, 1, 3, 7}
MCOffsets == {-5, 0, 3, 6}
MCPeriods == {0, 3}
MCLengths == {0, 1, 3, 6, Value(MaxTime)}
MCFd == 0..3

Init ==
  /\ part \in {"waits", "descriptors", "conditions"}
  /\ WaitInit /\ TableInit
  /\ conf.wait_ms # Unset => conf.num = 2
  /\ part # "waits" => conf = CHOOSE c \in Conf : c.wait_ms = Unset
  /\ part # "descriptors" => procfs

Next ==
  \/ part = "waits" /\ WaitNext /\ UNCHANGED <<fdVars, condVars, part>>
  \/ part = "descriptors" /\ FdNext /\ UNCHANGED <<vars, condVars, part>>
  \/ part = "conditions" /\ CondNext /\ UNCHANGED <<vars, fdVars, part>>

Spec == Init /\ [][Next]_allVars
=============================================================================

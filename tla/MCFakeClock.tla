----------------------------- MODULE MCFakeClock -----------------------------
(* Settings small enough for TLC. *)
EXTENDS FakeClock

S(k, n, x, i) == [kind |-> k, n |-> n, x |-> x, i |-> i]

Clocks    == [real |-> 10, mon |-> 0]
RealOnly  == [real |-> 10]
AtFirst   == {S("offset", 3, 0, 0), S("at", 5, 0, 1)}
Later     == {S("at", 5, 2, 0), S("follow", 0, 0, 0)}
TwiceOnce == {S("offset", 0, 2, 0), S("offset", 0, 1, 0)}
Twice     == {S("offset", 0, 2, 0)}
Plain     == {S("offset", 0, 0, 0)}
Nothing   == {}
NoCache   == -1
Stepping  == {S("offset", 0, 0, 1)}
=============================================================================

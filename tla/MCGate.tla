------------------------------- MODULE MCGate -------------------------------
EXTENDS Gate

Plain == [skip |-> FALSE, at |-> FALSE, startSecs |-> Unset, stopSecs |-> Unset,
          startCalls |-> Unset, stopCalls |-> Unset, spawn |-> FALSE,
          spawnSecs |-> Unset, spawnCalls |-> Unset, mt |-> TRUE]

MCSettings ==
  {[Plain EXCEPT !.skip = TRUE, !.mt = FALSE],
   [Plain EXCEPT !.skip = TRUE, !.at = TRUE, !.mt = FALSE],
   [Plain EXCEPT !.startCalls = 2, !.stopCalls = 3, !.spawn = TRUE, !.mt = FALSE],
   [Plain EXCEPT !.skip = TRUE],
   [Plain EXCEPT !.startCalls = 2, !.stopCalls = 3],
   [Plain EXCEPT !.startSecs = 1, !.stopCalls = 4],
   [Plain EXCEPT !.startCalls = 2, !.stopSecs = 1],
   [Plain EXCEPT !.spawn = TRUE, !.spawnSecs = 1, !.spawnCalls = 2],
   [Plain EXCEPT !.spawn = TRUE, !.spawnCalls = 0, !.stopSecs = 1]}
=============================================================================

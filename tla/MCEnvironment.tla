---------------------------- MODULE MCEnvironment ----------------------------
(***************************************************************************)
(* Constants for the runs of Environment.  The ranks make a module with an *)
(* earlier name (or a smaller interval) come first in the priority queue.  *)
(***************************************************************************)
EXTENDS Environment

CONSTANTS m1, m2, m3, o1, w1, w2, w3

OneModule == {m1}
TwoModules == {m1, m2}
ThreeModules == {m1, m2, m3}
OneOnceOnly == {o1}
TwoWorkers == {w1, w2}
ThreeWorkers == {w1, w2, w3}

None == {}

RankOf == [m \in Modules |-> IF m = m1 THEN 1 ELSE IF m = m2 THEN 2 ELSE 3]

==============================================================================

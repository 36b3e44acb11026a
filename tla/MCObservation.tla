---------------------------- MODULE MCObservation ----------------------------
(* Two operations, one of which is abandoned, and two users of one           *)
(* statistics monitor of either kind, with and without other monitors.       *)
EXTENDS Observation, TLC

CONSTANTS w1, w2, u1, u2, a

MCWorkers == {w1, w2}
MCUsers == {u1, u2}
MCMonitors == {a}
MCMonKinds == a :> {"logical", "physical"}
MCWatches == {{}, {"logical"}}
MCKindOf == [w \in MCWorkers |-> "logical"]
MCFate == (w1 :> "done") @@ (w2 :> "abandoned")
MCMaxCount == [k \in MCWatches |-> IF k = {} THEN 1 ELSE 0]
MCForever == 1000
Symmetry == Permutations(MCUsers)
===============================================================================

-------------------------- MODULE MCMultiPollReactor --------------------------
(* Small instances of MultiPollReactor: each .cfg picks its reads, how they  *)
(* are split and where they go, and the failures that may happen.            *)
EXTENDS MultiPollReactor, TLC

CONSTANTS a1, x1, x2, x3, gpu

\* One read of two sub-ranges.
OneReadOf == [t \in {x1, x2} |-> a1]
OneRead == (a1 :> <<x1, x2>>)
OneHost == [t \in {x1, x2} |-> Host]
OneDevice == [t \in {x1, x2} |-> gpu]

\* A device read of three sub-ranges, one more than a shard has buffers.
DeviceReadOf == [t \in {x1, x2, x3} |-> a1]
DeviceRead == (a1 :> <<x1, x2, x3>>)
AllDevice == [t \in {x1, x2, x3} |-> gpu]
===============================================================================

----------------------------- MODULE MCVaaQueue -----------------------------
(* Small instances of VaaQueue: two replicas; emitter "a" with two VAAs, whose *)
(* messages share a FIFO group, and emitter "b" of the same chain with one.    *)
EXTENDS VaaQueue, TLC

CONSTANTS r1, r2, none

MCVaas == {[chain |-> 1, emitter |-> "a", seq |-> 0],
           [chain |-> 1, emitter |-> "a", seq |-> 1],
           [chain |-> 1, emitter |-> "b", seq |-> 5]}
\* One emitter only.
MCVaasOneEmitter == {v \in MCVaas : v.emitter = "a"}

MCReplicas == {r1, r2}
Symmetry == Permutations(MCReplicas)
=============================================================================

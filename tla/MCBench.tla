------------------------------ MODULE MCBench ------------------------------
EXTENDS Bench

MCKinds == << "one-shot", "stream", "stream", "peer" >>

\* A root state, a context, nothing; and a context in two allocations.
MCProfiles ==
    {[peak_heap |-> 4, allocations_per_hash |-> 1],
     [peak_heap |-> 9, allocations_per_hash |-> 1],
     [peak_heap |-> 9, allocations_per_hash |-> 2],
     [peak_heap |-> 0, allocations_per_hash |-> 0]}
=============================================================================

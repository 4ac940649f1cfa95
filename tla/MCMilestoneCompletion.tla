------------------------ MODULE MCMilestoneCompletion -------------------------
(* A pipeline in which nothing goes wrong.                                     *)
EXTENDS MilestoneCompletion

NoTrouble == {[faults |-> 0, crashes |-> 0, lockLosses |-> 0, benchmarks |-> 1]}
=============================================================================

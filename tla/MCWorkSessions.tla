---------------------------- MODULE MCWorkSessions ----------------------------
(* Instances of WorkSessions for TLC. *)
EXTENDS WorkSessions

CONSTANTS m1, m2, r1, r2

TwoMilestones == {m1, m2}
TwoRequests == {r1, r2}
=============================================================================

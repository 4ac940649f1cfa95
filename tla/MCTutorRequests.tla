--------------------------- MODULE MCTutorRequests ---------------------------
(* Instances of TutorRequests for TLC. *)
EXTENDS TutorRequests

CONSTANTS c1, c2

TwoRequests == {c1, c2}
AllEndings == {"success", "failure", "unreported"}
=============================================================================

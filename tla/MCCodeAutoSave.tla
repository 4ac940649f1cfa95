---------------------------- MODULE MCCodeAutoSave ----------------------------
(* Instances of CodeAutoSave for TLC. *)
EXTENDS CodeAutoSave

CONSTANTS s1, s2, a

TwoSaves == {s1, s2}
OneText == {a}
=============================================================================

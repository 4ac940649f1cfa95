------------------------- MODULE MCSubmissionPipeline -------------------------
(* The troubles TLC lets the pipeline meet.                                    *)
EXTENDS SubmissionPipeline

Trouble(f, c, l, b) ==
  [faults |-> f, crashes |-> c, lockLosses |-> l, benchmarks |-> b]

\* Two of rejected calls and crashes, or two attempts at once; a benchmark if
\* nothing is worse than two rejected calls.
SomeTrouble ==
  {Trouble(2, 0, 0, 1), Trouble(1, 1, 0, 0), Trouble(0, 2, 0, 0), Trouble(0, 0, 1, 0)}
=============================================================================

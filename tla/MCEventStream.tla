---------------------------- MODULE MCEventStream ----------------------------
(* Feeds for TLC: what one attempt publishes. *)
EXTENDS EventStream

\* types numbered from 1, as one attempt publishes them.
Numbered(types, attempt) == [i \in DOMAIN types |-> Event(types[i], i, attempt)]

\* What an attempt publishes first: that it prepares.
Run(types) == Numbered(<<"output">> \o types, 1)

CompileErrors == {Run(<<"compile_error">>), Run(<<"compile_error", "criteria_results">>)}

\* A run that fails, with its criteria after that; and two attempts after the
\* first of which the worker died: the second starts from 1 again and ends above
\* the numbers of the first, or has its first event rejected and ends with a
\* number that the first has reached.
AnyRun ==
  {Run(<<"error", "criteria_results">>),
   Run(<<"output">>) \o <<Event("output", 1, 2), Event("complete", 3, 2)>>,
   Run(<<"output">>) \o <<Event("error", 2, 2)>>}
=============================================================================

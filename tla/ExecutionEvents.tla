--------------------------- MODULE ExecutionEvents ---------------------------
(***************************************************************************)
(* The vocabulary of the execution event stream, shared by the producer    *)
(* (SubmissionPipeline) and by the consumers (EventStream).                *)
(***************************************************************************)
EXTENDS Naturals, Sequences

\* Event types an attempt of the worker publishes; all carry a sequenceId.
SequencedTypes ==
  {"output", "compile_error", "benchmark_progress", "benchmark_result",
   "criteria_results", "complete", "error", "timeout"}

\* The submit route's own event, the only one without a sequenceId.
QueuedType == "queued"

\* Events after which the stream route ends the stream and the client stops.
TerminalTypes == {"complete", "error", "timeout"}

\* seq 0 stands for "no sequenceId": attempts number their events from 1.
NoSeq == 0

\* An event: attempt tells the (re-)runs of a job apart; the code does not
\* carry it, and no transition reads it.
Event(type, seq, attempt) == [type |-> type, seq |-> seq, attempt |-> attempt]

QueuedEvent == Event(QueuedType, NoSeq, 0)

IsTerminal(e) == e.type \in TerminalTypes
=============================================================================

-------------------------- MODULE SubmissionLifecycle --------------------------
(***************************************************************************)
(* What the submission pipeline promises of the row of a submission, for   *)
(* a client that only reads submissions.status: accepted work is queued,   *)
(* run, perhaps queued again by a busy execution service, and settles once.*)
(***************************************************************************)
EXTENDS Naturals

CONSTANT Attempts   \* attempts of an execution job

VARIABLES
  status,    \* submissions.status, "none" before the row exists
  tries,     \* attempts the queue has charged to the job
  reply      \* "none", "refused", "error500", "unavailable", "accepted", ...

lifecycleVars == <<status, tries, reply>>

Init == status = "none" /\ tries = 0 /\ reply = "none"

Refuse ==
  /\ reply = "none" /\ status = "none"
  /\ reply' = "refused"
  /\ UNCHANGED <<status, tries>>

Store ==
  /\ reply = "none" /\ status = "none"
  /\ status' = "queued"
  /\ UNCHANGED <<reply, tries>>

Accept ==
  /\ reply = "none" /\ status = "queued"
  /\ reply' = "accepted"
  /\ UNCHANGED <<status, tries>>

Start ==
  /\ reply = "accepted" /\ status = "queued" /\ tries < Attempts
  /\ status' = "running"
  /\ UNCHANGED <<tries, reply>>

Settle ==
  /\ status = "running"
  /\ status' \in {"completed", "failed"}
  /\ UNCHANGED <<tries, reply>>

\* The execution service was busy: the row is queued again, and later the
\* queue charges the attempt.
Requeue ==
  /\ status = "running"
  /\ status' = "queued"
  /\ UNCHANGED <<tries, reply>>

Charge ==
  /\ reply = "accepted" /\ status = "queued" /\ tries < Attempts
  /\ tries' = tries + 1
  /\ UNCHANGED <<status, reply>>

GiveUp ==
  /\ status = "queued" /\ tries = Attempts
  /\ status' = "failed"
  /\ UNCHANGED <<tries, reply>>

Next ==
  Refuse \/ Store \/ Accept \/ Start \/ Settle \/ Requeue \/ Charge \/ GiveUp

Spec == Init /\ [][Next]_lifecycleVars
=============================================================================

----------------------- MODULE SubmissionPipeline_proofs -----------------------
(***************************************************************************)
(* Safety of the submission pipeline for every number of attempts, stalls, *)
(* faults, crashes and lock losses: any attempt may run twice, die or see  *)
(* every call it makes rejected.  It is shown in three parts: what always  *)
(* holds (IInv), what an attempt that holds the job knows (Story), and the *)
(* steps of SubmissionLifecycle; MilestoneCompletion, which adds the       *)
(* criteria to the pipeline, follows.                                      *)
(***************************************************************************)
EXTENDS MilestoneCompletion, FiniteSetTheorems, TLAPS

\* The job exists once the handler has queued it, and a job that has not
\* failed for good has attempts left to charge.
AttemptsLeft ==
  /\ request \in {"start", "inserted"} => job.state = "none"
  /\ job.state # "failed" => job.attemptsMade < Attempts

\* An attempt in front of the UPDATE to 'completed' has published 'complete'.
AboutToComplete == \A r \in Runs : At(r, "completeRow") => Logged("complete")

\* The counter of an attempt is ahead of everything the attempt has logged.
SeqAhead ==
  \A i \in DOMAIN log : log[i].attempt # NoRun => log[i].seq < runs[log[i].attempt].seq

IInv ==
  /\ TypeOK /\ AttemptsLeft
  /\ AboutToComplete /\ CompletedWasAnnounced
  /\ SeqAhead /\ AttemptSeqIncreases

-----------------------------------------------------------------------------
\* Attempts are numbered from 1, so none is NoRun.
LEMMA RunsAreNumbers == Runs \subseteq Nat \ {0}
  BY PipelineAssumption, SMT DEF Runs

\* The processor reaches 'completeRow' only by publishing 'complete'.
LEMMA ThrownTarget ==
  ASSUME NEW r
  PROVE  Thrown(r) \in {"internalError", "threw"}
  BY DEF Thrown

\* An element of the list is an event: its attempt and number have their types.
LEMMA LogElement ==
  ASSUME log \in Seq(Events), NEW i \in DOMAIN log
  PROVE  /\ log[i].seq \in Nat
         /\ log[i].attempt # NoRun => log[i].attempt \in Runs
<1>1. log[i] \in Events
  OBVIOUS
<1> QED BY <1>1 DEF Events

\* What appending one event of an attempt does to the two sequenceId facts.
LEMMA AppendKeepsOrder ==
  ASSUME TypeOK, SeqAhead, AttemptSeqIncreases,
         NEW r \in Runs, NEW type \in SequencedTypes,
         log' = Append(log, Event(type, runs[r].seq, r)),
         runs' \in [Runs -> [at : Points, seq : Nat, outcome : Outcomes, bench : Nat]],
         runs'[r].seq = runs[r].seq + 1,
         \A q \in Runs \ {r} : runs'[q].seq = runs[q].seq
  PROVE  log' \in Seq(Events) /\ SeqAhead' /\ AttemptSeqIncreases'
<1> DEFINE e == Event(type, runs[r].seq, r)
<1>1. e \in Events /\ e.seq = runs[r].seq /\ e.attempt = r
  BY DEF Event, Events, TypeOK
<1>2. log \in Seq(Events) /\ Len(log) \in Nat /\ DOMAIN log = 1 .. Len(log)
  BY DEF TypeOK
<1> HIDE DEF e
<1>3. log' = Append(log, e)
  BY DEF e
<1>4. /\ log' \in Seq(Events)
      /\ DOMAIN log' = 1 .. (Len(log) + 1)
      /\ \A i \in 1 .. Len(log) : log'[i] = log[i]
      /\ log'[Len(log) + 1] = e
  BY <1>1, <1>2, <1>3
<1>5. SeqAhead'
  <2> SUFFICES ASSUME NEW i \in DOMAIN log', log'[i].attempt # NoRun
               PROVE  log'[i].seq < runs'[log'[i].attempt].seq
    BY DEF SeqAhead, NoRun
  <2>1. CASE i \in 1 .. Len(log)
    <3>1. log[i] \in Events /\ log'[i] = log[i]
      BY <1>2, <1>4, <2>1
    <3>2. log[i].attempt \in Runs /\ log[i].seq \in Nat
      BY <3>1 DEF Events
    <3>3. log[i].seq < runs[log[i].attempt].seq
      BY <1>2, <2>1, <3>1 DEF SeqAhead
    <3>4. runs[r].seq \in Nat
      BY DEF TypeOK
    <3> QED BY <3>1, <3>2, <3>3, <3>4
  <2>2. CASE i = Len(log) + 1
    <3>1. runs[r].seq \in Nat
      BY DEF TypeOK
    <3> QED BY <1>1, <1>4, <2>2, <3>1
  <2> QED BY <1>2, <1>4, <2>1, <2>2
<1>6. AttemptSeqIncreases'
  <2> SUFFICES ASSUME NEW i \in DOMAIN log', NEW j \in DOMAIN log',
                      i < j, log'[i].attempt = log'[j].attempt, log'[i].attempt # NoRun
               PROVE  log'[i].seq < log'[j].seq
    BY DEF AttemptSeqIncreases, NoRun
  <2>1. i \in 1 .. Len(log) /\ log'[i] = log[i]
    BY <1>2, <1>4
  <2>2. CASE j \in 1 .. Len(log)
    BY <1>2, <1>4, <2>1, <2>2 DEF AttemptSeqIncreases
  <2>3. CASE j = Len(log) + 1
    BY <1>1, <1>2, <1>4, <2>1, <2>3 DEF SeqAhead
  <2> QED BY <1>2, <1>4, <2>2, <2>3
<1> QED BY <1>4, <1>5, <1>6

\* A step that leaves the list alone keeps the invariant when no attempt enters
\* 'completeRow' and only an attempt that is there completes the row.
LEMMA QuietStep ==
  ASSUME IInv, TypeOK', AttemptsLeft', UNCHANGED log,
         \A r \in Runs : /\ runs'[r].seq = runs[r].seq
                         /\ runs'[r].at = "completeRow" => runs[r].at = "completeRow",
         row' = "completed" => row = "completed" \/ \E r \in Runs : At(r, "completeRow")
  PROVE  IInv'
<1>1. AboutToComplete' /\ CompletedWasAnnounced'
  BY DEF IInv, AboutToComplete, CompletedWasAnnounced, Logged, At
<1>2. SeqAhead'
  <2> SUFFICES ASSUME NEW i \in DOMAIN log, log[i].attempt # NoRun
               PROVE  log[i].seq < runs'[log[i].attempt].seq
    BY DEF SeqAhead, NoRun
  <2>1. log[i].attempt \in Runs
    BY LogElement DEF IInv, TypeOK
  <2> QED BY <2>1 DEF IInv, SeqAhead
<1>3. AttemptSeqIncreases'
  BY DEF IInv, AttemptSeqIncreases, NoRun
<1> QED BY <1>1, <1>2, <1>3 DEF IInv

\* Whatever goes wrong is counted in a record of naturals.
LEMMA TroublesStep ==
  ASSUME TypeOK, NoFault \/ Fault \/ CrashNow
  PROVE  troubles' \in [faults : Nat, crashes : Nat, lockLosses : Nat]
<1>0. troubles \in [faults : Nat, crashes : Nat, lockLosses : Nat]
  BY DEF TypeOK
<1>1. CASE NoFault
  BY <1>0, <1>1 DEF NoFault
<1>2. CASE Fault
  BY <1>0, <1>2 DEF Fault
<1>3. CASE CrashNow
  BY <1>0, <1>3 DEF CrashNow
<1> QED BY <1>1, <1>2, <1>3

\* Moving one attempt to another point keeps the type of runs and its numbers.
LEMMA GotoType ==
  ASSUME TypeOK, NEW r \in Runs, NEW p \in Points, Goto(r, p)
  PROVE  /\ runs' \in [Runs -> [at : Points, seq : Nat, outcome : Outcomes, bench : Nat]]
         /\ \A q \in Runs : runs'[q].seq = runs[q].seq
         /\ runs'[r].at = p
         /\ \A q \in Runs \ {r} : runs'[q].at = runs[q].at
  BY DEF TypeOK, Goto

\* UPDATE submissions keeps the invariant.
LEMMA SetRowKeeps ==
  ASSUME IInv, NEW r \in Runs, NEW from, NEW status \in RowStatuses,
         NEW next \in Points \ {"completeRow"},
         status = "completed" => from = "completeRow",
         SetRow(r, from, status, next)
  PROVE  IInv'
<1>1. PICK p \in Points \ {"completeRow"} : Goto(r, p)
  BY ThrownTarget DEF SetRow, Points, CatchPoints, EndPoints
<1>2. row' \in {row, status} /\ (NoFault \/ Fault)
  BY DEF SetRow
<1>3. TypeOK' /\ AttemptsLeft'
  BY <1>1, <1>2, GotoType, TroublesStep DEF IInv, TypeOK, AttemptsLeft, SetRow, requestVars
<1>4. row' = "completed" => row = "completed" \/ At(r, "completeRow")
  BY <1>2 DEF SetRow
<1> QED BY <1>1, <1>3, <1>4, GotoType, QuietStep DEF IInv, SetRow, At

\* A call that only waits keeps the invariant.
LEMMA AwaitKeeps ==
  ASSUME IInv, NEW r \in Runs, NEW from,
         NEW next \in Points \ {"completeRow"}, NEW onError \in Points \ {"completeRow"},
         Await(r, from, next, onError)
  PROVE  IInv'
<1>1. PICK p \in Points \ {"completeRow"} : Goto(r, p)
  BY DEF Await
<1>2. NoFault \/ Fault
  BY DEF Await
<1>3. TypeOK' /\ AttemptsLeft'
  BY <1>1, <1>2, GotoType, TroublesStep DEF IInv, TypeOK, AttemptsLeft, Await, requestVars
<1> QED BY <1>1, <1>3, GotoType, QuietStep DEF IInv, Await, At

\* Publishing keeps the invariant, provided 'completeRow' is entered only
\* through a successful publish of 'complete'.
LEMMA PublishKeeps ==
  ASSUME IInv, NEW r \in Runs, NEW from, NEW type \in SequencedTypes,
         NEW next \in Points, NEW onError \in Points \ {"completeRow"},
         next = "completeRow" => type = "complete",
         Publish(r, from, type, next, onError)
  PROVE  IInv'
<1> DEFINE e == Event(type, runs[r].seq, r)
<1>1. PICK p \in {next, onError} :
        /\ runs' = [runs EXCEPT ![r].at = p, ![r].seq = @ + 1]
        /\ log' \in {log, Append(log, e)}
        /\ p = "completeRow" => type = "complete" /\ log' = Append(log, e)
        /\ NoFault \/ Fault
  BY DEF Publish
<1>2. /\ runs' \in [Runs -> [at : Points, seq : Nat, outcome : Outcomes, bench : Nat]]
      /\ runs[r].seq \in Nat
      /\ runs'[r].seq = runs[r].seq + 1 /\ runs'[r].at = p
      /\ \A q \in Runs \ {r} : runs'[q] = runs[q]
  <2>1. runs \in [Runs -> [at : Points, seq : Nat, outcome : Outcomes, bench : Nat]]
    BY DEF IInv, TypeOK
  <2>2. p \in Points
    OBVIOUS
  <2> QED BY <1>1, <2>1, <2>2
<1>3. log \in Seq(Events) /\ e \in Events
  BY <1>2 DEF IInv, TypeOK, Event, Events
<1>4. log' \in Seq(Events) /\ SeqAhead' /\ AttemptSeqIncreases'
  <2>1. CASE log' = Append(log, e)
    BY <1>2, <2>1, AppendKeepsOrder DEF IInv
  <2>2. CASE log' = log
    <3>1. AttemptSeqIncreases'
      BY <2>2 DEF IInv, AttemptSeqIncreases, NoRun
    <3>2. ASSUME NEW i \in DOMAIN log, log[i].attempt # NoRun
          PROVE  log[i].seq < runs'[log[i].attempt].seq
      <4>1. log[i].attempt \in Runs /\ log[i].seq \in Nat
        BY <1>3, <3>2, LogElement
      <4>2. log[i].seq < runs[log[i].attempt].seq
        BY <3>2 DEF IInv, SeqAhead
      <4> QED BY <1>2, <4>1, <4>2
    <3> QED BY <1>3, <2>2, <3>1, <3>2 DEF SeqAhead, NoRun
  <2> QED BY <1>1, <2>1, <2>2
<1>5. TypeOK' /\ AttemptsLeft'
  BY <1>1, <1>2, <1>4, TroublesStep DEF IInv, TypeOK, AttemptsLeft, Publish, requestVars
<1>6. \A t : Logged(t) => Logged(t)'
  BY <1>1, <1>3 DEF Logged
<1>7. p = "completeRow" => Logged("complete")'
  <2> SUFFICES ASSUME p = "completeRow" PROVE Logged("complete")'
    OBVIOUS
  <2>1. e.type = "complete" /\ log' = Append(log, e)
    BY <1>1 DEF Event
  <2>2. Len(log) + 1 \in DOMAIN log' /\ log'[Len(log) + 1] = e
    BY <1>3, <2>1
  <2> QED BY <2>1, <2>2 DEF Logged
<1>8. AboutToComplete' /\ CompletedWasAnnounced'
  BY <1>2, <1>6, <1>7 DEF IInv, AboutToComplete, CompletedWasAnnounced, At, Publish
<1> QED BY <1>4, <1>5, <1>8 DEF IInv

-----------------------------------------------------------------------------
(* One lemma per group of actions. *)

\* A step that touches neither the list nor the attempts keeps the invariant
\* unless it completes the row.
LEMMA OutsideStep ==
  ASSUME IInv, TypeOK', AttemptsLeft', UNCHANGED <<log, runs>>,
         row' \in {row, "queued", "failed"}
  PROVE  IInv'
  BY QuietStep DEF IInv

\* Every step of the submit handler keeps the invariant.
LEMMA SubmitKeeps == IInv /\ Submit => IInv'
<1> SUFFICES ASSUME IInv, Submit PROVE IInv'
  OBVIOUS
<1> USE DEF requestVars
<1>1. CASE Reject
  BY <1>1, OutsideStep DEF Reject, IInv, TypeOK, AttemptsLeft
<1>2. CASE InsertRow
  BY <1>2, OutsideStep, TroublesStep DEF InsertRow, IInv, TypeOK, AttemptsLeft, RowStatuses
<1>3. CASE Enqueue
  <2>1. /\ request' \in {"accepted", "addFailed"}
        /\ announced' \in {announced, "pending"}
        /\ UNCHANGED <<row, runs, log, benchRows, handler>>
        /\ NoFault \/ Fault
    BY <1>3 DEF Enqueue
  <2>2. PICK j \in {job.state, "waiting"}, p \in {job.payload} \cup Payloads :
          job' = [job EXCEPT !.state = j, !.payload = p]
    <3>1. CASE job' = job
      BY <3>1 DEF IInv, TypeOK
    <3>2. CASE \E p \in Payloads : job' = [job EXCEPT !.state = "waiting", !.payload = p]
      BY <3>2
    <3> QED BY <1>3, <3>1, <3>2 DEF Enqueue
  <2>3. /\ job' \in [state : JobStates, payload : Payloads, attemptsMade : 0 .. Attempts,
                     stalls : 0 .. MaxStalls, owner : Runs \cup {NoRun}]
        /\ job'.attemptsMade = job.attemptsMade
    BY <2>2 DEF IInv, TypeOK, JobStates
  <2>4. TypeOK'
    BY <2>1, <2>3, TroublesStep DEF IInv, TypeOK
  <2>5. AttemptsLeft'
    <3>1. job.attemptsMade < Attempts
      BY <1>3 DEF Enqueue, IInv, AttemptsLeft
    <3> QED BY <2>1, <2>3, <3>1 DEF AttemptsLeft
  <2> QED BY <2>1, <2>4, <2>5, OutsideStep
<1>4. CASE MarkUnavailable
  BY <1>4, OutsideStep, TroublesStep
     DEF MarkUnavailable, IInv, TypeOK, AttemptsLeft, RowStatuses
<1>5. CASE ApiCrash
  BY <1>5, OutsideStep, TroublesStep DEF ApiCrash, IInv, TypeOK, AttemptsLeft
<1>6. CASE AnnounceQueued
  <2>1. CASE log' = log
    BY <1>6, <2>1, OutsideStep, TroublesStep DEF AnnounceQueued, IInv, TypeOK, AttemptsLeft
  <2>2. CASE log' = Append(log, QueuedEvent)
    <3>1. QueuedEvent \in Events /\ QueuedEvent.attempt = NoRun
      BY DEF QueuedEvent, Event, Events, NoRun, NoSeq
    <3>2. log \in Seq(Events)
      BY DEF IInv, TypeOK
    <3>3. /\ log' \in Seq(Events)
          /\ Len(log) \in Nat /\ DOMAIN log = 1 .. Len(log)
          /\ DOMAIN log' = 1 .. (Len(log) + 1)
          /\ \A i \in 1 .. Len(log) : log'[i] = log[i]
          /\ log'[Len(log) + 1].attempt = NoRun
      BY <2>2, <3>1, <3>2
    <3>4. UNCHANGED <<request, row, job, runs, benchRows, handler>>
      BY <1>6 DEF AnnounceQueued
    <3>5. TypeOK' /\ AttemptsLeft'
      BY <1>6, <3>3, <3>4, TroublesStep DEF AnnounceQueued, IInv, TypeOK, AttemptsLeft
    <3>6. AboutToComplete' /\ CompletedWasAnnounced'
      BY <3>3, <3>4 DEF IInv, AboutToComplete, CompletedWasAnnounced, Logged, At
    <3>7. SeqAhead'
      BY <3>3, <3>4 DEF IInv, SeqAhead, NoRun
    <3>8. AttemptSeqIncreases'
      BY <3>3 DEF IInv, AttemptSeqIncreases, NoRun
    <3> QED BY <3>5, <3>6, <3>7, <3>8 DEF IInv
  <2> QED BY <1>6, <2>1, <2>2 DEF AnnounceQueued
<1> QED BY <1>1, <1>2, <1>3, <1>4, <1>5, <1>6 DEF Submit

\* A stalled job is delivered again or failed: its type is kept either way.
LEMMA StallJobType ==
  ASSUME TypeOK, AttemptsLeft, job.state = "active", StallJob
  PROVE  /\ job' \in [state : JobStates, payload : Payloads, attemptsMade : 0 .. Attempts,
                      stalls : 0 .. MaxStalls, owner : Runs \cup {NoRun}]
         /\ handler' \in {"idle", "due", "skipped", "done"}
         /\ job'.state \in {"waiting", "failed"} /\ job'.attemptsMade = job.attemptsMade
<1>1. CASE job.stalls < MaxStalls /\ UNCHANGED handler
           /\ job' = [job EXCEPT !.state = "waiting", !.stalls = @ + 1, !.owner = NoRun]
  <2>1. job.stalls + 1 \in 0 .. MaxStalls
    BY <1>1, PipelineAssumption DEF TypeOK
  <2> QED BY <1>1, <2>1 DEF TypeOK, JobStates
<1>2. CASE FailJob(job.attemptsMade)
  BY <1>2 DEF FailJob, TypeOK, JobStates
<1> QED BY <1>1, <1>2 DEF StallJob

\* The queue's steps change the job, the handler and at most one idle attempt.
LEMMA QueueKeeps ==
  ASSUME IInv, NEW r \in Runs,
         Queue(r) \/ LoseLock(r) \/ WorkerCrash(r) \/ BackoffElapsed
  PROVE  IInv'
<1> USE DEF requestVars, queueUnchanged
<1>1. CASE Pick(r)
  <2>1. TypeOK' /\ AttemptsLeft'
    BY <1>1, GotoType DEF Pick, IInv, TypeOK, AttemptsLeft, JobStates, Points, TryPoints
  <2> QED BY <1>1, <2>1, GotoType, QuietStep DEF Pick, IInv, Points, TryPoints
<1>2. CASE BackoffElapsed
  BY <1>2, OutsideStep DEF BackoffElapsed, IInv, TypeOK, AttemptsLeft, JobStates
<1>3. CASE JobReturned(r)
  BY <1>3, OutsideStep DEF JobReturned, Owns, IInv, TypeOK, AttemptsLeft, JobStates
<1>4. CASE JobThrew(r)
  <2>1. job.state = "active" /\ job.attemptsMade + 1 \in 0 .. Attempts
    BY <1>4, PipelineAssumption DEF JobThrew, Owns, IInv, TypeOK, AttemptsLeft
  <2>2. /\ job' \in [state : JobStates, payload : Payloads, attemptsMade : 0 .. Attempts,
                     stalls : 0 .. MaxStalls, owner : Runs \cup {NoRun}]
        /\ handler' \in {"idle", "due", "skipped", "done"}
        /\ job'.state # "failed" => job'.attemptsMade < Attempts
    BY <1>4, <2>1, PipelineAssumption DEF JobThrew, FailJob, IInv, TypeOK, JobStates
  <2> QED BY <1>4, <2>1, <2>2, OutsideStep DEF JobThrew, IInv, TypeOK, AttemptsLeft
<1>5. CASE Stalled(r)
  BY <1>5, StallJobType, OutsideStep DEF Stalled, Owns, IInv, TypeOK, AttemptsLeft
<1>6. CASE LoseLock(r)
  <2>1. troubles' \in [faults : Nat, crashes : Nat, lockLosses : Nat]
    <3>1. troubles \in [faults : Nat, crashes : Nat, lockLosses : Nat]
      BY DEF IInv, TypeOK
    <3> QED BY <1>6, <3>1 DEF LoseLock, LockLossNow
  <2> QED BY <1>6, <2>1, StallJobType, OutsideStep
          DEF LoseLock, Owns, IInv, TypeOK, AttemptsLeft
<1>7. CASE WorkerCrash(r)
  <2>1. TypeOK' /\ AttemptsLeft'
    BY <1>7, GotoType, TroublesStep
       DEF WorkerCrash, IInv, TypeOK, AttemptsLeft, Points, EndPoints
  <2> QED BY <1>7, <2>1, GotoType, QuietStep DEF WorkerCrash, IInv, Points, EndPoints
<1> QED BY <1>1, <1>2, <1>3, <1>4, <1>5, <1>6, <1>7 DEF Queue

\* The worker's "failed" handler only ever fails the row.
LEMMA FailedHandlerKeeps == IInv /\ FailedHandler => IInv'
  BY OutsideStep, TroublesStep
     DEF FailedHandler, IInv, TypeOK, AttemptsLeft, RowStatuses, requestVars

\* An attempt that moves on without touching anything else.
LEMMA MoveKeeps ==
  ASSUME IInv, NEW r \in Runs, NoFault,
         runs' \in [Runs -> [at : Points, seq : Nat, outcome : Outcomes, bench : Nat]],
         \A q \in Runs : runs'[q].seq = runs[q].seq,
         \A q \in Runs \ {r} : runs'[q].at = runs[q].at,
         runs'[r].at # "completeRow",
         benchRows' \in Nat, UNCHANGED <<requestVars, row, job, log, handler>>
  PROVE  IInv'
<1>1. TypeOK' /\ AttemptsLeft'
  BY TroublesStep DEF IInv, TypeOK, AttemptsLeft, requestVars
<1> QED BY <1>1, QuietStep DEF IInv

\* Going on to the next benchmark moves no attempt to the row's completion.
LEMMA NextBenchmarkType ==
  ASSUME TypeOK, NEW r \in Runs, NextBenchmark(r)
  PROVE  /\ runs' \in [Runs -> [at : Points, seq : Nat, outcome : Outcomes, bench : Nat]]
         /\ \A q \in Runs : runs'[q].seq = runs[q].seq
         /\ \A q \in Runs \ {r} : runs'[q].at = runs[q].at
         /\ runs'[r].at # "completeRow"
<1>1. runs \in [Runs -> [at : Points, seq : Nat, outcome : Outcomes, bench : Nat]]
  BY DEF TypeOK
<1>2. {"benchProgress", "criteria"} \subseteq Points \ {"completeRow"}
  BY DEF Points, TryPoints
<1>3. runs[r].bench + 1 \in Nat
  BY <1>1
<1>4. CASE runs' = [runs EXCEPT ![r].bench = runs[r].bench + 1, ![r].at = "benchProgress"]
  BY <1>1, <1>2, <1>3, <1>4
<1>5. CASE Goto(r, "criteria")
  BY <1>1, <1>2, <1>5 DEF Goto
<1> QED BY <1>4, <1>5 DEF NextBenchmark

\* The guarded 'running' UPDATE keeps the invariant.
LEMMA ClaimKeeps == \A r \in Runs : IInv /\ Claim(r) => IInv'
<1> SUFFICES ASSUME NEW r \in Runs, IInv, Claim(r) PROVE IInv'
  OBVIOUS
<1>1. PICK p \in Points \ {"completeRow"} : Goto(r, p)
  BY ThrownTarget DEF Claim, Points, TryPoints, CatchPoints, EndPoints
<1>2. TypeOK' /\ AttemptsLeft'
  BY <1>1, GotoType, TroublesStep
     DEF Claim, IInv, TypeOK, AttemptsLeft, requestVars, RowStatuses
<1> QED BY <1>1, <1>2, GotoType, QuietStep DEF Claim, IInv

\* Every answer of the execution service keeps the invariant.
LEMMA ExecuteKeeps == \A r \in Runs : IInv /\ Execute(r) => IInv'
<1> SUFFICES ASSUME NEW r \in Runs, IInv, Execute(r) PROVE IInv'
  OBVIOUS
<1>1. PICK p \in Points \ {"completeRow"}, o \in Outcomes :
        runs' = [runs EXCEPT ![r].at = p, ![r].outcome = o]
  <2>1. CASE \E o \in DOMAIN AfterExecute :
               runs' = [runs EXCEPT ![r].at = AfterExecute[o], ![r].outcome = o]
    <3>1. PICK o \in DOMAIN AfterExecute :
            runs' = [runs EXCEPT ![r].at = AfterExecute[o], ![r].outcome = o]
      BY <2>1
    <3>2. o \in {"timeout", "compileError", "runtimeError", "success"}
      BY <3>1 DEF AfterExecute
    <3>3. AfterExecute[o] \in Points \ {"completeRow"} /\ o \in Outcomes
      BY <3>2 DEF AfterExecute, Points, TryPoints, Outcomes
    <3> QED BY <3>1, <3>3
  <2>2. CASE \E p \in {"requeue", "internalError", "threw"} : Goto(r, p)
    <3>1. PICK p \in {"requeue", "internalError", "threw"} : Goto(r, p)
      BY <2>2
    <3>2. runs' = [runs EXCEPT ![r].at = p, ![r].outcome = runs[r].outcome]
      BY <3>1 DEF Goto, IInv, TypeOK
    <3>3. runs[r].outcome \in Outcomes /\ p \in Points \ {"completeRow"}
      BY <3>1 DEF IInv, TypeOK, Points, CatchPoints, RetryPoints, EndPoints
    <3> QED BY <3>2, <3>3
  <2> QED BY <2>1, <2>2, ThrownTarget DEF Execute
<1>2. runs \in [Runs -> [at : Points, seq : Nat, outcome : Outcomes, bench : Nat]]
  BY DEF IInv, TypeOK
<1>3. /\ runs' \in [Runs -> [at : Points, seq : Nat, outcome : Outcomes, bench : Nat]]
      /\ \A q \in Runs : runs'[q].seq = runs[q].seq
      /\ \A q \in Runs \ {r} : runs'[q].at = runs[q].at
      /\ runs'[r].at # "completeRow"
  BY <1>1, <1>2
<1>4. TypeOK' /\ AttemptsLeft'
  BY <1>3, TroublesStep DEF Execute, IInv, TypeOK, AttemptsLeft, requestVars
<1> QED BY <1>3, <1>4, QuietStep DEF Execute, IInv

\* The benchmark phase keeps the invariant.
LEMMA BenchmarkKeeps == \A r \in Runs : IInv /\ Benchmark(r) => IInv'
<1> SUFFICES ASSUME NEW r \in Runs, IInv, Benchmark(r) PROVE IInv'
  OBVIOUS
<1> USE DEF Points, TryPoints, SequencedTypes
<1>1. TypeOK
  BY DEF IInv
<1>2. CASE /\ NoFault
           /\ Goto(r, "benchResult") \/ NextBenchmark(r)
           /\ benchRows' \in Nat
           /\ UNCHANGED <<requestVars, row, job, log, handler>>
  <2>1. CASE NextBenchmark(r)
    BY <1>1, <1>2, <2>1, NextBenchmarkType, MoveKeeps
  <2>2. CASE Goto(r, "benchResult")
    BY <1>1, <1>2, <2>2, GotoType, MoveKeeps
  <2> QED BY <1>2, <2>1, <2>2
<1>3. CASE Publish(r, "benchProgress", "benchmark_progress", "benchRun", "criteria")
  BY <1>3, PublishKeeps
<1>4. CASE Publish(r, "benchResult", "benchmark_result", "benchPersist", "criteria")
  BY <1>4, PublishKeeps
<1>5. CASE /\ Fault /\ Goto(r, "criteria") /\ benchRows' \in Nat
           /\ UNCHANGED <<requestVars, row, job, log, handler>>
  <2>1. TypeOK' /\ AttemptsLeft'
    BY <1>1, <1>5, GotoType, TroublesStep DEF IInv, TypeOK, AttemptsLeft, requestVars
  <2> QED BY <1>1, <1>5, <2>1, GotoType, QuietStep DEF IInv
<1>6. benchRows \in Nat /\ benchRows + 1 \in Nat
  BY <1>1 DEF TypeOK
<1> QED BY <1>2, <1>3, <1>4, <1>5, <1>6 DEF Benchmark, RunBenchmark, PersistBenchmark

\* Publishing the criteria, or having none, keeps the invariant.
LEMMA PublishCriteriaKeeps ==
  ASSUME IInv, NEW r \in Runs, NEW from, NEW next \in Points \ {"completeRow"},
         PublishCriteria(r, from, next)
  PROVE  IInv'
<1>1. CASE Publish(r, from, "criteria_results", next, next)
  BY <1>1, PublishKeeps DEF SequencedTypes
<1>2. CASE /\ NoFault /\ Goto(r, next)
           /\ UNCHANGED <<requestVars, row, job, log, benchRows, handler>>
  <2>1. TypeOK /\ benchRows' \in Nat
    BY <1>2 DEF IInv, TypeOK
  <2> QED BY <1>2, <2>1, GotoType, MoveKeeps
<1> QED BY <1>1, <1>2 DEF PublishCriteria

\* Resetting the row for a retry keeps the invariant.
LEMMA RetryKeeps == \A r \in Runs : IInv /\ RetryLater(r) => IInv'
<1> SUFFICES ASSUME NEW r \in Runs, IInv, RetryLater(r) PROVE IInv'
  OBVIOUS
<1>1. "threw" \in Points \ {"completeRow"} /\ "expireRetry" \in Points \ {"completeRow"}
  BY DEF Points, RetryPoints, EndPoints
<1>2. CASE Await(r, "expireRetry", "threw", "threw")
  BY <1>1, <1>2, AwaitKeeps
<1>3. CASE /\ At(r, "requeue") /\ Goto(r, "expireRetry")
           /\ \/ NoFault /\ row' = "queued"
              \/ Fault /\ row' \in {row, "queued"}
           /\ UNCHANGED <<requestVars, job, log, benchRows, handler>>
  <2>1. TypeOK' /\ AttemptsLeft'
    BY <1>1, <1>3, GotoType, TroublesStep
       DEF IInv, TypeOK, AttemptsLeft, requestVars, RowStatuses
  <2> QED BY <1>1, <1>3, <2>1, GotoType, QuietStep DEF IInv
<1> QED BY <1>2, <1>3 DEF RetryLater

\* Every step of an attempt of the processor keeps the invariant.
LEMMA ProcessKeeps ==
  ASSUME IInv, NEW r \in Runs, Process(r)
  PROVE  IInv'
<1> USE ThrownTarget, PublishKeeps, SetRowKeeps, AwaitKeeps
    DEF Points, TryPoints, CatchPoints, RetryPoints, EndPoints, SequencedTypes, RowStatuses
<1>1. Thrown(r) \in Points \ {"completeRow"}
  OBVIOUS
<1>2. CASE Announce(r)
  BY <1>1, <1>2 DEF Announce
<1>3. CASE RejectOversize(r)
  BY <1>1, <1>3 DEF RejectOversize
<1>4. CASE LoadContent(r)
  BY <1>1, <1>4 DEF LoadContent
<1>6. CASE TimedOut(r)
  BY <1>1, <1>6, PublishCriteriaKeeps DEF TimedOut
<1>7. CASE ReportProgram(r)
  BY <1>1, <1>7 DEF ReportProgram
<1>8. CASE Conclude(r)
  BY <1>1, <1>8, PublishCriteriaKeeps DEF Conclude
<1>9. CASE ExpireLog(r)
  BY <1>1, <1>9 DEF ExpireLog
<1>10. CASE CatchInternal(r)
  BY <1>1, <1>10 DEF CatchInternal
<1> QED BY <1>2, <1>3, <1>4, <1>6, <1>7, <1>8, <1>9, <1>10,
           ClaimKeeps, ExecuteKeeps, BenchmarkKeeps, RetryKeeps DEF Process

-----------------------------------------------------------------------------
\* The invariant holds before the request arrives.
LEMMA InitEstablishes == Init => IInv
<1> SUFFICES ASSUME Init PROVE IInv
  OBVIOUS
<1>1. IdleRun \in [at : Points, seq : Nat, outcome : Outcomes, bench : Nat]
  BY DEF IdleRun, Points, Outcomes
<1>2. troubles \in [faults : Nat, crashes : Nat, lockLosses : Nat]
  BY DEF Init, NoTroubles
<1>3. job \in [state : JobStates, payload : Payloads, attemptsMade : 0 .. Attempts,
              stalls : 0 .. MaxStalls, owner : Runs \cup {NoRun}]
  BY PipelineAssumption DEF Init, JobStates, Payloads
<1>4. log \in Seq(Events) /\ DOMAIN log = {}
  BY DEF Init
<1>5. TypeOK /\ AttemptsLeft
  BY <1>1, <1>2, <1>3, <1>4, PipelineAssumption DEF Init, TypeOK, AttemptsLeft, RowStatuses
<1>6. AboutToComplete /\ CompletedWasAnnounced
  BY DEF Init, AboutToComplete, CompletedWasAnnounced, At, IdleRun
<1>7. SeqAhead /\ AttemptSeqIncreases
  BY <1>4 DEF SeqAhead, AttemptSeqIncreases
<1> QED BY <1>5, <1>6, <1>7 DEF IInv

\* Every step of the specification keeps the invariant.
LEMMA NextKeeps == IInv /\ [Next]_vars => IInv'
<1> SUFFICES ASSUME IInv, [Next]_vars PROVE IInv'
  OBVIOUS
<1>1. CASE UNCHANGED vars
  BY <1>1, QuietStep
     DEF vars, requestVars, IInv, TypeOK, AttemptsLeft
<1>2. CASE Submit
  BY <1>2, SubmitKeeps
<1>3. CASE BackoffElapsed
  <2>1. 1 \in Runs
    BY PipelineAssumption DEF Runs
  <2> QED BY <1>3, <2>1, QueueKeeps
<1>4. CASE FailedHandler
  BY <1>4, FailedHandlerKeeps
<1>5. ASSUME NEW r \in Runs, Queue(r) \/ Process(r) \/ LoseLock(r) \/ WorkerCrash(r)
      PROVE  IInv'
  BY <1>5, QueueKeeps, ProcessKeeps
<1> QED BY <1>1, <1>2, <1>3, <1>4, <1>5 DEF Next, Done

\* The state stays in its type: in particular no job is charged more attempts
\* than the queue allows.
THEOREM TypeCorrect == Spec => []TypeOK
<1>1. IInv => TypeOK
  BY DEF IInv
<1> QED BY <1>1, InitEstablishes, NextKeeps, PTL DEF Spec

\* For any number of faults, crashes and concurrent attempts, a row that says
\* 'completed' was announced to the learner.
THEOREM CompletedAnnounced == Spec => []CompletedWasAnnounced
<1>1. IInv => CompletedWasAnnounced
  BY DEF IInv
<1> QED BY <1>1, InitEstablishes, NextKeeps, PTL DEF Spec

\* Within every attempt sequenceIds increase along the Redis list.
THEOREM AttemptSeqOrdered == Spec => []AttemptSeqIncreases
<1>1. IInv => AttemptSeqIncreases
  BY DEF IInv
<1> QED BY <1>1, InitEstablishes, NextKeeps, PTL DEF Spec

-----------------------------------------------------------------------------
(* An attempt that holds the job. *)

\* An attempt is live only while it holds the job: without a lost lock no two
\* attempts run at a time.
SoleAttempt == troubles.lockLosses = 0 => \A r \in Runs : Live(r) => Owns(r)

\* What the handlers of the submit route and of the "failed" event have done
\* fits the state of the job.
JobHistory ==
  /\ request \in {"start", "refused", "inserted", "error500", "addFailed",
                  "unavailable", "lost"} => job.state = "none"
  /\ request = "accepted" => job.state # "none"
  /\ job.state = "active" => job.owner \in Runs
  /\ job.state = "failed" <=> handler # "idle"
  /\ handler = "due" => job.attemptsMade = Attempts
  /\ handler = "skipped" => job.stalls = MaxStalls

\* Points of an attempt behind the UPDATE that settles the row.
AfterTheRow == {"expire", "expireInternal", "returned"}

\* An attempt that still holds the job settles the row before it returns.
SettlesBeforeReturning ==
  troubles.lockLosses = 0 =>
    /\ \A r \in Runs : Owns(r) /\ runs[r].at \in AfterTheRow => row \in TerminalStatuses
    /\ job.state = "completed" => row \in TerminalStatuses

-----------------------------------------------------------------------------
(* At most one rejected call, and nothing worse. *)

Mild == troubles.crashes = 0 /\ troubles.lockLosses = 0 /\ troubles.faults <= 1

Concluded == LastTerminalIs("complete")

\* What the row and the list say while an attempt that holds the job is at each
\* of its points.
MildRun(r) ==
  LET at == runs[r].at IN
  /\ at # "dead"
  /\ at \in CatchPoints => troubles.faults = 1
  /\ at \notin {"internalError", "failInternal", "expire", "returned"} => row # "completed"
  /\ at \notin {"completeRow", "internalError", "expire", "returned"} => ~ Concluded
  /\ at = "completeRow" => Concluded
  /\ at \in {"expire", "returned"} => (row = "completed" <=> Concluded)

MildStory ==
  Mild =>
    /\ \A r \in Runs : Owns(r) => MildRun(r)
    /\ job.state \notin {"active", "completed"} => row # "completed" /\ ~ Concluded
    /\ job.state = "completed" => (row = "completed" <=> Concluded)

-----------------------------------------------------------------------------
(* Nothing has gone wrong. *)

Quiet == troubles = NoTroubles

Untold == \A i \in DOMAIN log : ~ IsTerminal(log[i])
ToldOnce ==
  \A i, j \in DOMAIN log : IsTerminal(log[i]) /\ IsTerminal(log[j]) => i = j

\* The points in front of which the row is 'queued', and those between the
\* claim and the UPDATE that settles the row or queues it again.
Unclaimed == {"claim", "expireRetry", "threw"}
Settling == {"criteria", "failOversize", "failTimeout", "failUser", "completeRow"}
Working == (TryPoints \cup {"requeue"}) \ ({"claim", "expire"} \cup Settling)

BenchPoints == {"output", "benchLoad", "benchProgress", "benchRun", "benchResult", "benchPersist"}

QuietRun(r) ==
  LET at == runs[r].at
      success == runs[r].outcome = "success" IN
  /\ at \notin CatchPoints \cup {"dead"}
  /\ at \in Unclaimed => row = "queued"
  /\ at \in Working \cup Settling => row = "running"
  /\ at \in Unclaimed \cup Working => Untold
  /\ at = "criteria" /\ success => Untold
  /\ at \in {"expire", "returned"} => row \in TerminalStatuses
  /\ at \in BenchPoints \cup {"complete", "completeRow"} => success
  /\ success => at \in BenchPoints \cup {"criteria", "complete", "completeRow", "expire", "returned"}
  /\ at \in {"expire", "returned"} /\ success => row = "completed"
  /\ benchRows > 0 => success

QuietStory ==
  Quiet =>
    /\ request \in {"start", "refused", "inserted", "accepted"}
    /\ request \in {"start", "refused"} => row = "none"
    /\ request = "inserted" => row = "queued"
    /\ ToldOnce
    /\ \A r \in Runs : Owns(r) => QuietRun(r)
    /\ job.state \notin {"active", "completed"} => Untold /\ benchRows = 0
    /\ job.state \in {"waiting", "delayed"} \/ handler = "due" => row = "queued"
    /\ job.state = "completed" => (benchRows > 0 => row = "completed")

\* An attempt that has not begun has no outcome.
IdleIsFresh == \A r \in Runs : At(r, "idle") => runs[r].outcome = "none"

-----------------------------------------------------------------------------
(* What a step of one attempt does to all of this. *)

Story ==
  /\ SoleAttempt /\ JobHistory /\ SettlesBeforeReturning
  /\ MildStory /\ QuietStory /\ IdleIsFresh

\* The part of the story that the attempt holding the job tells.
HolderStory(r) ==
  /\ runs[r].at \in AfterTheRow => row \in TerminalStatuses
  /\ Mild => MildRun(r)
  /\ Quiet => QuietRun(r) /\ ToldOnce

\* Troubles are never undone.
LEMMA TroublesGrow ==
  ASSUME TypeOK, NoFault \/ Fault \/ CrashNow \/ LockLossNow
  PROVE  /\ troubles'.lockLosses = 0 => troubles.lockLosses = 0
         /\ Mild' => Mild /\ ~ CrashNow /\ ~ LockLossNow
         /\ Mild' /\ Fault => troubles.faults = 0 /\ troubles'.faults = 1
         /\ Quiet' => Quiet /\ NoFault
         /\ LockLossNow => troubles'.lockLosses # 0
<1>1. troubles \in [faults : Nat, crashes : Nat, lockLosses : Nat]
  BY DEF TypeOK
<1>2. CASE NoFault
  BY <1>1, <1>2 DEF NoFault, Mild, Quiet, NoTroubles, Fault, CrashNow, LockLossNow
<1>3. CASE Fault
  BY <1>1, <1>3 DEF Mild, Quiet, NoTroubles, Fault, CrashNow, LockLossNow
<1>4. CASE CrashNow
  BY <1>1, <1>4 DEF Mild, Quiet, NoTroubles, Fault, CrashNow, LockLossNow
<1>5. CASE LockLossNow
  BY <1>1, <1>5 DEF Mild, Quiet, NoTroubles, Fault, CrashNow, LockLossNow
<1> QED BY <1>2, <1>3, <1>4, <1>5

\* Appending an event decides what the list concludes with if the event is
\* terminal, and nothing otherwise.
LEMMA AppendTells ==
  ASSUME log \in Seq(Events), NEW e \in Events, log' = Append(log, e)
  PROVE  /\ IsTerminal(e) => (Concluded' <=> e.type = "complete") /\ (Untold => ToldOnce')
         /\ ~ IsTerminal(e) => /\ Concluded' <=> Concluded
                               /\ Untold => Untold'
                               /\ ToldOnce => ToldOnce'
<1>1. /\ Len(log) \in Nat /\ DOMAIN log = 1 .. Len(log)
      /\ DOMAIN log' = 1 .. (Len(log) + 1)
      /\ \A i \in 1 .. Len(log) : log'[i] = log[i]
      /\ log'[Len(log) + 1] = e
  OBVIOUS
<1>2. ASSUME IsTerminal(e)
      PROVE  (Concluded' <=> e.type = "complete") /\ (Untold => ToldOnce')
  <2>1. Concluded' <=> e.type = "complete"
    BY <1>1, <1>2 DEF Concluded, LastTerminalIs
  <2>2. Untold => ToldOnce'
    BY <1>1 DEF Untold, ToldOnce
  <2> QED BY <2>1, <2>2
<1>3. ASSUME ~ IsTerminal(e)
      PROVE  (Concluded' <=> Concluded) /\ (Untold => Untold') /\ (ToldOnce => ToldOnce')
  <2>1. e.type # "complete"
    BY <1>3 DEF IsTerminal, TerminalTypes
  <2>2. Concluded' <=> Concluded
    BY <1>1, <1>3, <2>1 DEF Concluded, LastTerminalIs
  <2>3. Untold => Untold'
    BY <1>1, <1>3 DEF Untold
  <2>4. ToldOnce => ToldOnce'
    BY <1>1, <1>3 DEF ToldOnce
  <2> QED BY <2>2, <2>3, <2>4
<1> QED BY <1>2, <1>3

\* If the list stays as it is, so does what it says.
LEMMA SameLog ==
  ASSUME UNCHANGED log
  PROVE  (Concluded' <=> Concluded) /\ (Untold' <=> Untold) /\ (ToldOnce' <=> ToldOnce)
  BY DEF Concluded, LastTerminalIs, Untold, ToldOnce

\* An attempt that is under way holds the job, unless a lock was lost.
LEMMA HolderOfTheJob ==
  ASSUME TypeOK, Story, troubles.lockLosses = 0, NEW r \in Runs, Live(r)
  PROVE  /\ Owns(r) /\ request = "accepted"
         /\ \A q \in Runs : Owns(q) => q = r
         /\ HolderStory(r)
<1>1. Owns(r)
  BY DEF Story, SoleAttempt
<1>2. request = "accepted"
  BY <1>1 DEF Story, JobHistory, Owns, TypeOK
<1>3. HolderStory(r)
  BY <1>1 DEF Story, SettlesBeforeReturning, MildStory, QuietStory, HolderStory
<1> QED BY <1>1, <1>2, <1>3 DEF Owns

\* The step of an attempt keeps the story if the attempt's own part is kept.
LEMMA HolderStep ==
  ASSUME TypeOK, Story, NEW r \in Runs, Live(r), NoFault \/ Fault,
         UNCHANGED <<request, job, handler>>,
         \A q \in Runs \ {r} : runs'[q].at = runs[q].at /\ runs'[q].outcome = runs[q].outcome,
         runs'[r].at # "idle",
         troubles'.lockLosses = 0 /\ HolderStory(r) => HolderStory(r)'
  PROVE  Story'
<1>1. JobHistory'
  BY DEF Story, JobHistory
<1>2. IdleIsFresh'
  BY DEF Story, IdleIsFresh, At
<1>3. CASE troubles'.lockLosses # 0
  BY <1>1, <1>2, <1>3 DEF Story, SoleAttempt, SettlesBeforeReturning, MildStory, QuietStory, Mild, Quiet, NoTroubles
<1>4. CASE troubles'.lockLosses = 0
  <2>1. troubles.lockLosses = 0
    BY <1>4, TroublesGrow
  <2>2. /\ Owns(r) /\ request = "accepted"
        /\ \A q \in Runs : Owns(q) => q = r
        /\ HolderStory(r)'
    BY <1>4, <2>1, HolderOfTheJob
  <2>3. Owns(r)' /\ job'.state = "active" /\ \A q \in Runs : Owns(q)' => q = r
    BY <2>2 DEF Owns
  <2>4. SoleAttempt'
    BY <2>1, <2>3 DEF Story, SoleAttempt, Live, Owns
  <2>5. SettlesBeforeReturning'
    BY <2>2, <2>3 DEF SettlesBeforeReturning, HolderStory
  <2>6. MildStory'
    BY <2>2, <2>3 DEF MildStory, HolderStory
  <2>7. QuietStory'
    <3>1. handler' # "due"
      BY <2>2 DEF Story, JobHistory, Owns
    <3> QED BY <2>2, <2>3, <3>1 DEF QuietStory, HolderStory
  <2> QED BY <1>1, <1>2, <2>4, <2>5, <2>6, <2>7 DEF Story
<1> QED BY <1>3, <1>4

\* A rejected call of the try block or of the catch block keeps the story: it is
\* the one call a mild story allows, and the catch block is still to come.
LEMMA ThrownKeepsStory ==
  ASSUME TypeOK, Story, NEW r \in Runs, runs[r].at \in TryPoints \cup CatchPoints, Fault,
         UNCHANGED <<request, job, handler>>,
         \A q \in Runs \ {r} : runs'[q].at = runs[q].at /\ runs'[q].outcome = runs[q].outcome,
         runs'[r].at = Thrown(r)
  PROVE  Story'
<1>1. Live(r)
  BY DEF Live, TryPoints, CatchPoints, EndPoints
<1>2. runs'[r].at \in {"internalError", "threw"}
  BY ThrownTarget
<1>3. HolderStory(r) => HolderStory(r)'
  <2> SUFFICES ASSUME HolderStory(r) PROVE HolderStory(r)'
    OBVIOUS
  <2>1. ~ Quiet' /\ runs'[r].at \notin AfterTheRow
    BY <1>2, TroublesGrow DEF Fault, NoFault, TypeOK, AfterTheRow
  <2>2. ASSUME Mild' PROVE MildRun(r)'
    <3>1. Mild /\ troubles.faults = 0 /\ troubles'.faults = 1
      BY <2>2, TroublesGrow
    <3>2. runs[r].at \in TryPoints
      BY <3>1 DEF HolderStory, MildRun
    <3>3. runs'[r].at = "internalError"
      BY <3>2 DEF Thrown
    <3> QED BY <3>1, <3>3 DEF MildRun, CatchPoints
  <2> QED BY <2>1, <2>2 DEF HolderStory
<1> QED BY <1>1, <1>2, <1>3, HolderStep

\* Each UPDATE that settles the row keeps the story.
LEMMA SettleKeepsStory ==
  ASSUME TypeOK, Story, NEW r \in Runs, NEW from, NEW status, NEW next, SetRow(r, from, status, next),
         \/ from \in {"failOversize", "failTimeout", "failUser"} /\ status = "failed" /\ next = "expire"
         \/ from = "completeRow" /\ status = "completed" /\ next = "expire"
         \/ from = "failInternal" /\ status = "failed" /\ next = "expireInternal"
  PROVE  Story'
<1>1. /\ runs[r].at = from /\ UNCHANGED <<request, job, log, benchRows, handler>>
      /\ from \in TryPoints \cup CatchPoints
  BY DEF SetRow, At, requestVars, TryPoints, CatchPoints
<1>2. Live(r)
  BY <1>1 DEF Live, EndPoints
<1>3. CASE Fault /\ Goto(r, Thrown(r))
  <2>1. Thrown(r) \in Points
    BY ThrownTarget DEF Points, CatchPoints, EndPoints
  <2> QED BY <1>1, <1>3, <2>1, ThrownKeepsStory DEF Goto, TypeOK
<1>4. CASE NoFault /\ row' = status /\ Goto(r, next)
  <2>1. /\ runs'[r].at = next /\ runs'[r].outcome = runs[r].outcome
        /\ \A q \in Runs \ {r} : runs'[q].at = runs[q].at /\ runs'[q].outcome = runs[q].outcome
    BY <1>4 DEF Goto, TypeOK
  <2>2. (Mild' <=> Mild) /\ (Quiet' <=> Quiet) /\ troubles' = troubles
    BY <1>4 DEF NoFault, Mild, Quiet
  <2>3. HolderStory(r) => HolderStory(r)'
    BY <1>1, <1>4, <2>1, <2>2, SameLog
       DEF HolderStory, AfterTheRow, TerminalStatuses, MildRun, QuietRun, CatchPoints, Unclaimed, Working,
           Settling, TryPoints, BenchPoints
  <2> QED BY <1>1, <1>2, <1>4, <2>1, <2>3, HolderStep
<1> QED BY <1>3, <1>4 DEF SetRow

\* What publishing does to the story's parts.
LEMMA PublishEffect ==
  ASSUME TypeOK, NEW r \in Runs, NEW from, NEW type \in SequencedTypes, NEW next, NEW onError,
         Publish(r, from, type, next, onError)
  PROVE  /\ runs[r].at = from /\ UNCHANGED <<request, job, row, benchRows, handler>>
         /\ runs'[r].outcome = runs[r].outcome
         /\ \A q \in Runs \ {r} : runs'[q].at = runs[q].at /\ runs'[q].outcome = runs[q].outcome
         /\ \/ /\ NoFault /\ runs'[r].at = next
               /\ type \in TerminalTypes => (Concluded' <=> type = "complete") /\ (Untold => ToldOnce')
            \/ Fault /\ runs'[r].at = onError
         /\ type \notin TerminalTypes =>
              /\ Concluded' <=> Concluded
              /\ Untold => Untold'
              /\ ToldOnce => ToldOnce'
<1> DEFINE e == Event(type, runs[r].seq, r)
<1>1. e \in Events /\ e.type = type /\ log \in Seq(Events)
  BY DEF TypeOK, Event, Events
<1>2. runs[r].at = from /\ UNCHANGED <<request, job, row, benchRows, handler>>
  BY DEF Publish, At, requestVars
<1>3. PICK p \in {next, onError} : runs' = [runs EXCEPT ![r].at = p, ![r].seq = @ + 1]
  BY DEF Publish
<1>4. /\ runs'[r].at = p /\ runs'[r].outcome = runs[r].outcome
      /\ \A q \in Runs \ {r} : runs'[q].at = runs[q].at /\ runs'[q].outcome = runs[q].outcome
  BY <1>3 DEF TypeOK
<1>5. \/ NoFault /\ log' = Append(log, e) /\ runs'[r].at = next
      \/ Fault /\ log' \in {log, Append(log, e)} /\ runs'[r].at = onError
  BY <1>4, SMT DEF Publish, TypeOK
<1>6. IsTerminal(e) <=> type \in TerminalTypes
  BY <1>1 DEF IsTerminal
<1> HIDE DEF e
<1> QED BY <1>1, <1>2, <1>4, <1>5, <1>6, AppendTells, SameLog

\* A publish of the try or the catch block keeps the story if the attempt's own
\* part survives a successful one.
LEMMA PublishKeepsStory ==
  ASSUME TypeOK, Story, NEW r \in Runs, NEW from \in TryPoints \cup CatchPoints,
         NEW type \in SequencedTypes, NEW next,
         next # "idle", Publish(r, from, type, next, Thrown(r)),
         /\ NoFault /\ runs'[r].at = next /\ runs'[r].outcome = runs[r].outcome
         /\ UNCHANGED <<row, benchRows>>
         /\ type \in TerminalTypes => (Concluded' <=> type = "complete") /\ (Untold => ToldOnce')
         /\ type \notin TerminalTypes => /\ Concluded' <=> Concluded
                                         /\ Untold => Untold'
                                         /\ ToldOnce => ToldOnce'
         => (HolderStory(r) => HolderStory(r)')
  PROVE  Story'
<1>1. Live(r) /\ runs[r].at = from
  BY DEF Publish, At, Live, TryPoints, CatchPoints, EndPoints
<1>2. CASE Fault /\ runs'[r].at = Thrown(r)
  BY <1>1, <1>2, PublishEffect, ThrownKeepsStory
<1>3. CASE NoFault /\ runs'[r].at = next
  <2> DEFINE Calm ==
        /\ NoFault /\ runs'[r].at = next /\ runs'[r].outcome = runs[r].outcome
        /\ UNCHANGED <<row, benchRows>>
        /\ type \in TerminalTypes => (Concluded' <=> type = "complete") /\ (Untold => ToldOnce')
        /\ type \notin TerminalTypes => /\ Concluded' <=> Concluded
                                        /\ Untold => Untold'
                                        /\ ToldOnce => ToldOnce'
  <2>1. Calm
    BY <1>1, <1>3, PublishEffect DEF Fault, NoFault, TypeOK
  <2>2. HolderStory(r) => HolderStory(r)'
    BY <2>1
  <2> QED BY <1>1, <1>3, <2>2, PublishEffect, HolderStep
<1> QED BY <1>2, <1>3, PublishEffect

\* UPDATE ... WHERE status = 'queued' begins the attempt's part.
LEMMA ClaimKeepsStory == \A r \in Runs : TypeOK /\ Story /\ Claim(r) => Story'
<1> SUFFICES ASSUME NEW r \in Runs, TypeOK, Story, Claim(r) PROVE Story'
  OBVIOUS
<1> DEFINE claimed == IF row = "queued" THEN "running" ELSE row
<1>1. /\ runs[r].at = "claim" /\ Live(r)
      /\ UNCHANGED <<request, job, log, benchRows, handler>>
  BY DEF Claim, At, Live, EndPoints, requestVars
<1>2. CASE Fault /\ Goto(r, Thrown(r))
  BY <1>1, <1>2, ThrownKeepsStory DEF Goto, TypeOK, TryPoints
<1>3. CASE NoFault /\ row' = claimed /\ Goto(r, "announce")
  <2>1. /\ runs'[r].at = "announce" /\ runs'[r].outcome = runs[r].outcome
        /\ \A q \in Runs \ {r} : runs'[q].at = runs[q].at /\ runs'[q].outcome = runs[q].outcome
    BY <1>3 DEF Goto, TypeOK
  <2>2. (Mild' <=> Mild) /\ (Quiet' <=> Quiet) /\ troubles' = troubles
    BY <1>3 DEF NoFault, Mild, Quiet
  <2>3. HolderStory(r) => HolderStory(r)'
    BY <1>1, <1>3, <2>1, <2>2, SameLog
       DEF HolderStory, AfterTheRow, TerminalStatuses, MildRun, QuietRun, CatchPoints, Unclaimed, Working,
           Settling, TryPoints, BenchPoints
  <2> QED BY <1>1, <1>3, <2>1, <2>3, HolderStep
<1> QED BY <1>2, <1>3 DEF Claim

\* The publishes of an attempt that are not those of its criteria and benchmarks.
LEMMA ReportsKeepStory ==
  ASSUME TypeOK, Story, NEW r \in Runs,
         \/ Announce(r)
         \/ Publish(r, "oversize", "error", "failOversize", Thrown(r))
         \/ Publish(r, "timeout", "timeout", "failTimeout", Thrown(r))
         \/ ReportProgram(r)
         \/ Publish(r, "complete", "complete", "completeRow", Thrown(r))
         \/ Publish(r, "internalError", "error", "failInternal", Thrown(r))
  PROVE  Story'
<1> USE DEF HolderStory, AfterTheRow, TerminalStatuses, MildRun, QuietRun, CatchPoints, Unclaimed, Working,
            Settling, TryPoints, BenchPoints, SequencedTypes, TerminalTypes
<1>1. /\ NoFault => (Mild' <=> Mild) /\ (Quiet' <=> Quiet) /\ troubles' = troubles
      /\ \A from, type, next, onError : Publish(r, from, type, next, onError) => runs[r].at = from
  BY DEF NoFault, Mild, Quiet, Publish, At
<1>2. CASE Announce(r)
  <2>1. PICK next \in {"oversize", "load"} : Publish(r, "announce", "output", next, Thrown(r))
    BY <1>2 DEF Announce
  <2> QED BY <1>1, <2>1, PublishKeepsStory
<1>3. CASE Publish(r, "oversize", "error", "failOversize", Thrown(r))
  BY <1>1, <1>3, PublishKeepsStory
<1>4. CASE Publish(r, "timeout", "timeout", "failTimeout", Thrown(r))
  BY <1>1, <1>4, PublishKeepsStory
<1>5. CASE Publish(r, "compileError", "compile_error", "criteria", Thrown(r))
  BY <1>1, <1>5, PublishKeepsStory
<1>6. CASE Publish(r, "runtimeError", "error", "criteria", Thrown(r))
  BY <1>1, <1>6, PublishKeepsStory
<1>7. CASE Publish(r, "output", "output", "benchLoad", Thrown(r))
  BY <1>1, <1>7, PublishKeepsStory
<1>8. CASE Publish(r, "complete", "complete", "completeRow", Thrown(r))
  BY <1>1, <1>8, PublishKeepsStory
<1>9. CASE Publish(r, "internalError", "error", "failInternal", Thrown(r))
  BY <1>1, <1>9, PublishKeepsStory
<1> QED BY <1>2, <1>3, <1>4, <1>5, <1>6, <1>7, <1>8, <1>9 DEF ReportProgram

\* An attempt that moves on, with nothing else changed.
LEMMA MoveKeepsStory ==
  ASSUME TypeOK, Story, NEW r \in Runs, Live(r), NoFault,
         UNCHANGED <<request, row, job, log, handler>>,
         \A q \in Runs \ {r} : runs'[q].at = runs[q].at /\ runs'[q].outcome = runs[q].outcome,
         runs'[r].at # "idle",
         /\ (Mild' <=> Mild) /\ (Quiet' <=> Quiet) /\ troubles' = troubles
         /\ (Concluded' <=> Concluded) /\ (Untold' <=> Untold) /\ (ToldOnce' <=> ToldOnce)
         => (HolderStory(r) => HolderStory(r)')
  PROVE  Story'
<1>1. (Mild' <=> Mild) /\ (Quiet' <=> Quiet) /\ troubles' = troubles
  BY DEF NoFault, Mild, Quiet
<1>2. HolderStory(r) => HolderStory(r)'
  BY <1>1, SameLog
<1> QED BY <1>2, HolderStep

\* The waits of the try and the catch block keep the story.
LEMMA WaitsKeepStory ==
  ASSUME TypeOK, Story, NEW r \in Runs,
         LoadContent(r) \/ ExpireLog(r) \/ Await(r, "expireInternal", "returned", Thrown(r))
  PROVE  Story'
<1>1. PICK from, next : /\ Await(r, from, next, Thrown(r))
                        /\ \/ from = "load" /\ next = "execute"
                           \/ from = "expire" /\ next = "returned"
                           \/ from = "expireInternal" /\ next = "returned"
  BY DEF LoadContent, ExpireLog
<1>2. runs[r].at = from /\ UNCHANGED <<request, job, row, log, benchRows, handler>>
  BY <1>1 DEF Await, At, requestVars
<1>3. CASE Fault /\ Goto(r, Thrown(r))
  <2>1. Thrown(r) \in Points
    BY ThrownTarget DEF Points, CatchPoints, EndPoints
  <2> QED BY <1>1, <1>2, <1>3, <2>1, ThrownKeepsStory DEF Goto, TypeOK, TryPoints, CatchPoints
<1>4. CASE NoFault /\ Goto(r, next)
  <2>1. /\ runs'[r].at = next /\ runs'[r].outcome = runs[r].outcome
        /\ \A q \in Runs \ {r} : runs'[q].at = runs[q].at /\ runs'[q].outcome = runs[q].outcome
    BY <1>4 DEF Goto, TypeOK
  <2>2. Live(r)
    BY <1>1, <1>2 DEF Live, EndPoints
  <2> QED BY <1>1, <1>2, <1>4, <2>1, <2>2, MoveKeepsStory
          DEF HolderStory, AfterTheRow, TerminalStatuses, MildRun, QuietRun, CatchPoints, Unclaimed, Working,
              Settling, TryPoints, BenchPoints
<1> QED BY <1>1, <1>3, <1>4 DEF Await

\* Every answer of the execution service keeps the story.
LEMMA ExecuteKeepsStory == \A r \in Runs : TypeOK /\ Story /\ Execute(r) => Story'
<1> SUFFICES ASSUME NEW r \in Runs, TypeOK, Story, Execute(r) PROVE Story'
  OBVIOUS
<1>1. /\ runs[r].at = "execute" /\ Live(r)
      /\ UNCHANGED <<request, job, row, log, benchRows, handler>>
  BY DEF Execute, At, Live, EndPoints, requestVars
<1>2. CASE Fault /\ Goto(r, Thrown(r))
  BY <1>1, <1>2, ThrownKeepsStory DEF Goto, TypeOK, TryPoints
<1>3. CASE NoFault /\ Goto(r, "requeue")
  <2>1. /\ runs'[r].at = "requeue" /\ runs'[r].outcome = runs[r].outcome
        /\ \A q \in Runs \ {r} : runs'[q].at = runs[q].at /\ runs'[q].outcome = runs[q].outcome
    BY <1>3 DEF Goto, TypeOK
  <2> QED BY <1>1, <1>3, <2>1, MoveKeepsStory
          DEF HolderStory, AfterTheRow, TerminalStatuses, MildRun, QuietRun, CatchPoints, Unclaimed, Working,
              Settling, TryPoints, BenchPoints
<1>4. CASE /\ NoFault
           /\ \E o \in DOMAIN AfterExecute :
                runs' = [runs EXCEPT ![r].at = AfterExecute[o], ![r].outcome = o]
  <2>1. PICK o \in {"timeout", "compileError", "runtimeError", "success"} :
          runs' = [runs EXCEPT ![r].at = AfterExecute[o], ![r].outcome = o]
    BY <1>4 DEF AfterExecute
  <2>2. /\ runs'[r].at = AfterExecute[o] /\ runs'[r].outcome = o
        /\ \A q \in Runs \ {r} : runs'[q].at = runs[q].at /\ runs'[q].outcome = runs[q].outcome
    BY <2>1 DEF TypeOK
  <2>3. \/ o = "timeout" /\ AfterExecute[o] = "timeoutCriteria"
        \/ o = "compileError" /\ AfterExecute[o] = "compileError"
        \/ o = "runtimeError" /\ AfterExecute[o] = "runtimeError"
        \/ o = "success" /\ AfterExecute[o] = "output"
    BY DEF AfterExecute
  <2> QED BY <1>1, <1>4, <2>2, <2>3, MoveKeepsStory
          DEF HolderStory, AfterTheRow, TerminalStatuses, MildRun, QuietRun, CatchPoints, Unclaimed, Working,
              Settling, TryPoints, BenchPoints
<1> QED BY <1>2, <1>3, <1>4 DEF Execute

\* A publish whose rejection is swallowed: of the criteria and of the benchmarks.
LEMMA SwallowedKeepsStory ==
  ASSUME TypeOK, Story, NEW r \in Runs, NEW from, NEW type \in SequencedTypes \ TerminalTypes,
         NEW next, NEW onError,
         Publish(r, from, type, next, onError),
         \/ from = "timeoutCriteria" /\ {next, onError} = {"timeout"}
         \/ from = "criteria" /\ next = onError
              /\ next = (IF runs[r].outcome = "success" THEN "complete" ELSE "failUser")
         \/ from = "benchProgress" /\ next = "benchRun" /\ onError = "criteria"
         \/ from = "benchResult" /\ next = "benchPersist" /\ onError = "criteria"
  PROVE  Story'
<1>1. Live(r) /\ runs[r].at = from
  BY DEF Publish, At, Live, EndPoints
<1>2. PICK p \in {next, onError} :
        /\ runs'[r].at = p
        /\ NoFault \/ Fault
        /\ Concluded' <=> Concluded
        /\ Untold => Untold'
        /\ ToldOnce => ToldOnce'
  BY PublishEffect
<1>3. (Mild' => Mild) /\ (Quiet' => Quiet)
  BY <1>2, TroublesGrow
<1>4. UNCHANGED <<request, job, row, benchRows, handler>> /\ runs'[r].outcome = runs[r].outcome
  BY PublishEffect
<1>5. HolderStory(r) => HolderStory(r)'
  BY <1>1, <1>2, <1>3, <1>4
     DEF HolderStory, AfterTheRow, TerminalStatuses, MildRun, QuietRun, CatchPoints, Unclaimed, Working,
         Settling, TryPoints, BenchPoints
<1>6. \A q \in Runs \ {r} : runs'[q].at = runs[q].at /\ runs'[q].outcome = runs[q].outcome
  BY PublishEffect
<1> QED BY <1>1, <1>2, <1>4, <1>5, <1>6, HolderStep

\* Publishing the criteria, or having none.
LEMMA CriteriaKeepStory ==
  ASSUME TypeOK, Story, NEW r \in Runs, NEW from, NEW next,
         PublishCriteria(r, from, next),
         \/ from = "timeoutCriteria" /\ next = "timeout"
         \/ from = "criteria"
              /\ next = (IF runs[r].outcome = "success" THEN "complete" ELSE "failUser")
  PROVE  Story'
<1>1. CASE Publish(r, from, "criteria_results", next, next)
  <2>1. "criteria_results" \in SequencedTypes \ TerminalTypes
    BY DEF SequencedTypes, TerminalTypes
  <2> QED BY <1>1, <2>1, SwallowedKeepsStory
<1>2. CASE /\ At(r, from) /\ NoFault /\ Goto(r, next)
           /\ UNCHANGED <<requestVars, row, job, log, benchRows, handler>>
  <2>1. runs[r].at = from /\ Live(r) /\ UNCHANGED <<request, job, row, log, benchRows, handler>>
    BY <1>2 DEF At, Live, EndPoints, requestVars
  <2>2. /\ runs'[r].at = next /\ runs'[r].outcome = runs[r].outcome
        /\ \A q \in Runs \ {r} : runs'[q].at = runs[q].at /\ runs'[q].outcome = runs[q].outcome
    BY <1>2 DEF Goto, TypeOK
  <2> QED BY <1>2, <2>1, <2>2, MoveKeepsStory
          DEF HolderStory, AfterTheRow, TerminalStatuses, MildRun, QuietRun, CatchPoints, Unclaimed, Working,
              Settling, TryPoints, BenchPoints
<1> QED BY <1>1, <1>2 DEF PublishCriteria

\* The benchmark phase: rows are stored for a program that ran to its end.
LEMMA BenchmarkKeepsStory == \A r \in Runs : TypeOK /\ Story /\ Benchmark(r) => Story'
<1> SUFFICES ASSUME NEW r \in Runs, TypeOK, Story, Benchmark(r) PROVE Story'
  OBVIOUS
<1>1. CASE Publish(r, "benchProgress", "benchmark_progress", "benchRun", "criteria")
  BY <1>1, SwallowedKeepsStory DEF SequencedTypes, TerminalTypes
<1>2. CASE Publish(r, "benchResult", "benchmark_result", "benchPersist", "criteria")
  BY <1>2, SwallowedKeepsStory DEF SequencedTypes, TerminalTypes
<1>3. CASE /\ At(r, "benchLoad") \/ At(r, "benchRun") \/ At(r, "benchPersist")
           /\ Fault => Goto(r, "criteria")
           /\ NoFault \/ Fault
           /\ (Goto(r, "benchResult") /\ At(r, "benchRun")) \/ NextBenchmark(r) \/ Goto(r, "criteria")
           /\ UNCHANGED <<requestVars, row, job, log, handler>>
           /\ benchRows' \in {benchRows, benchRows + 1} /\ (benchRows' # benchRows => At(r, "benchPersist"))
  <2>1. /\ runs[r].at \in {"benchLoad", "benchRun", "benchPersist"} /\ Live(r)
        /\ UNCHANGED <<request, job, row, log, handler>>
    BY <1>3 DEF At, Live, EndPoints, requestVars
  <2>2. /\ runs'[r].at \in {"benchResult", "benchProgress", "criteria"}
        /\ runs'[r].outcome = runs[r].outcome
        /\ \A q \in Runs \ {r} : runs'[q].at = runs[q].at /\ runs'[q].outcome = runs[q].outcome
    <3>1. CASE NextBenchmark(r)
      BY <3>1 DEF NextBenchmark, Goto, TypeOK
    <3>2. CASE Goto(r, "benchResult") \/ Goto(r, "criteria")
      BY <3>2 DEF Goto, TypeOK
    <3> QED BY <1>3, <3>1, <3>2
  <2>3. (Mild' => Mild) /\ (Quiet' => Quiet)
    BY <1>3, TroublesGrow
  <2>4. HolderStory(r) => HolderStory(r)'
    BY <2>1, <2>2, <2>3, SameLog
       DEF HolderStory, AfterTheRow, TerminalStatuses, MildRun, QuietRun, CatchPoints, Unclaimed, Working,
           Settling, TryPoints, BenchPoints
  <2> QED BY <1>3, <2>1, <2>2, <2>4, HolderStep
<1>4. \A p : NoFault => ~ (Fault /\ p)
  BY DEF NoFault, Fault, TypeOK
<1> QED BY <1>1, <1>2, <1>3, <1>4 DEF Benchmark, RunBenchmark, PersistBenchmark

\* The row of an attempt that is to be retried is queued again, if the UPDATE
\* is not rejected; the error reaches BullMQ in any case.
LEMMA RetryKeepsStory == \A r \in Runs : TypeOK /\ Story /\ RetryLater(r) => Story'
<1> SUFFICES ASSUME NEW r \in Runs, TypeOK, Story, RetryLater(r) PROVE Story'
  OBVIOUS
<1>1. PICK from, next :
        /\ runs[r].at = from /\ Goto(r, next)
        /\ UNCHANGED <<request, job, log, benchRows, handler>>
        /\ NoFault \/ Fault
        /\ \/ from = "requeue" /\ next = "expireRetry" /\ row' \in {row, "queued"} /\ (NoFault => row' = "queued")
           \/ from = "expireRetry" /\ next = "threw" /\ row' = row
  BY DEF RetryLater, Await, At, requestVars, NoFault, Fault, TypeOK
<1>2. Live(r)
  BY <1>1 DEF Live, EndPoints
<1>3. /\ runs'[r].at = next /\ runs'[r].outcome = runs[r].outcome
      /\ \A q \in Runs \ {r} : runs'[q].at = runs[q].at /\ runs'[q].outcome = runs[q].outcome
  BY <1>1 DEF Goto, TypeOK
<1>4. (Mild' => Mild) /\ (Quiet' => Quiet /\ NoFault)
  BY <1>1, TroublesGrow
<1>5. HolderStory(r) => HolderStory(r)'
  BY <1>1, <1>3, <1>4, SameLog
     DEF HolderStory, AfterTheRow, TerminalStatuses, MildRun, QuietRun, CatchPoints, Unclaimed, Working,
         Settling, TryPoints, BenchPoints
<1> QED BY <1>1, <1>2, <1>3, <1>5, HolderStep

\* Every step of an attempt keeps the story.
LEMMA ProcessKeepsStory ==
  ASSUME TypeOK, Story, NEW r \in Runs, Process(r)
  PROVE  Story'
<1>1. CASE RejectOversize(r)
  BY <1>1, ReportsKeepStory, SettleKeepsStory DEF RejectOversize
<1>2. CASE TimedOut(r)
  BY <1>2, CriteriaKeepStory, ReportsKeepStory, SettleKeepsStory DEF TimedOut
<1>3. CASE Conclude(r)
  <2>1. CASE PublishCriteria(r, "criteria",
                             IF runs[r].outcome = "success" THEN "complete" ELSE "failUser")
    BY <2>1, CriteriaKeepStory
  <2> QED BY <1>3, <2>1, ReportsKeepStory, SettleKeepsStory DEF Conclude
<1>4. CASE CatchInternal(r)
  BY <1>4, ReportsKeepStory, SettleKeepsStory, WaitsKeepStory DEF CatchInternal
<1> QED BY <1>1, <1>2, <1>3, <1>4, ClaimKeepsStory, ReportsKeepStory, WaitsKeepStory,
           ExecuteKeepsStory, BenchmarkKeepsStory, RetryKeepsStory DEF Process

-----------------------------------------------------------------------------
(* The other steps. *)

\* Nothing has gone wrong after a rejected call or a crash.
LEMMA NotQuiet ==
  ASSUME TypeOK, Fault \/ CrashNow \/ LockLossNow
  PROVE  ~ Quiet'
<1>1. troubles \in [faults : Nat, crashes : Nat, lockLosses : Nat]
  BY DEF TypeOK
<1> QED BY <1>1 DEF Fault, CrashNow, LockLossNow, Quiet, NoTroubles

\* Before the job exists no attempt is under way and nothing is told.
LEMMA NoJobStory ==
  ASSUME TypeOK, Story, job.state = "none", UNCHANGED <<runs, log, benchRows, handler>>,
         JobHistory', job'.state \in {"none", "waiting"},
         NoFault \/ Fault \/ CrashNow,
         row' \in {row, "queued", "failed"},
         Quiet' => /\ request' \in {"start", "refused", "inserted", "accepted"}
                   /\ request' \in {"start", "refused"} => row' = "none"
                   /\ request' = "inserted" => row' = "queued"
                   /\ job'.state = "waiting" => row' = "queued"
  PROVE  Story'
<1>1. (troubles'.lockLosses = 0 => troubles.lockLosses = 0) /\ (Mild' => Mild) /\ (Quiet' => Quiet)
  BY TroublesGrow
<1>2. \A r \in Runs : ~ Owns(r) /\ ~ Owns(r)'
  BY DEF Owns
<1>3. SoleAttempt' /\ SettlesBeforeReturning' /\ IdleIsFresh'
  BY <1>1, <1>2 DEF Story, SoleAttempt, SettlesBeforeReturning, IdleIsFresh, Live, At
<1>4. MildStory'
  BY <1>1, <1>2, SameLog DEF Story, MildStory
<1>5. QuietStory'
  <2>1. handler' # "due"
    BY DEF Story, JobHistory
  <2>2. SUFFICES ASSUME Quiet' PROVE QuietStory'
    BY DEF QuietStory
  <2>3. Quiet /\ Untold /\ ToldOnce /\ benchRows = 0
    BY <1>1, <2>2 DEF Story, QuietStory
  <2> QED BY <1>1, <1>2, <2>1, <2>2, <2>3, SameLog DEF QuietStory
<1> QED BY <1>3, <1>4, <1>5 DEF Story

\* Every step of the submit handler keeps the story.
LEMMA SubmitKeepsStory == TypeOK /\ Story /\ Submit => Story'
<1> SUFFICES ASSUME TypeOK, Story, Submit PROVE Story'
  OBVIOUS
<1>1. CASE Reject
  <2>1. JobHistory' /\ job.state = "none" /\ NoFault /\ (Quiet' => Quiet)
    BY <1>1, TroublesGrow DEF Reject, Story, JobHistory, NoFault
  <2> QED BY <1>1, <2>1, NoJobStory DEF Reject, Story, QuietStory
<1>2. CASE InsertRow
  <2>1. JobHistory' /\ job.state = "none" /\ (NoFault \/ Fault)
    BY <1>2 DEF InsertRow, Story, JobHistory
  <2> QED BY <1>2, <2>1, NoJobStory, NotQuiet DEF InsertRow
<1>3. CASE Enqueue
  <2>1. CASE /\ NoFault
             /\ \E p \in Payloads : job' = [job EXCEPT !.state = "waiting", !.payload = p]
             /\ request' = "accepted"
    <3>1. job'.state = "waiting" /\ job.state = "none" /\ handler = "idle"
      BY <1>3, <2>1 DEF Enqueue, Story, JobHistory, TypeOK
    <3>2. JobHistory'
      BY <1>3, <2>1, <3>1 DEF Enqueue, JobHistory
    <3>3. Quiet' => Quiet /\ row = "queued"
      BY <1>3, <2>1, TroublesGrow DEF Enqueue, Story, QuietStory
    <3> QED BY <1>3, <2>1, <3>1, <3>2, <3>3, NoJobStory DEF Enqueue
  <2>2. CASE Fault /\ request' = "addFailed" /\ UNCHANGED job
    <3>1. JobHistory' /\ job.state = "none"
      BY <1>3, <2>2 DEF Enqueue, Story, JobHistory
    <3> QED BY <1>3, <2>2, <3>1, NoJobStory, NotQuiet DEF Enqueue
  <2> QED BY <1>3, <2>1, <2>2 DEF Enqueue
<1>4. CASE MarkUnavailable
  <2>1. JobHistory' /\ job.state = "none" /\ (NoFault \/ Fault)
    BY <1>4 DEF MarkUnavailable, Story, JobHistory
  <2>2. ~ Quiet'
    BY <1>4, <2>1, TroublesGrow DEF MarkUnavailable, Story, QuietStory
  <2> QED BY <1>4, <2>1, <2>2, NoJobStory DEF MarkUnavailable
<1>5. CASE ApiCrash
  <2>1. JobHistory' /\ job.state = "none" /\ CrashNow
    BY <1>5 DEF ApiCrash, Story, JobHistory
  <2> QED BY <1>5, <2>1, NoJobStory, NotQuiet DEF ApiCrash
<1>6. CASE AnnounceQueued
  <2>1. QueuedEvent \in Events /\ ~ IsTerminal(QueuedEvent) /\ log \in Seq(Events)
    BY DEF QueuedEvent, QueuedType, Event, Events, NoRun, NoSeq, IsTerminal, TerminalTypes, TypeOK
  <2>2. (Concluded' <=> Concluded) /\ (Untold => Untold') /\ (ToldOnce => ToldOnce')
    BY <1>6, <2>1, AppendTells, SameLog DEF AnnounceQueued
  <2>3. UNCHANGED <<request, row, job, runs, benchRows, handler>> /\ (NoFault \/ Fault)
    BY <1>6 DEF AnnounceQueued
  <2>4. (troubles'.lockLosses = 0 => troubles.lockLosses = 0) /\ (Quiet' => Quiet)
    BY <2>3, TroublesGrow
  <2>5. SoleAttempt' /\ SettlesBeforeReturning' /\ IdleIsFresh' /\ JobHistory'
    BY <2>3, <2>4 DEF Story, SoleAttempt, SettlesBeforeReturning, IdleIsFresh, JobHistory, Live, Owns, At
  <2>6. MildStory'
    <3>1. Mild' => Mild /\ (troubles.faults = 1 => troubles'.faults = 1)
      BY <2>3, TroublesGrow DEF NoFault
    <3> QED BY <2>2, <2>3, <3>1 DEF Story, MildStory, MildRun, Owns
  <2>7. QuietStory'
    BY <2>2, <2>3, <2>4 DEF Story, QuietStory, QuietRun, Owns
  <2> QED BY <2>5, <2>6, <2>7 DEF Story
<1> QED BY <1>1, <1>2, <1>3, <1>4, <1>5, <1>6 DEF Submit

\* A job that is given up, or delivered again, while no attempt tells a part of
\* the story: nothing is under way any more.
LEMMA JobStepStory ==
  ASSUME TypeOK, Story, job.state # "completed", UNCHANGED <<request, row, log, benchRows, runs, troubles>>,
         JobHistory', job'.state \in {"waiting", "delayed", "failed"},
         troubles.lockLosses = 0 => \A r \in Runs : ~ Live(r),
         Mild => row # "completed" /\ ~ Concluded,
         Quiet => row = "queued" /\ Untold /\ benchRows = 0
  PROVE  Story'
<1>1. (Mild' <=> Mild) /\ (Quiet' <=> Quiet)
  BY DEF Mild, Quiet
<1>2. \A r \in Runs : ~ Owns(r)'
  BY DEF Owns
<1>3. SoleAttempt' /\ SettlesBeforeReturning' /\ IdleIsFresh'
  BY <1>1, <1>2 DEF Story, SoleAttempt, SettlesBeforeReturning, IdleIsFresh, Live, At
<1>4. MildStory'
  BY <1>1, <1>2, SameLog DEF MildStory
<1>5. QuietStory'
  BY <1>1, <1>2, SameLog DEF Story, QuietStory
<1> QED BY <1>3, <1>4, <1>5 DEF Story

\* A job that has failed for good: what its history says of the handler.
LEMMA FailJobHistory ==
  ASSUME TypeOK, AttemptsLeft, Story, job.state = "active", UNCHANGED request,
         NEW made \in {job.attemptsMade, job.attemptsMade + 1}, FailJob(made),
         made = job.attemptsMade => job.stalls >= MaxStalls,
         made # job.attemptsMade => made >= Attempts
  PROVE  JobHistory' /\ job'.state = "failed"
<1>1. /\ job' = [job EXCEPT !.state = "failed", !.attemptsMade = made, !.owner = NoRun]
      /\ handler' = IF made >= Attempts THEN "due" ELSE "skipped"
  BY DEF FailJob
<1>2. /\ job.attemptsMade \in Nat /\ job.attemptsMade < Attempts /\ job.stalls \in 0 .. MaxStalls
      /\ request = "accepted" /\ Attempts \in Nat /\ MaxStalls \in Nat
  BY PipelineAssumption DEF TypeOK, AttemptsLeft, Story, JobHistory
<1>3. /\ job'.state = "failed" /\ job'.attemptsMade = made /\ job'.stalls = job.stalls
  BY <1>1 DEF TypeOK
<1>4. handler' = "due" => made = Attempts
  BY <1>1, <1>2
<1>5. handler' = "skipped" => job.stalls = MaxStalls
  BY <1>1, <1>2
<1> QED BY <1>1, <1>2, <1>3, <1>4, <1>5 DEF JobHistory

\* Every step of the queue keeps the story.
LEMMA QueueKeepsStory ==
  ASSUME TypeOK, AttemptsLeft, Story, NEW r \in Runs,
         Queue(r) \/ LoseLock(r) \/ WorkerCrash(r) \/ BackoffElapsed
  PROVE  Story'
<1> USE DEF requestVars, queueUnchanged
<1>0. Attempts \in Nat /\ MaxStalls \in Nat /\ NoRun \notin Runs
  BY PipelineAssumption, RunsAreNumbers DEF NoRun
<1>1. CASE Pick(r)
  <2>1. /\ job.state = "waiting" /\ job' = [job EXCEPT !.state = "active", !.owner = r]
        /\ runs[r].at = "idle" /\ UNCHANGED <<request, row, log, benchRows, handler, troubles>>
        /\ Goto(r, "claim")
    BY <1>1 DEF Pick, At
  <2>2. /\ runs'[r].at = "claim" /\ runs'[r].outcome = runs[r].outcome
        /\ \A q \in Runs \ {r} : runs'[q].at = runs[q].at /\ runs'[q].outcome = runs[q].outcome
    BY <2>1 DEF Goto, TypeOK
  <2>3. job'.state = "active" /\ job'.owner = r /\ job'.attemptsMade = job.attemptsMade /\ job'.stalls = job.stalls
    BY <2>1 DEF TypeOK
  <2>4. JobHistory' /\ handler = "idle" /\ request = "accepted"
    BY <2>1, <2>3 DEF Story, JobHistory, TypeOK
  <2>5. (Mild' <=> Mild) /\ (Quiet' <=> Quiet)
    BY <2>1 DEF Mild, Quiet
  <2>6. Owns(r)' /\ \A q \in Runs : Owns(q)' => q = r
    BY <2>3 DEF Owns
  <2>7. IdleIsFresh'
    BY <2>2 DEF Story, IdleIsFresh, At
  <2>8. SoleAttempt' /\ SettlesBeforeReturning'
    BY <2>1, <2>2, <2>3, <2>6
       DEF Story, SoleAttempt, SettlesBeforeReturning, Live, Owns, AfterTheRow
  <2>9. MildStory'
    BY <2>1, <2>2, <2>3, <2>5, <2>6, SameLog DEF Story, MildStory, MildRun, CatchPoints
  <2>10. QuietStory'
    <3>1. runs[r].outcome = "none"
      BY <2>1 DEF Story, IdleIsFresh, At
    <3> QED BY <2>1, <2>2, <2>3, <2>4, <2>5, <2>6, <3>1, SameLog
            DEF Story, QuietStory, QuietRun, CatchPoints, Unclaimed, Working, Settling, TryPoints, BenchPoints
  <2> QED BY <2>4, <2>7, <2>8, <2>9, <2>10 DEF Story
<1>2. CASE BackoffElapsed
  <2>1. /\ job.state = "delayed" /\ job' = [job EXCEPT !.state = "waiting"]
        /\ UNCHANGED <<request, row, log, benchRows, runs, handler, troubles>>
    BY <1>2 DEF BackoffElapsed
  <2>2. job'.state = "waiting" /\ JobHistory'
    BY <2>1 DEF Story, JobHistory, TypeOK
  <2> QED BY <2>1, <2>2, JobStepStory DEF Story, SoleAttempt, MildStory, QuietStory, Owns
<1>3. CASE JobReturned(r)
  <2>1. /\ Owns(r) /\ runs[r].at = "returned"
        /\ job' = [job EXCEPT !.state = "completed", !.owner = NoRun]
        /\ UNCHANGED <<request, row, log, benchRows, runs, handler, troubles>>
    BY <1>3 DEF JobReturned, At
  <2>2. job'.state = "completed" /\ job.state = "active" /\ \A q \in Runs : Owns(q) => q = r
    BY <2>1 DEF Owns, TypeOK
  <2>3. JobHistory' /\ handler # "due" /\ request = "accepted"
    BY <2>1, <2>2 DEF Story, JobHistory, TypeOK
  <2>4. \A q \in Runs : ~ Owns(q)'
    BY <2>2 DEF Owns
  <2>5. (Mild' <=> Mild) /\ (Quiet' <=> Quiet) /\ (Concluded' <=> Concluded) /\ (ToldOnce' <=> ToldOnce)
    BY <2>1, SameLog DEF Mild, Quiet
  <2>6. SoleAttempt' /\ SettlesBeforeReturning' /\ IdleIsFresh'
    <3>1. troubles.lockLosses = 0 => \A q \in Runs : ~ Live(q)
      BY <2>1, <2>2 DEF Story, SoleAttempt, Live, EndPoints
    <3>2. troubles.lockLosses = 0 => row \in TerminalStatuses
      BY <2>1 DEF Story, SettlesBeforeReturning, AfterTheRow
    <3>3. IdleIsFresh' /\ \A q \in Runs : Live(q)' <=> Live(q)
      BY <2>1 DEF Story, IdleIsFresh, At, Live
    <3> QED BY <2>1, <2>4, <3>1, <3>2, <3>3 DEF SoleAttempt, SettlesBeforeReturning
  <2>7. MildStory'
    BY <2>1, <2>2, <2>4, <2>5 DEF Story, MildStory, MildRun
  <2>8. QuietStory'
    BY <2>1, <2>2, <2>3, <2>4, <2>5 DEF Story, QuietStory, QuietRun
  <2> QED BY <2>3, <2>6, <2>7, <2>8 DEF Story
<1>4. CASE JobThrew(r)
  <2>1. /\ Owns(r) /\ runs[r].at = "threw" /\ job.state = "active"
        /\ UNCHANGED <<request, row, log, benchRows, runs, troubles>>
    BY <1>4 DEF JobThrew, At, Owns
  <2>2. JobHistory' /\ job'.state \in {"delayed", "failed"}
    <3>1. CASE job.attemptsMade + 1 >= Attempts /\ FailJob(job.attemptsMade + 1)
      <4>1. job.attemptsMade \in Nat
        BY DEF TypeOK
      <4> QED BY <2>1, <3>1, <4>1, FailJobHistory
    <3>2. CASE /\ job' = [job EXCEPT !.state = "delayed", !.attemptsMade = job.attemptsMade + 1, !.owner = NoRun]
               /\ UNCHANGED handler
      <4>1. job'.state = "delayed" /\ job'.stalls = job.stalls
        BY <3>2 DEF TypeOK
      <4> QED BY <2>1, <3>2, <4>1 DEF Story, JobHistory, TypeOK
    <3> QED BY <1>4, <3>1, <3>2 DEF JobThrew
  <2>3. troubles.lockLosses = 0 => \A q \in Runs : ~ Live(q)
    BY <2>1 DEF Story, SoleAttempt, Owns, Live, EndPoints
  <2>4. Mild => row # "completed" /\ ~ Concluded
    BY <2>1 DEF Story, MildStory, MildRun
  <2>5. Quiet => row = "queued" /\ Untold /\ benchRows = 0
    BY <2>1 DEF Story, QuietStory, QuietRun, Unclaimed, BenchPoints, TypeOK
  <2> QED BY <2>1, <2>2, <2>3, <2>4, <2>5, JobStepStory
<1>5. CASE Stalled(r) \/ LoseLock(r)
  <2>1. Owns(r) /\ job.state = "active" /\ StallJob /\ UNCHANGED <<request, row, log, benchRows, runs>>
    BY <1>5 DEF Stalled, LoseLock, Owns
  <2>2. JobHistory' /\ job'.state \in {"waiting", "failed"}
    <3>1. CASE job.stalls >= MaxStalls /\ FailJob(job.attemptsMade)
      <4>1. job.attemptsMade \in Nat
        BY DEF TypeOK
      <4> QED BY <2>1, <3>1, <4>1, FailJobHistory
    <3>2. CASE /\ job' = [job EXCEPT !.state = "waiting", !.stalls = @ + 1, !.owner = NoRun]
               /\ UNCHANGED handler
      <4>1. job'.state = "waiting"
        BY <3>2 DEF TypeOK
      <4> QED BY <2>1, <3>2, <4>1 DEF Story, JobHistory, TypeOK
    <3> QED BY <2>1, <3>1, <3>2 DEF StallJob
  <2>3. CASE Stalled(r)
    <3>1. runs[r].at = "dead" /\ UNCHANGED troubles
      BY <2>3 DEF Stalled, At
    <3>2. troubles.lockLosses = 0 => \A q \in Runs : ~ Live(q)
      BY <2>1, <3>1 DEF Story, SoleAttempt, Owns, Live, EndPoints
    <3> QED BY <2>1, <2>2, <3>1, <3>2, JobStepStory
            DEF Story, MildStory, MildRun, QuietStory, QuietRun
  <2>4. CASE LoseLock(r)
    <3>1. troubles'.lockLosses # 0
      BY <2>4, TroublesGrow DEF LoseLock
    <3>2. IdleIsFresh'
      BY <2>1 DEF Story, IdleIsFresh, At
    <3> QED BY <2>2, <3>1, <3>2
            DEF Story, SoleAttempt, SettlesBeforeReturning, MildStory, QuietStory, Mild, Quiet, NoTroubles
  <2> QED BY <1>5, <2>3, <2>4
<1>6. CASE WorkerCrash(r)
  <2>2. /\ runs'[r].at = "dead" /\ runs'[r].outcome = runs[r].outcome
        /\ \A q \in Runs \ {r} : runs'[q].at = runs[q].at /\ runs'[q].outcome = runs[q].outcome
    BY <1>6 DEF WorkerCrash, Goto, TypeOK
  <2>3. /\ ~ Mild' /\ ~ Quiet' /\ (troubles'.lockLosses = 0 => troubles.lockLosses = 0)
    BY <1>6, TroublesGrow, NotQuiet DEF WorkerCrash
  <2>4. UNCHANGED <<request, row, job, handler>>
    BY <1>6 DEF WorkerCrash
  <2>5. JobHistory' /\ IdleIsFresh'
    BY <2>2, <2>4 DEF Story, JobHistory, IdleIsFresh, At
  <2>6. SoleAttempt' /\ SettlesBeforeReturning'
    BY <2>2, <2>3, <2>4
       DEF Story, SoleAttempt, SettlesBeforeReturning, Live, EndPoints, Owns, AfterTheRow
  <2> QED BY <2>3, <2>5, <2>6 DEF Story, MildStory, QuietStory
<1> QED BY <1>1, <1>2, <1>3, <1>4, <1>5, <1>6 DEF Queue

\* The "failed" handler acts for a job whose last attempt left the row open.
LEMMA FailedHandlerKeepsStory == TypeOK /\ Story /\ FailedHandler => Story'
<1> SUFFICES ASSUME TypeOK, Story, FailedHandler PROVE Story'
  OBVIOUS
<1>1. /\ handler = "due" /\ handler' = "done" /\ row' \in {row, "failed"}
      /\ UNCHANGED <<request, job, runs, log, benchRows>>
      /\ NoFault \/ Fault \/ CrashNow
  BY DEF FailedHandler, requestVars
<1>2. job.state = "failed" /\ \A r \in Runs : ~ Owns(r)
  BY <1>1 DEF Story, JobHistory, Owns
<1>3. (troubles'.lockLosses = 0 => troubles.lockLosses = 0) /\ (Mild' => Mild) /\ (Quiet' => Quiet)
  BY <1>1, TroublesGrow
<1>4. JobHistory' /\ IdleIsFresh'
  BY <1>1 DEF Story, JobHistory, IdleIsFresh, At
<1>5. SoleAttempt' /\ SettlesBeforeReturning'
  BY <1>1, <1>2, <1>3 DEF Story, SoleAttempt, SettlesBeforeReturning, Live, Owns
<1>6. MildStory' /\ QuietStory'
  <2>1. request = "accepted"
    BY <1>2 DEF Story, JobHistory, TypeOK
  <2> QED BY <1>1, <1>2, <1>3, <2>1, SameLog DEF Story, MildStory, QuietStory, Owns
<1> QED BY <1>4, <1>5, <1>6 DEF Story

-----------------------------------------------------------------------------
\* The story holds before the request arrives.
LEMMA StoryBegins == Init => Story
<1> SUFFICES ASSUME Init PROVE Story
  OBVIOUS
<1>1. /\ request = "start" /\ row = "none" /\ job.state = "none" /\ benchRows = 0
      /\ handler = "idle" /\ log = <<>>
      /\ \A r \in Runs : runs[r].at = "idle" /\ runs[r].outcome = "none"
  BY DEF Init, IdleRun
<1>2. ~ Concluded /\ Untold /\ ToldOnce
  BY <1>1 DEF Concluded, LastTerminalIs, Untold, ToldOnce
<1> QED BY <1>1, <1>2
        DEF Story, SoleAttempt, JobHistory, SettlesBeforeReturning, MildStory, QuietStory,
            IdleIsFresh, Live, At, Owns

\* Every step of the specification keeps the story.
LEMMA NextKeepsStory == IInv /\ Story /\ [Next]_vars => Story'
<1> SUFFICES ASSUME IInv, Story, [Next]_vars PROVE Story'
  OBVIOUS
<1>1. TypeOK /\ AttemptsLeft
  BY DEF IInv
<1>2. CASE UNCHANGED vars
  BY <1>2, SameLog
     DEF vars, requestVars, Story, SoleAttempt, JobHistory, SettlesBeforeReturning, MildStory, QuietStory,
         IdleIsFresh, Live, At, Owns, Mild, Quiet, MildRun, QuietRun
<1>3. CASE BackoffElapsed
  <2>1. 1 \in Runs
    BY PipelineAssumption DEF Runs
  <2> QED BY <1>1, <1>3, <2>1, QueueKeepsStory
<1>4. ASSUME NEW r \in Runs, Queue(r) \/ Process(r) \/ LoseLock(r) \/ WorkerCrash(r)
      PROVE  Story'
  BY <1>1, <1>4, QueueKeepsStory, ProcessKeepsStory
<1> QED BY <1>1, <1>2, <1>3, <1>4, SubmitKeepsStory, FailedHandlerKeepsStory DEF Next, Done

\* A job BullMQ counts as completed has settled the row, for any number of
\* rejected calls, crashes, retries and stalled re-runs.
THEOREM CompletedJobSettles == Spec => []CompletedJobSettlesRow
<1>1. Story => CompletedJobSettlesRow
  BY DEF Story, SettlesBeforeReturning, CompletedJobSettlesRow
<1> QED BY <1>1, InitEstablishes, NextKeeps, StoryBegins, NextKeepsStory, PTL DEF Spec

\* A row that stays unsettled for ever belongs to a job that was given up, and
\* that either lost its last UPDATE or stalled too often.
THEOREM UnsettledOnlyIfFailed == Spec => []UnsettledOnlyIfJobFailed
<1>1. TypeOK /\ Story => UnsettledOnlyIfJobFailed
  BY DEF TypeOK, Story, JobHistory, SettlesBeforeReturning, UnsettledOnlyIfJobFailed, Settled
<1>2. IInv => TypeOK
  BY DEF IInv
<1> QED BY <1>1, <1>2, InitEstablishes, NextKeeps, StoryBegins, NextKeepsStory, PTL DEF Spec

\* With at most one rejected call the row and the learner's stream agree in the
\* end, whichever call it was.
THEOREM RowAgreesWithEvents == Spec => []SettledRowAgreesWithEvents
<1>1. Story => SettledRowAgreesWithEvents
  <2> SUFFICES ASSUME Story, Settled, troubles \in {NoTroubles, [NoTroubles EXCEPT !.faults = 1]}
               PROVE  row = "completed" <=> Concluded
    BY DEF SettledRowAgreesWithEvents, Concluded
  <2>1. Mild
    BY DEF Mild, NoTroubles
  <2> QED BY <2>1 DEF Story, MildStory, Settled
<1> QED BY <1>1, InitEstablishes, NextKeeps, StoryBegins, NextKeepsStory, PTL DEF Spec

\* While nothing goes wrong at most one terminal event is published, over all
\* the attempts of the job, and benchmarks are stored for a success only.
LEMMA ToldOnceOnly == TypeOK /\ Story => OneTerminalEvent
<1> SUFFICES ASSUME TypeOK, Story, troubles = NoTroubles
             PROVE  /\ Cardinality({i \in DOMAIN log : IsTerminal(log[i])}) <= 1
                    /\ (Settled /\ benchRows > 0) => row = "completed"
  BY DEF OneTerminalEvent
<1> DEFINE Told == {i \in DOMAIN log : IsTerminal(log[i])}
<1>1. \A i, j \in Told : i = j
  BY DEF Story, QuietStory, Quiet, ToldOnce
<1>2. Cardinality(Told) <= 1
  <2>1. CASE Told = {}
    BY <2>1, FS_EmptySet
  <2>2. CASE \E i : Told = {i}
    BY <2>2, FS_Singleton
  <2> QED BY <1>1, <2>1, <2>2
<1>3. (Settled /\ benchRows > 0) => row = "completed"
  BY DEF Story, QuietStory, Quiet, Settled
<1> QED BY <1>2, <1>3

\* It is so for every number of attempts and benchmarks.
THEOREM AtMostOneTerminalEvent == Spec => []OneTerminalEvent
<1>1. IInv => TypeOK
  BY DEF IInv
<1> QED BY <1>1, ToldOnceOnly, InitEstablishes, NextKeeps, StoryBegins, NextKeepsStory, PTL DEF Spec

-----------------------------------------------------------------------------
(* The pipeline implements its lifecycle, step by step. *)

\* A step without troubles is a step in which no call was rejected.
LEMMA QuietSteps ==
  ASSUME TypeOK, troubles' = NoTroubles
  PROVE  ~ Fault /\ ~ CrashNow /\ ~ LockLossNow /\ (NoFault => Quiet)
  BY NotQuiet DEF Quiet, NoFault

\* The submit handler refuses, stores or accepts.
LEMMA SubmitImplements ==
  ASSUME TypeOK, AttemptsLeft, Story, Submit, troubles' = NoTroubles
  PROVE  [Lifecycle!Next]_(Lifecycle!lifecycleVars)
<1> USE QuietSteps DEF Lifecycle!lifecycleVars, replyNow
<1>1. CASE Reject
  BY <1>1 DEF Reject, Story, QuietStory, Lifecycle!Next, Lifecycle!Refuse, Quiet
<1>2. CASE InsertRow
  <2>1. request = "start" /\ row = "none" /\ row' = "queued" /\ request' = "inserted" /\ job' = job
    BY <1>2 DEF InsertRow, Story, QuietStory
  <2>2. Lifecycle!Store
    BY <2>1 DEF Lifecycle!Store
  <2> QED BY <2>2 DEF Lifecycle!Next
<1>3. CASE Enqueue
  <2>1. /\ request = "inserted" /\ row = "queued" /\ request' = "accepted" /\ row' = row
        /\ job'.attemptsMade = job.attemptsMade
    BY <1>3 DEF Enqueue, Story, QuietStory, TypeOK
  <2>2. Lifecycle!Accept
    BY <2>1 DEF Lifecycle!Accept
  <2> QED BY <2>2 DEF Lifecycle!Next
<1>4. CASE MarkUnavailable
  BY <1>4 DEF MarkUnavailable, Story, QuietStory
<1>5. CASE AnnounceQueued
  BY <1>5 DEF AnnounceQueued
<1>6. CASE ApiCrash
  BY <1>6 DEF ApiCrash
<1> QED BY <1>1, <1>2, <1>3, <1>4, <1>5, <1>6 DEF Submit

\* The queue charges attempts, and the "failed" handler gives up.
LEMMA QueueImplements ==
  ASSUME TypeOK, AttemptsLeft, Story, troubles' = NoTroubles,
         \/ BackoffElapsed \/ FailedHandler
         \/ \E r \in Runs : Queue(r) \/ LoseLock(r) \/ WorkerCrash(r)
  PROVE  [Lifecycle!Next]_(Lifecycle!lifecycleVars)
<1> USE QuietSteps DEF Lifecycle!lifecycleVars, replyNow, queueUnchanged, requestVars
<1>1. CASE BackoffElapsed
  BY <1>1 DEF BackoffElapsed, TypeOK
<1>2. CASE FailedHandler
  <2>1. /\ row = "queued" /\ row' = "failed" /\ job.attemptsMade = Attempts
        /\ UNCHANGED <<request, job>>
    BY <1>2 DEF FailedHandler, Story, QuietStory, JobHistory
  <2>2. Lifecycle!GiveUp
    BY <2>1 DEF Lifecycle!GiveUp
  <2> QED BY <2>2 DEF Lifecycle!Next
<1>3. ASSUME NEW r \in Runs, Pick(r) \/ JobReturned(r) PROVE UNCHANGED Lifecycle!lifecycleVars
  BY <1>3 DEF Pick, JobReturned, TypeOK
<1>4. ASSUME NEW r \in Runs, JobThrew(r) PROVE Lifecycle!Next
  <2>1. /\ Owns(r) /\ runs[r].at = "threw" /\ UNCHANGED <<request, row, troubles>>
        /\ job'.attemptsMade = job.attemptsMade + 1
    BY <1>4 DEF JobThrew, FailJob, At, TypeOK
  <2>2. row = "queued" /\ request = "accepted" /\ job.attemptsMade < Attempts
    BY <2>1 DEF Story, QuietStory, QuietRun, JobHistory, Quiet, Unclaimed, Owns, AttemptsLeft, TypeOK
  <2>3. Lifecycle!Charge
    BY <2>1, <2>2 DEF Lifecycle!Charge
  <2> QED BY <2>3 DEF Lifecycle!Next
<1>5. ASSUME NEW r \in Runs, Stalled(r) PROVE FALSE
  BY <1>5 DEF Stalled, At, Story, QuietStory, QuietRun, Quiet
<1>6. ASSUME NEW r \in Runs, LoseLock(r) \/ WorkerCrash(r) PROVE FALSE
  BY <1>6 DEF LoseLock, WorkerCrash
<1> QED BY <1>1, <1>2, <1>3, <1>4, <1>5, <1>6 DEF Queue

\* What an attempt that holds the job knows while nothing has gone wrong.
LEMMA QuietHolder ==
  ASSUME TypeOK, AttemptsLeft, Story, NEW r \in Runs, Live(r), Quiet
  PROVE  QuietRun(r) /\ request = "accepted" /\ job.attemptsMade < Attempts
<1>1. troubles.lockLosses = 0
  BY DEF Quiet, NoTroubles
<1> QED BY <1>1, HolderOfTheJob DEF HolderStory, Owns, AttemptsLeft

\* An attempt starts, settles or queues again.
LEMMA ProcessImplements ==
  ASSUME TypeOK, AttemptsLeft, Story, troubles' = NoTroubles, NEW r \in Runs, Process(r)
  PROVE  [Lifecycle!Next]_(Lifecycle!lifecycleVars)
<1> USE DEF Lifecycle!lifecycleVars, replyNow, requestVars
<1>1. ASSUME NEW from, NEW status, NEW next, SetRow(r, from, status, next),
             from \in {"failOversize", "failTimeout", "failUser", "completeRow", "failInternal"},
             status \in {"completed", "failed"}
      PROVE  Lifecycle!Next
  <2>1. /\ runs[r].at = from /\ row' = status /\ UNCHANGED <<request, job>>
        /\ Live(r) /\ Quiet
    BY <1>1, QuietSteps DEF SetRow, At, Live, EndPoints
  <2>2. row = "running"
    BY <1>1, <2>1, QuietHolder DEF QuietRun, Settling, CatchPoints
  <2>3. Lifecycle!Settle
    BY <1>1, <2>1, <2>2 DEF Lifecycle!Settle
  <2> QED BY <2>3 DEF Lifecycle!Next
<1>2. CASE Claim(r)
  <2>1. /\ runs[r].at = "claim" /\ UNCHANGED <<request, job>> /\ Live(r) /\ Quiet
        /\ row = "queued" => row' = "running"
    BY <1>2, QuietSteps DEF Claim, At, Live, EndPoints
  <2>2. row = "queued" /\ request = "accepted" /\ job.attemptsMade < Attempts
    BY <2>1, QuietHolder DEF QuietRun, Unclaimed
  <2>3. Lifecycle!Start
    BY <2>1, <2>2 DEF Lifecycle!Start
  <2> QED BY <2>3 DEF Lifecycle!Next
<1>3. CASE RetryLater(r)
  <2>1. CASE Await(r, "expireRetry", "threw", "threw")
    BY <2>1 DEF Await
  <2>2. CASE At(r, "requeue") /\ row' = "queued" /\ UNCHANGED <<request, job, troubles>>
    <3>1. Live(r) /\ Quiet /\ runs[r].at = "requeue"
      BY <2>2 DEF At, Live, EndPoints, Quiet
    <3>2. row = "running"
      BY <3>1, QuietHolder DEF QuietRun, Working, TryPoints, Settling
    <3>3. Lifecycle!Requeue
      BY <2>2, <3>2 DEF Lifecycle!Requeue
    <3> QED BY <3>3 DEF Lifecycle!Next
  <2> QED BY <1>3, <2>1, <2>2, QuietSteps DEF RetryLater, NoFault
<1>4. ASSUME NEW from, NEW type, NEW next, NEW onError,
             Publish(r, from, type, next, onError) \/ Await(r, from, next, onError)
      PROVE  UNCHANGED Lifecycle!lifecycleVars
  BY <1>4 DEF Publish, Await
<1>5. ASSUME NEW from, NEW next, PublishCriteria(r, from, next)
      PROVE  UNCHANGED Lifecycle!lifecycleVars
  BY <1>4, <1>5 DEF PublishCriteria
<1>6. CASE Execute(r)
  BY <1>6 DEF Execute
<1>9. CASE RunBenchmark(r) \/ PersistBenchmark(r)
  BY <1>9 DEF RunBenchmark, PersistBenchmark
<1>10. CASE Benchmark(r)
  BY <1>4, <1>9, <1>10 DEF Benchmark
<1>7. CASE Announce(r) \/ ReportProgram(r) \/ LoadContent(r) \/ ExpireLog(r)
  BY <1>4, <1>7 DEF Announce, ReportProgram, LoadContent, ExpireLog
<1>8. CASE RejectOversize(r) \/ TimedOut(r) \/ Conclude(r) \/ CatchInternal(r)
  BY <1>1, <1>4, <1>5, <1>8 DEF RejectOversize, TimedOut, Conclude, CatchInternal
<1> QED BY <1>2, <1>3, <1>6, <1>7, <1>8, <1>10 DEF Process

\* The pipeline implements SubmissionLifecycle as long as nothing goes wrong:
\* accepted work is queued, run, perhaps queued again, and settles once.
THEOREM ImplementsLifecycle == Spec => LifecycleSpec
<1>1. Init => Lifecycle!Init
  BY DEF Init, Lifecycle!Init, replyNow
<1>2. IInv /\ Story /\ [Next]_vars => (troubles' = NoTroubles => [Lifecycle!Next]_(Lifecycle!lifecycleVars))
  <2> SUFFICES ASSUME IInv, Story, [Next]_vars, troubles' = NoTroubles
               PROVE  [Lifecycle!Next]_(Lifecycle!lifecycleVars)
    OBVIOUS
  <2>1. TypeOK /\ AttemptsLeft
    BY DEF IInv
  <2>2. CASE UNCHANGED vars
    BY <2>2 DEF vars, requestVars, Lifecycle!lifecycleVars, replyNow
  <2> QED BY <2>1, <2>2, SubmitImplements, QueueImplements, ProcessImplements DEF Next, Done
<1> QED BY <1>1, <1>2, InitEstablishes, NextKeeps, StoryBegins, NextKeepsStory, PTL DEF Spec, LifecycleSpec

-----------------------------------------------------------------------------
(* The completion of a milestone on top of the pipeline. *)

\* An event with a sequenceId comes from an attempt.
EventsHaveAttempts ==
  \A i \in DOMAIN log : log[i].type \in SequencedTypes => log[i].attempt \in Runs

\* Where an attempt whose criteria were met stands.
MetRun(r) ==
  /\ runs[r].outcome = "success"
  /\ \/ Owns(r) /\ runs[r].at \in {"complete", "completeRow"}
     \/ /\ (Owns(r) /\ runs[r].at \in {"expire", "returned"}) \/ job.state = "completed"
        /\ row = "completed" /\ stored = "met"

\* A request that has passed the check, and the milestone it completes, cite a
\* submission that meets it.
CitesEarned(id) ==
  /\ id = "earlier" => earlier = "met"
  /\ id = "live" /\ Quiet => row = "completed" /\ stored = "met"

CompletionTypeOK ==
  /\ verdict \in [Runs -> Results]
  /\ {stored, earlier} \subseteq Results
  /\ browser \in [id : {"none", "pending", "live"}, shown : Results, read : Nat,
                  restored : [id : {"earlier", "live"}, results : Results]]
  /\ page \in {"workspace", "overview", "nextCompletion", "completion", "notFound"}
  /\ posts \in [Posts -> [at : {"idle", "lookup", "existing", "insert", "next", "failed"},
                          id : {"none", "earlier", "live"}]]
  /\ milestone \in {"none", "earlier", "live"}

CompletionStory ==
  /\ EventsHaveAttempts /\ CompletionTypeOK
  /\ Quiet => \A r \in Runs : verdict[r] = "met" => MetRun(r)
  /\ Quiet /\ browser.shown = "met" => \E r \in Runs : verdict[r] = "met"
  /\ \A p \in Posts : posts[p].at \in {"existing", "insert"} => CitesEarned(posts[p].id)
  /\ CitesEarned(milestone)

-----------------------------------------------------------------------------
\* What a step of the pipeline can append to the list.
LEMMA AppendedEvents ==
  ASSUME TypeOK, Next
  PROVE  \/ log' = log
         \/ log' = Append(log, QueuedEvent)
         \/ \E r \in Runs, type \in SequencedTypes : log' = Append(log, Event(type, runs[r].seq, r))
<1> DEFINE Told == \/ log' = log
                   \/ log' = Append(log, QueuedEvent)
                   \/ \E r \in Runs, type \in SequencedTypes : log' = Append(log, Event(type, runs[r].seq, r))
<1>1. ASSUME NEW r \in Runs, NEW from, NEW type \in SequencedTypes, NEW next, NEW onError,
             Publish(r, from, type, next, onError)
      PROVE  Told
  BY <1>1 DEF Publish
<1>2. CASE Submit
  BY <1>2 DEF Submit, Reject, InsertRow, Enqueue, MarkUnavailable, AnnounceQueued, ApiCrash
<1>3. CASE BackoffElapsed \/ FailedHandler
  BY <1>3 DEF BackoffElapsed, FailedHandler, queueUnchanged
<1>4. ASSUME NEW r \in Runs, Queue(r) \/ LoseLock(r) \/ WorkerCrash(r) PROVE Told
  BY <1>4 DEF Queue, Pick, JobReturned, JobThrew, Stalled, LoseLock, WorkerCrash, queueUnchanged
<1>5. ASSUME NEW r \in Runs, Process(r) PROVE Told
  <2> USE <1>1 DEF SequencedTypes
  <2>1. ASSUME NEW from, NEW status, NEW next, SetRow(r, from, status, next) PROVE Told
    BY <2>1 DEF SetRow
  <2>2. ASSUME NEW from, NEW next, NEW onError, Await(r, from, next, onError) PROVE Told
    BY <2>2 DEF Await
  <2>3. ASSUME NEW from, NEW next, PublishCriteria(r, from, next) PROVE Told
    BY <2>3 DEF PublishCriteria
  <2>4. CASE Claim(r) \/ Execute(r) \/ LoadContent(r) \/ ExpireLog(r)
    BY <2>2, <2>4 DEF Claim, Execute, LoadContent, ExpireLog
  <2>5. CASE Announce(r) \/ ReportProgram(r)
    BY <2>5 DEF Announce, ReportProgram
  <2>6. CASE Benchmark(r)
    BY <2>6 DEF Benchmark, RunBenchmark, PersistBenchmark
  <2>7. CASE RejectOversize(r) \/ CatchInternal(r) \/ RetryLater(r)
    BY <2>1, <2>2, <2>7 DEF RejectOversize, CatchInternal, RetryLater
  <2>8. CASE TimedOut(r) \/ Conclude(r)
    BY <2>1, <2>3, <2>8 DEF TimedOut, Conclude
  <2> QED BY <1>5, <2>4, <2>5, <2>6, <2>7, <2>8 DEF Process
<1>6. CASE Done
  BY <1>6 DEF Done, vars
<1> QED BY <1>2, <1>3, <1>4, <1>5, <1>6 DEF Next

\* Events with a sequenceId are those of the attempts.
LEMMA EventsKeepAttempts ==
  ASSUME TypeOK, EventsHaveAttempts, Next
  PROVE  EventsHaveAttempts'
<1>1. log \in Seq(Events)
  BY DEF TypeOK
<1>2. CASE log' = log
  BY <1>2 DEF EventsHaveAttempts
<1>3. ASSUME NEW e \in Events, log' = Append(log, e), e.type \in SequencedTypes => e.attempt \in Runs
      PROVE  EventsHaveAttempts'
  BY <1>1, <1>3 DEF EventsHaveAttempts
<1>4. CASE log' = Append(log, QueuedEvent)
  <2>1. QueuedEvent \in Events /\ QueuedEvent.type \notin SequencedTypes
    BY DEF QueuedEvent, QueuedType, Event, Events, NoRun, NoSeq, SequencedTypes
  <2> QED BY <1>3, <1>4, <2>1
<1>5. ASSUME NEW r \in Runs, NEW type \in SequencedTypes, log' = Append(log, Event(type, runs[r].seq, r))
      PROVE  EventsHaveAttempts'
  <2>1. Event(type, runs[r].seq, r) \in Events /\ Event(type, runs[r].seq, r).attempt = r
    BY DEF Event, Events, TypeOK
  <2> QED BY <1>3, <1>5, <2>1
<1> QED BY <1>2, <1>4, <1>5, AppendedEvents

\* Criteria are evaluated in front of 'timeout' or of the conclusion.
LEMMA EvaluatesWhere ==
  ASSUME TypeOK, Next, NEW r \in Runs, Evaluates(r)
  PROVE  \/ PublishCriteria(r, "timeoutCriteria", "timeout")
         \/ PublishCriteria(r, "criteria",
                            IF runs[r].outcome = "success" THEN "complete" ELSE "failUser")
<1> DEFINE Where == \/ PublishCriteria(r, "timeoutCriteria", "timeout")
                    \/ PublishCriteria(r, "criteria",
                            IF runs[r].outcome = "success" THEN "complete" ELSE "failUser")
<1> HIDE DEF Where
<1>1. /\ log \in Seq(Events) /\ Len(log) \in Nat /\ log' # log
      /\ \A e : log' = Append(log, e) => e.type = "criteria_results" /\ e.attempt = r
  BY DEF TypeOK, Evaluates
<1>2. ASSUME NEW q \in Runs, NEW from, NEW type \in SequencedTypes, NEW next, NEW onError,
             Publish(q, from, type, next, onError)
      PROVE  type = "criteria_results" /\ q = r
  <2>1. log' = Append(log, Event(type, runs[q].seq, q))
    BY <1>1, <1>2 DEF Publish
  <2> QED BY <1>1, <2>1 DEF Event
<1>3. CASE Submit
  <2>1. log' = log \/ log' = Append(log, QueuedEvent)
    BY <1>3 DEF Submit, Reject, InsertRow, Enqueue, MarkUnavailable, AnnounceQueued, ApiCrash
  <2>2. QueuedEvent.type = "queued"
    BY DEF QueuedEvent, QueuedType, Event
  <2> QED BY <1>1, <2>1, <2>2
<1>4. CASE BackoffElapsed \/ FailedHandler \/ Done
  BY <1>1, <1>4 DEF BackoffElapsed, FailedHandler, queueUnchanged, Done, vars
<1>5. ASSUME NEW q \in Runs, Queue(q) \/ LoseLock(q) \/ WorkerCrash(q) PROVE Where
  BY <1>1, <1>5 DEF Queue, Pick, JobReturned, JobThrew, Stalled, LoseLock, WorkerCrash, queueUnchanged
<1>6. ASSUME NEW q \in Runs, Process(q) PROVE Where
  <2> USE DEF SequencedTypes
  <2>1. ASSUME NEW from, NEW status, NEW next, SetRow(q, from, status, next) PROVE FALSE
    BY <1>1, <2>1 DEF SetRow
  <2>2. ASSUME NEW from, NEW next, NEW onError, Await(q, from, next, onError) PROVE FALSE
    BY <1>1, <2>2 DEF Await
  <2>3. ASSUME NEW from, NEW next, PublishCriteria(q, from, next) PROVE q = r
    BY <1>1, <1>2, <2>3 DEF PublishCriteria
  <2>4. CASE Claim(q) \/ Execute(q) \/ LoadContent(q) \/ ExpireLog(q)
    BY <1>1, <2>2, <2>4 DEF Claim, Execute, LoadContent, ExpireLog
  <2>5. CASE Announce(q) \/ ReportProgram(q)
    BY <1>2, <2>5 DEF Announce, ReportProgram
  <2>6. CASE Benchmark(q)
    BY <1>1, <1>2, <2>6 DEF Benchmark, RunBenchmark, PersistBenchmark
  <2>7. CASE RejectOversize(q) \/ CatchInternal(q) \/ RetryLater(q)
    BY <1>1, <1>2, <2>1, <2>2, <2>7 DEF RejectOversize, CatchInternal, RetryLater
  <2>8. CASE TimedOut(q)
    BY <1>2, <2>1, <2>3, <2>8 DEF TimedOut, Where
  <2>9. CASE Conclude(q)
    BY <1>2, <2>1, <2>3, <2>9 DEF Conclude, Where
  <2> QED BY <1>6, <2>4, <2>5, <2>6, <2>7, <2>8, <2>9 DEF Process
<1> QED BY <1>3, <1>4, <1>5, <1>6 DEF Next, Where

\* While nothing goes wrong only the attempt that holds the job evaluates, and
\* the criteria are met only on the way to 'complete'.
LEMMA QuietEvaluation ==
  ASSUME TypeOK, Story, Next, Quiet', NEW r \in Runs, Evaluates(r)
  PROVE  /\ Quiet /\ Owns(r) /\ UNCHANGED <<row, job>>
         /\ runs[r].at \in {"criteria", "timeoutCriteria"}
         /\ \A q \in Runs : runs'[q].outcome = runs[q].outcome
         /\ \A q \in Runs \ {r} : runs'[q].at = runs[q].at
         /\ runs[r].outcome = "success" => runs'[r].at = "complete"
<1>1. PICK from, next :
        /\ Publish(r, from, "criteria_results", next, next)
        /\ \/ from = "timeoutCriteria" /\ next = "timeout"
           \/ from = "criteria" /\ next = IF runs[r].outcome = "success" THEN "complete" ELSE "failUser"
  <2>1. log' # log
    BY DEF Evaluates, TypeOK
  <2> QED BY <2>1, EvaluatesWhere DEF PublishCriteria
<1>2. /\ runs[r].at = from /\ UNCHANGED <<row, job>> /\ (NoFault \/ Fault)
      /\ runs'[r].at = next
      /\ \A q \in Runs : runs'[q].outcome = runs[q].outcome
      /\ \A q \in Runs \ {r} : runs'[q].at = runs[q].at
  <2>1. "criteria_results" \in SequencedTypes
    BY DEF SequencedTypes
  <2> QED BY <1>1, <2>1, PublishEffect
<1>3. Quiet /\ Live(r) /\ troubles.lockLosses = 0
  BY <1>1, <1>2, TroublesGrow DEF Live, EndPoints, Quiet, NoTroubles
<1>4. Owns(r) /\ QuietRun(r)
  BY <1>3, HolderOfTheJob DEF HolderStory
<1>5. runs[r].outcome = "success" => from = "criteria"
  BY <1>1, <1>2, <1>4 DEF QuietRun, BenchPoints
<1> QED BY <1>1, <1>2, <1>3, <1>4, <1>5

\* A step of an attempt leaves the others where they are.
LEMMA OthersStay ==
  ASSUME TypeOK, NEW q \in Runs, Process(q), NEW r \in Runs \ {q}
  PROVE  runs'[r] = runs[r]
<1>1. ASSUME NEW p, Goto(q, p) PROVE runs'[r] = runs[r]
  BY <1>1 DEF Goto, TypeOK
<1>2. ASSUME NEW from, NEW type, NEW next, NEW onError, Publish(q, from, type, next, onError)
      PROVE  runs'[r] = runs[r]
  BY <1>2 DEF Publish, TypeOK
<1>3. ASSUME NEW from, NEW status, NEW next, SetRow(q, from, status, next) PROVE runs'[r] = runs[r]
  BY <1>1, <1>3 DEF SetRow
<1>4. ASSUME NEW from, NEW next, NEW onError, Await(q, from, next, onError) PROVE runs'[r] = runs[r]
  BY <1>1, <1>4 DEF Await
<1>5. ASSUME NEW from, NEW next, PublishCriteria(q, from, next) PROVE runs'[r] = runs[r]
  BY <1>1, <1>2, <1>5 DEF PublishCriteria
<1>6. ASSUME NextBenchmark(q) PROVE runs'[r] = runs[r]
  BY <1>1, <1>6 DEF NextBenchmark, TypeOK
<1>7. CASE Execute(q)
  BY <1>1, <1>7 DEF Execute, TypeOK
<1>8. CASE Benchmark(q)
  BY <1>1, <1>2, <1>6, <1>8 DEF Benchmark, RunBenchmark, PersistBenchmark
<1>9. CASE Claim(q) \/ RetryLater(q)
  BY <1>1, <1>4, <1>9 DEF Claim, RetryLater
<1>10. CASE Announce(q) \/ ReportProgram(q) \/ LoadContent(q) \/ ExpireLog(q)
  BY <1>2, <1>4, <1>10 DEF Announce, ReportProgram, LoadContent, ExpireLog
<1>11. CASE RejectOversize(q) \/ TimedOut(q) \/ Conclude(q) \/ CatchInternal(q)
  BY <1>2, <1>3, <1>4, <1>5, <1>11 DEF RejectOversize, TimedOut, Conclude, CatchInternal
<1> QED BY <1>7, <1>8, <1>9, <1>10, <1>11 DEF Process

\* The way of an attempt from the end of its criteria to its return, while
\* nothing goes wrong.
LEMMA ConcludingStep ==
  ASSUME TypeOK, NEW r \in Runs, Process(r), Quiet',
         runs[r].at \in {"failTimeout", "failUser", "complete", "completeRow", "expire"}
  PROVE  /\ UNCHANGED job /\ runs'[r].outcome = runs[r].outcome
         /\ \/ runs[r].at = "complete" /\ runs'[r].at = "completeRow" /\ row' = row
            \/ runs[r].at = "completeRow" /\ runs'[r].at = "expire" /\ row' = "completed"
            \/ runs[r].at \in {"failTimeout", "failUser"} /\ runs'[r].at = "expire" /\ row' = "failed"
            \/ runs[r].at = "expire" /\ runs'[r].at = "returned" /\ row' = row
<1> DEFINE at == runs[r].at
           Known == \/ Publish(r, "complete", "complete", "completeRow", Thrown(r))
                    \/ SetRow(r, "completeRow", "completed", "expire")
                    \/ SetRow(r, "failTimeout", "failed", "expire")
                    \/ SetRow(r, "failUser", "failed", "expire")
                    \/ Await(r, "expire", "returned", Thrown(r))
<1>1. ~ Fault
  BY NotQuiet
<1>2. /\ \A from, type, next, onError : Publish(r, from, type, next, onError) => at = from
      /\ \A from, status, next : SetRow(r, from, status, next) => at = from
      /\ \A from, next, onError : Await(r, from, next, onError) => at = from
      /\ \A from, next : PublishCriteria(r, from, next) => at = from
  BY DEF Publish, SetRow, Await, PublishCriteria, At
<1>3. Known
  <2>1. CASE Claim(r) \/ Execute(r) \/ RetryLater(r)
    BY <1>2, <2>1 DEF Claim, Execute, RetryLater, At
  <2>2. CASE Benchmark(r)
    BY <1>2, <2>2 DEF Benchmark, RunBenchmark, PersistBenchmark, At
  <2>3. CASE Announce(r) \/ ReportProgram(r) \/ LoadContent(r) \/ ExpireLog(r)
    BY <1>2, <2>3 DEF Announce, ReportProgram, LoadContent, ExpireLog
  <2>4. CASE RejectOversize(r) \/ TimedOut(r) \/ Conclude(r) \/ CatchInternal(r)
    BY <1>2, <2>4 DEF RejectOversize, TimedOut, Conclude, CatchInternal
  <2> QED BY <2>1, <2>2, <2>3, <2>4 DEF Process
<1>4. CASE Publish(r, "complete", "complete", "completeRow", Thrown(r))
  <2>1. "complete" \in SequencedTypes
    BY DEF SequencedTypes
  <2>2. /\ UNCHANGED <<job, row>> /\ runs'[r].outcome = runs[r].outcome
        /\ \/ NoFault /\ runs'[r].at = "completeRow"
           \/ Fault
    BY <1>4, <2>1, PublishEffect
  <2> QED BY <1>1, <1>2, <1>4, <2>2
<1>5. ASSUME NEW from, NEW status, NEW next, SetRow(r, from, status, next)
      PROVE  at = from /\ UNCHANGED job /\ runs'[r].outcome = runs[r].outcome /\ row' = status /\ runs'[r].at = next
  BY <1>1, <1>5 DEF SetRow, Goto, At, TypeOK
<1>6. CASE Await(r, "expire", "returned", Thrown(r))
  <2>1. at = "expire" /\ Goto(r, "returned") /\ UNCHANGED <<job, row>>
    BY <1>1, <1>2, <1>6 DEF Await
  <2>2. runs'[r] = [runs[r] EXCEPT !.at = "returned"]
    BY <2>1 DEF Goto, TypeOK
  <2>3. runs'[r].at = "returned" /\ runs'[r].outcome = runs[r].outcome
    BY <2>2 DEF TypeOK
  <2> QED BY <2>1, <2>3
<1> QED BY <1>3, <1>4, <1>5, <1>6

\* An attempt that is not under way takes no step of its own.
LEMMA ProcessIsLive ==
  ASSUME NEW r \in Runs, Process(r)
  PROVE  Live(r)
<1>2. /\ \A from, type, next, onError : Publish(r, from, type, next, onError) => runs[r].at = from
      /\ \A from, status, next : SetRow(r, from, status, next) => runs[r].at = from
      /\ \A from, next, onError : Await(r, from, next, onError) => runs[r].at = from
      /\ \A from, next : PublishCriteria(r, from, next) => runs[r].at = from
  BY DEF Publish, SetRow, Await, PublishCriteria, At
<1> USE DEF Live, EndPoints
<1>3. CASE Claim(r) \/ Execute(r) \/ RetryLater(r)
  BY <1>2, <1>3 DEF Claim, Execute, RetryLater, At
<1>4. CASE Benchmark(r)
  BY <1>2, <1>4 DEF Benchmark, RunBenchmark, PersistBenchmark, At
<1>5. CASE Announce(r) \/ ReportProgram(r) \/ LoadContent(r) \/ ExpireLog(r)
  BY <1>2, <1>5 DEF Announce, ReportProgram, LoadContent, ExpireLog
<1>6. CASE RejectOversize(r) \/ TimedOut(r) \/ Conclude(r) \/ CatchInternal(r)
  BY <1>2, <1>6 DEF RejectOversize, TimedOut, Conclude, CatchInternal
<1> QED BY <1>3, <1>4, <1>5, <1>6 DEF Process

\* In a step of an attempt one call is rejected, or none.
LEMMA ProcessFaults ==
  ASSUME NEW r \in Runs, Process(r)
  PROVE  NoFault \/ Fault
<1>1. /\ \A from, type, next, onError : Publish(r, from, type, next, onError) => NoFault \/ Fault
      /\ \A from, status, next : SetRow(r, from, status, next) => NoFault \/ Fault
      /\ \A from, next, onError : Await(r, from, next, onError) => NoFault \/ Fault
      /\ \A from, next : PublishCriteria(r, from, next) => NoFault \/ Fault
  BY DEF Publish, SetRow, Await, PublishCriteria
<1>2. CASE Claim(r) \/ Execute(r) \/ RetryLater(r)
  BY <1>1, <1>2 DEF Claim, Execute, RetryLater
<1>3. CASE Benchmark(r)
  BY <1>1, <1>3 DEF Benchmark, RunBenchmark, PersistBenchmark
<1>4. CASE Announce(r) \/ ReportProgram(r) \/ LoadContent(r) \/ ExpireLog(r)
  BY <1>1, <1>4 DEF Announce, ReportProgram, LoadContent, ExpireLog
<1>5. CASE RejectOversize(r) \/ TimedOut(r) \/ Conclude(r) \/ CatchInternal(r)
  BY <1>1, <1>5 DEF RejectOversize, TimedOut, Conclude, CatchInternal
<1> QED BY <1>2, <1>3, <1>4, <1>5 DEF Process

\* What a step of the pipeline does to the attempts while nothing goes wrong.
LEMMA QuietStepCases ==
  ASSUME TypeOK, Story, Next, Quiet'
  PROVE  /\ Quiet
         /\ \/ UNCHANGED runs /\ job.state \notin {"active", "completed"}
            \/ UNCHANGED <<runs, row, job>>
            \/ job.state = "waiting" /\ \A q \in Runs : runs'[q].at # "expire" \/ runs'[q] = runs[q]
            \/ \E q \in Runs : /\ Owns(q) /\ UNCHANGED <<runs, row>>
                               /\ \/ runs[q].at = "returned" /\ job'.state = "completed"
                                  \/ runs[q].at = "threw"
            \/ \E q \in Runs : Owns(q) /\ Process(q)
<1>1. ~ Fault /\ ~ CrashNow /\ ~ LockLossNow /\ (NoFault => Quiet)
  BY QuietSteps DEF Quiet
<1>2. CASE Submit
  <2>1. CASE AnnounceQueued
    BY <1>1, <2>1 DEF AnnounceQueued
  <2>2. CASE Reject
    BY <2>2 DEF Reject, Story, JobHistory, Quiet
  <2>3. CASE InsertRow \/ Enqueue \/ MarkUnavailable \/ ApiCrash
    BY <1>1, <2>3 DEF InsertRow, Enqueue, MarkUnavailable, ApiCrash, Story, JobHistory
  <2> QED BY <1>2, <2>1, <2>2, <2>3 DEF Submit
<1>3. CASE BackoffElapsed
  BY <1>3 DEF BackoffElapsed, Quiet
<1>4. CASE FailedHandler
  BY <1>1, <1>4 DEF FailedHandler, Story, JobHistory
<1>5. ASSUME NEW q \in Runs, Pick(q)
      PROVE  /\ Quiet /\ job.state = "waiting"
             /\ \A p \in Runs : runs'[p].at # "expire" \/ runs'[p] = runs[p]
  BY <1>5 DEF Pick, Goto, TypeOK, Quiet
<1>6. ASSUME NEW q \in Runs, JobReturned(q)
      PROVE  /\ Quiet /\ Owns(q) /\ UNCHANGED <<runs, row>>
             /\ runs[q].at = "returned" /\ job'.state = "completed"
  BY <1>6 DEF JobReturned, queueUnchanged, At, TypeOK, Quiet
<1>7. ASSUME NEW q \in Runs, JobThrew(q)
      PROVE  Quiet /\ Owns(q) /\ UNCHANGED <<runs, row>> /\ runs[q].at = "threw"
  BY <1>7 DEF JobThrew, queueUnchanged, At, Quiet
<1>8. ASSUME NEW q \in Runs, Stalled(q) \/ LoseLock(q) \/ WorkerCrash(q) PROVE FALSE
  BY <1>1, <1>8 DEF Stalled, LoseLock, WorkerCrash, Story, QuietStory, QuietRun, At, Quiet
<1>9. ASSUME NEW q \in Runs, Process(q) PROVE Quiet /\ Owns(q)
  <2>1. Live(q) /\ (NoFault \/ Fault)
    BY <1>9, ProcessIsLive, ProcessFaults
  <2>2. Quiet
    BY <2>1, TroublesGrow
  <2>3. troubles.lockLosses = 0
    BY <2>2 DEF Quiet, NoTroubles
  <2> QED BY <2>1, <2>2, <2>3, HolderOfTheJob
<1>10. CASE Done
  BY <1>10 DEF Done, vars, Quiet
<1> QED BY <1>2, <1>3, <1>4, <1>5, <1>6, <1>7, <1>8, <1>9, <1>10 DEF Next, Queue

\* Which attempt settles the row, and what is stored with it, while nothing goes
\* wrong.
LEMMA QuietStores ==
  ASSUME TypeOK, Story, PipelineStep, Quiet', NEW q \in Runs
  PROVE  /\ Owns(q) => \A p \in Runs : Stores(p) => p = q
         /\ Stores(q) => stored' = IF verdict[q] # "none" THEN verdict[q] ELSE stored
         /\ (\A p \in Runs : ~ Stores(p)) => stored' = stored
<1>1. Quiet /\ troubles.lockLosses = 0
  BY QuietStepCases DEF PipelineStep, Quiet, NoTroubles
<1>2. ASSUME NEW p \in Runs, Stores(p) PROVE Owns(p)
  BY <1>1, <1>2, HolderOfTheJob DEF Stores, Live, EndPoints
<1>3. \A p, r \in Runs : Owns(p) /\ Owns(r) => p = r
  BY DEF Owns
<1>4. ASSUME Stores(q) PROVE (CHOOSE r \in Runs : Stores(r)) = q
  BY <1>2, <1>3, <1>4
<1>5. Stores(q) => stored' = IF verdict[q] # "none" THEN verdict[q] ELSE stored
  BY <1>2, <1>3, <1>4 DEF PipelineStep, StoredNow
<1>6. (\A p \in Runs : ~ Stores(p)) => stored' = stored
  BY DEF PipelineStep, StoredNow
<1> QED BY <1>2, <1>3, <1>5, <1>6

\* An attempt whose criteria were met goes on to the 'completed' row, and stores
\* them with it.
LEMMA MetStays ==
  ASSUME TypeOK, Story, PipelineStep, Quiet', NEW r \in Runs, verdict[r] = "met", MetRun(r)
  PROVE  MetRun(r)'
<1>1. \/ UNCHANGED runs /\ job.state \notin {"active", "completed"}
      \/ UNCHANGED <<runs, row, job>>
      \/ job.state = "waiting"
      \/ \E q \in Runs : /\ Owns(q) /\ UNCHANGED <<runs, row>>
                         /\ \/ runs[q].at = "returned" /\ job'.state = "completed"
                            \/ runs[q].at = "threw"
      \/ \E q \in Runs : Owns(q) /\ Process(q)
  BY QuietStepCases DEF PipelineStep
<1>2. Owns(r) \/ job.state = "completed"
  BY DEF MetRun
<1>3. ASSUME UNCHANGED <<runs, row>>, stored' = stored => MetRun(r)' PROVE MetRun(r)'
  <2>1. \A p \in Runs : ~ Stores(p)
    BY <1>3 DEF Stores
  <2> QED BY <1>3, <2>1, QuietStores
<1>4. CASE UNCHANGED <<runs, row, job>>
  BY <1>3, <1>4 DEF MetRun, Owns
<1>5. ASSUME NEW q \in Runs, Owns(q), UNCHANGED <<runs, row>>,
             \/ runs[q].at = "returned" /\ job'.state = "completed"
             \/ runs[q].at = "threw"
      PROVE  MetRun(r)'
  <2>1. q = r /\ job.state # "completed"
    BY <1>2, <1>5 DEF Owns
  <2> QED BY <1>3, <1>5, <2>1 DEF MetRun
<1>6. ASSUME NEW q \in Runs, Owns(q), Process(q) PROVE MetRun(r)'
  <2>1. q = r /\ Owns(r) /\ job.state # "completed" /\ Live(r)
    BY <1>2, <1>6, ProcessIsLive DEF Owns
  <2>2. runs[r].at \in {"complete", "completeRow", "expire"}
    BY <2>1 DEF MetRun, Live, EndPoints
  <2>3. /\ UNCHANGED job /\ runs'[r].outcome = runs[r].outcome
        /\ \/ runs[r].at = "complete" /\ runs'[r].at = "completeRow" /\ row' = row
           \/ runs[r].at = "completeRow" /\ runs'[r].at = "expire" /\ row' = "completed"
           \/ runs[r].at = "expire" /\ runs'[r].at = "returned" /\ row' = row
    BY <1>6, <2>1, <2>2, ConcludingStep
  <2>4. Owns(r)'
    BY <2>1, <2>3 DEF Owns
  <2>5. CASE runs[r].at = "complete"
    BY <2>1, <2>3, <2>4, <2>5 DEF MetRun
  <2>6. CASE runs[r].at = "completeRow"
    <3>1. Stores(r)
      BY <2>3, <2>6 DEF Stores
    <3>2. stored' = "met"
      BY <3>1, QuietStores
    <3> QED BY <2>3, <2>4, <2>6, <3>2 DEF MetRun
  <2>7. CASE runs[r].at = "expire"
    <3>1. stored' = stored
      BY <2>1, <2>7, QuietStores DEF Stores
    <3> QED BY <2>1, <2>3, <2>4, <2>7, <3>1 DEF MetRun
  <2> QED BY <2>2, <2>5, <2>6, <2>7
<1> QED BY <1>1, <1>2, <1>4, <1>5, <1>6 DEF Owns

\* The row of a completed submission, and the results stored in it, are final
\* while nothing goes wrong.
LEMMA CompletedStays ==
  ASSUME TypeOK, Story, PipelineStep, Quiet', row = "completed"
  PROVE  row' = row /\ stored' = stored
<1>1. /\ Quiet
      /\ \/ UNCHANGED runs /\ job.state \notin {"active", "completed"}
         \/ UNCHANGED <<runs, row, job>>
         \/ job.state = "waiting"
         \/ \E q \in Runs : Owns(q) /\ UNCHANGED <<runs, row>>
         \/ \E q \in Runs : Owns(q) /\ Process(q)
  BY QuietStepCases DEF PipelineStep
<1>2. job.state \in {"active", "completed"}
  BY <1>1 DEF Story, MildStory, Mild, Quiet, NoTroubles
<1>3. CASE UNCHANGED <<runs, row>>
  <2>1. 1 \in Runs
    BY PipelineAssumption DEF Runs
  <2>2. \A p \in Runs : ~ Stores(p)
    BY <1>3 DEF Stores
  <2> QED BY <1>3, <2>1, <2>2, QuietStores
<1>4. ASSUME NEW q \in Runs, Owns(q), Process(q) PROVE row' = row /\ stored' = stored
  <2>1. Live(q) /\ QuietRun(q) /\ runs[q].at \in Points
    BY <1>1, <1>4, ProcessIsLive DEF Story, QuietStory, TypeOK
  <2>2. runs[q].at = "expire"
    BY <2>1 DEF QuietRun, Live, EndPoints, Points, Unclaimed, Working, Settling, TryPoints,
                RetryPoints, CatchPoints
  <2>3. row' = row
    BY <1>4, <2>2, ConcludingStep
  <2>4. stored' = stored
    BY <1>4, <2>2, QuietStores DEF Stores
  <2> QED BY <2>3, <2>4
<1> QED BY <1>1, <1>2, <1>3, <1>4

\* Criteria that are met are so for good: an attempt evaluates them once, and
\* goes on to the 'completed' row.
LEMMA VerdictStep ==
  ASSUME TypeOK, Story, verdict \in [Runs -> Results], PipelineStep, Quiet', NEW r \in Runs,
         \A q \in Runs : verdict[q] = "met" => MetRun(q)
  PROVE  /\ verdict[r] = "met" => verdict'[r] = "met"
         /\ verdict'[r] = "met" => MetRun(r)'
<1>1. Next
  BY DEF PipelineStep
<1>2. CASE verdict' = verdict
  BY <1>2, MetStays
<1>3. ASSUME NEW q \in Runs, Evaluates(q), NEW v \in Verdicts(q), verdict' = [verdict EXCEPT ![q] = v]
      PROVE  /\ verdict[r] = "met" => verdict'[r] = "met"
             /\ verdict'[r] = "met" => MetRun(r)'
  <2>1. /\ Quiet /\ Owns(q) /\ UNCHANGED <<row, job>>
        /\ runs[q].at \in {"criteria", "timeoutCriteria"}
        /\ runs'[q].outcome = runs[q].outcome
        /\ runs[q].outcome = "success" => runs'[q].at = "complete"
    BY <1>1, <1>3, QuietEvaluation
  <2>2. verdict[q] # "met"
    <3>1. ~ MetRun(q)
      BY <2>1 DEF MetRun, Owns
    <3> QED BY <3>1
  <2>3. CASE r # q
    BY <1>3, <2>3, MetStays
  <2>4. ASSUME r = q, verdict'[r] = "met" PROVE MetRun(r)'
    <3>1. runs[q].outcome = "success"
      BY <1>3, <2>4 DEF Verdicts
    <3>2. Owns(q)'
      BY <2>1 DEF Owns
    <3> QED BY <2>1, <2>4, <3>1, <3>2 DEF MetRun
  <2> QED BY <2>2, <2>3, <2>4
<1> QED BY <1>2, <1>3 DEF PipelineStep

-----------------------------------------------------------------------------
\* Every non-empty set of naturals has a least element.
LEMMA LeastNatural ==
  ASSUME NEW S \in SUBSET Nat, S # {}
  PROVE  \E n \in S : \A m \in S : n <= m
<1> DEFINE T == {0 .. n : n \in S}
<1>1. T \subseteq FiniteSubsetsOf(Nat) /\ T # {}
  <2>1. \A n \in S : IsFiniteSet(0 .. n) /\ 0 .. n \subseteq Nat
    BY FS_Interval
  <2> QED BY <2>1 DEF FiniteSubsetsOf
<1>2. PICK I \in T : \A J \in T : <<J, I>> \notin StrictSubsetOrdering(Nat)
  <2> HIDE DEF T
  <2> QED BY <1>1, FS_StrictSubsetOrderingWellFounded, WFMin
<1>3. PICK n \in S : I = 0 .. n
  OBVIOUS
<1>4. ASSUME NEW m \in S, m < n PROVE FALSE
  <2>1. 0 .. m \in T /\ 0 .. m \in SUBSET Nat /\ I \in SUBSET Nat
    BY <1>3
  <2>2. 0 .. m \subseteq I /\ 0 .. m # I
    <3>1. n \in 0 .. n /\ n \notin 0 .. m
      BY <1>4
    <3> QED BY <1>3, <1>4, <3>1
  <2> QED BY <1>2, <2>1, <2>2 DEF StrictSubsetOrdering
<1> QED BY <1>4

\* What Min returns.
LEMMA MinIsLeast ==
  ASSUME NEW S \in SUBSET Nat, S # {}
  PROVE  Min(S) \in S /\ \A m \in S : Min(S) <= m
BY LeastNatural DEF Min

-----------------------------------------------------------------------------
\* The pipeline's steps keep the story of the completion.
LEMMA PipelineKeepsCompletion ==
  ASSUME TypeOK, Story, CompletionStory, PipelineStep
  PROVE  CompletionStory'
<1>1. verdict' \in [Runs -> Results]
  BY DEF CompletionStory, CompletionTypeOK, PipelineStep, Verdicts, Results
<1>2. stored' \in Results
  <2>1. CASE \E r \in Runs : Stores(r)
    BY <2>1 DEF CompletionStory, CompletionTypeOK, PipelineStep, StoredNow
  <2>2. CASE \A r \in Runs : ~ Stores(r)
    BY <2>2 DEF CompletionStory, CompletionTypeOK, PipelineStep, StoredNow
  <2> QED BY <2>1, <2>2
<1>3. EventsHaveAttempts' /\ CompletionTypeOK'
  BY <1>1, <1>2, EventsKeepAttempts DEF PipelineStep, CompletionStory, CompletionTypeOK
<1>4. ASSUME Quiet'
      PROVE  /\ \A r \in Runs : verdict'[r] = "met" => MetRun(r)'
             /\ browser'.shown = "met" => \E r \in Runs : verdict'[r] = "met"
  <2>1. Quiet
    BY <1>4, QuietStepCases DEF PipelineStep
  <2>2. \A r \in Runs : verdict[r] = "met" => MetRun(r)
    BY <2>1 DEF CompletionStory
  <2>3. \A r \in Runs : /\ verdict[r] = "met" => verdict'[r] = "met"
                        /\ verdict'[r] = "met" => MetRun(r)'
    BY <1>4, <2>2, VerdictStep DEF CompletionStory, CompletionTypeOK
  <2>4. UNCHANGED browser
    BY DEF PipelineStep
  <2> QED BY <2>1, <2>3, <2>4 DEF CompletionStory
<1>5. ASSUME NEW id, CitesEarned(id) PROVE CitesEarned(id)'
  <2>1. earlier' = earlier
    BY DEF PipelineStep
  <2>2. ASSUME id = "live", Quiet' PROVE row' = "completed" /\ stored' = "met"
    <3>1. Quiet
      BY <2>2, QuietStepCases DEF PipelineStep
    <3>2. row = "completed" /\ stored = "met"
      BY <1>5, <2>2, <3>1 DEF CitesEarned
    <3> QED BY <2>2, <3>2, CompletedStays
  <2> QED BY <1>5, <2>1, <2>2 DEF CitesEarned
<1>6. UNCHANGED <<posts, milestone>>
  BY DEF PipelineStep
<1> QED BY <1>3, <1>4, <1>5, <1>6 DEF CompletionStory

\* What a step outside the pipeline must leave alone.
LEMMA WorkspaceStep ==
  ASSUME CompletionStory, UNCHANGED <<vars, verdict, stored, earlier>>, CompletionTypeOK',
         Quiet /\ browser'.shown = "met" => \E r \in Runs : verdict[r] = "met",
         \A p \in Posts : posts'[p].at \in {"existing", "insert"} => CitesEarned(posts'[p].id),
         CitesEarned(milestone')
  PROVE  CompletionStory'
<1>1. UNCHANGED <<log, troubles, runs, job, row>>
  BY DEF vars, requestVars
<1>2. EventsHaveAttempts' /\ (Quiet' <=> Quiet)
  BY <1>1 DEF CompletionStory, EventsHaveAttempts, Quiet
<1>3. \A r \in Runs : MetRun(r)' <=> MetRun(r)
  BY <1>1 DEF MetRun, Owns
<1>4. /\ \A p \in Posts : posts'[p].at \in {"existing", "insert"} => CitesEarned(posts[p].id)'
      /\ CitesEarned(milestone)'
  BY <1>1 DEF CitesEarned, Quiet
<1> QED BY <1>2, <1>3, <1>4 DEF CompletionStory

\* What the workspace shows as met was evaluated by an attempt.
LEMMA BrowserKeepsCompletion ==
  ASSUME TypeOK, CompletionStory, Accepted \/ Hear \/ Leave \/ Revisit \/ ShowCompletion \/ Continue
  PROVE  CompletionStory'
<1> USE DEF Results
<1>1. CompletionTypeOK
  BY DEF CompletionStory
<1>2. CASE Accepted \/ Leave \/ Revisit \/ ShowCompletion \/ Continue
  <2>1. CompletionTypeOK'
    BY <1>1, <1>2 DEF Accepted, Leave, Revisit, ShowCompletion, Continue, Fresh, Resume, CompletionTypeOK
  <2>2. browser'.shown \in {browser.shown, "none"}
    BY <1>1, <1>2 DEF Accepted, Leave, Revisit, ShowCompletion, Continue, Fresh, CompletionTypeOK
  <2>3. UNCHANGED <<vars, verdict, stored, earlier, posts, milestone>>
    BY <1>2 DEF Accepted, Leave, Revisit, ShowCompletion, Continue
  <2> QED BY <2>1, <2>2, <2>3, WorkspaceStep DEF CompletionStory
<1>3. CASE Hear
  <2> DEFINE Criteria == {i \in DOMAIN log : i > browser.read /\ log[i].type = "criteria_results"}
             i == Min(Criteria)
  <2>1. Criteria \in SUBSET Nat /\ Criteria # {}
    BY <1>3 DEF Hear, TypeOK
  <2>2. i \in Criteria
    <3> HIDE DEF Criteria
    <3> QED BY <2>1, MinIsLeast
  <2>3. i \in Nat /\ log[i].attempt \in Runs
    BY <2>1, <2>2 DEF CompletionStory, EventsHaveAttempts, SequencedTypes
  <2>4. /\ browser'.read = i
        /\ browser'.shown \in {browser.shown, verdict[log[i].attempt]}
        /\ browser'.id = browser.id /\ browser'.restored = browser.restored
        /\ browser' = [browser EXCEPT !.read = i, !.shown = browser'.shown]
    BY <1>1, <1>3 DEF Hear, CompletionTypeOK
  <2>5. UNCHANGED <<vars, verdict, stored, earlier, page, posts, milestone>>
    BY <1>3 DEF Hear
  <2> HIDE DEF i
  <2>6. CompletionTypeOK'
    BY <1>1, <2>3, <2>4, <2>5 DEF CompletionTypeOK
  <2> QED BY <2>3, <2>4, <2>5, <2>6, WorkspaceStep DEF CompletionStory
<1> QED BY <1>2, <1>3

\* The handler of POST /complete goes past its check only with a submission that
\* earns the milestone.
LEMMA PostKeepsCompletion ==
  ASSUME CompletionStory, NEW p \in Posts, Click(p) \/ Post(p) \/ PostFails(p)
  PROVE  CompletionStory'
<1>1. CompletionTypeOK
  BY DEF CompletionStory
<1>2. \A id : Earned(id) => CitesEarned(id)
  BY DEF Earned, CitesEarned
<1>3. UNCHANGED <<vars, verdict, stored, earlier>>
  BY DEF Click, Post, Lookup, Existing, Insert, Answer, AnswerFailure, PostFails, postUnchanged
<1>4. EffectiveId \in {"earlier", "live"}
  BY <1>1 DEF CompletionTypeOK, EffectiveId
<1>5. CompletionTypeOK'
  <2>1. CASE Click(p)
    BY <1>1, <1>4, <2>1 DEF CompletionTypeOK, Click, postUnchanged
  <2>2. CASE Lookup(p) \/ Existing(p) \/ Insert(p) \/ AnswerFailure(p)
    BY <1>1, <2>2 DEF CompletionTypeOK, Lookup, Existing, Insert, AnswerFailure, PostGoes, postUnchanged
  <2>3. CASE Answer(p)
    BY <1>1, <2>3 DEF CompletionTypeOK, Answer, PostGoes, Fresh, Results
  <2>4. CASE PostFails(p)
    BY <1>1, <2>4 DEF CompletionTypeOK, PostFails, PostGoes, postUnchanged
  <2> QED BY <2>1, <2>2, <2>3, <2>4 DEF Post
<1>6. browser'.shown \in {browser.shown, "none"}
  BY DEF Click, Post, Lookup, Existing, Insert, Answer, AnswerFailure, PostFails, postUnchanged, Fresh
<1>7. /\ \A q \in Posts : posts'[q].at \in {"existing", "insert"} => CitesEarned(posts'[q].id)
      /\ CitesEarned(milestone')
  <2> USE <1>1 DEF CompletionTypeOK, CompletionStory
  <2>1. CASE Click(p)
    BY <2>1 DEF Click
  <2>2. CASE Lookup(p)
    BY <1>2, <2>2 DEF Lookup, PostGoes
  <2>3. CASE Existing(p)
    BY <2>3 DEF Existing, PostGoes
  <2>4. CASE Insert(p) \/ PostFails(p)
    BY <2>4 DEF Insert, PostFails, PostGoes
  <2>5. CASE Answer(p) \/ AnswerFailure(p)
    BY <2>5 DEF Answer, AnswerFailure, PostGoes, postUnchanged
  <2> QED BY <2>1, <2>2, <2>3, <2>4, <2>5 DEF Post
<1> QED BY <1>3, <1>5, <1>6, <1>7, WorkspaceStep DEF CompletionStory

\* The whole invariant: of the pipeline, and of the completion on top of it.
CompletionInv == IInv /\ Story /\ CompletionStory

\* It holds at first, and every step keeps it.
LEMMA CompletionBegins == CompletionInit => CompletionInv
<1> SUFFICES ASSUME CompletionInit PROVE CompletionInv
  OBVIOUS
<1>1. IInv /\ Story
  BY InitEstablishes, StoryBegins DEF CompletionInit
<1>2. CompletionTypeOK
  BY CompletionAssumption DEF CompletionInit, CompletionTypeOK, Results, Fresh, NoPost
<1>3. CompletionStory
  BY <1>2 DEF CompletionInit, CompletionStory, EventsHaveAttempts, Init, Fresh, NoPost, CitesEarned
<1> QED BY <1>1, <1>3 DEF CompletionInv

\* A step is one of the pipeline's or leaves the pipeline alone.
LEMMA CourseIsPipeline == [CompletionNext]_courseVars => [Next]_vars
  BY DEF CompletionNext, PipelineStep, courseVars, Accepted, Hear, Leave, Revisit, ShowCompletion,
         Continue, Click, Post, Lookup, Existing, Insert, Answer, AnswerFailure, PostFails, postUnchanged

\* Every step keeps it.
LEMMA CompletionGoesOn == CompletionInv /\ [CompletionNext]_courseVars => CompletionInv'
<1> SUFFICES ASSUME CompletionInv, [CompletionNext]_courseVars PROVE CompletionInv'
  OBVIOUS
<1>1. TypeOK /\ IInv /\ Story /\ CompletionStory
  BY DEF CompletionInv, IInv
<1>2. [Next]_vars
  BY CourseIsPipeline
<1>3. IInv' /\ Story'
  BY <1>1, <1>2, NextKeeps, NextKeepsStory
<1>4. CompletionStory'
  <2>1. CASE PipelineStep
    BY <1>1, <2>1, PipelineKeepsCompletion
  <2>2. CASE Accepted \/ Hear \/ Leave \/ Revisit \/ ShowCompletion \/ Continue
    BY <1>1, <2>2, BrowserKeepsCompletion
  <2>3. ASSUME NEW p \in Posts, Click(p) \/ Post(p) \/ PostFails(p) PROVE CompletionStory'
    BY <1>1, <2>3, PostKeepsCompletion
  <2>4. CASE UNCHANGED courseVars
    <3>1. UNCHANGED <<vars, verdict, stored, earlier, browser, page, posts, milestone>>
      BY <2>4 DEF courseVars, completionVars
    <3>2. CompletionTypeOK'
      BY <1>1, <3>1 DEF CompletionStory, CompletionTypeOK
    <3> QED BY <1>1, <3>1, <3>2, WorkspaceStep DEF CompletionStory
  <2> QED BY <2>1, <2>2, <2>3, <2>4 DEF CompletionNext
<1> QED BY <1>3, <1>4 DEF CompletionInv

\* For any number of requests, attempts and visits, whatever the learner clicks:
\* a milestone is completed by a submission that is completed itself and whose
\* stored criteria are all met.
THEOREM MilestoneIsEarned == CompletionSpec => []CompletionIsEarned
<1>1. CompletionInv => CompletionIsEarned
  BY DEF CompletionInv, CompletionStory, CitesEarned, CompletionIsEarned, Quiet
<1> QED BY <1>1, CompletionBegins, CompletionGoesOn, PTL DEF CompletionSpec

\* A "Complete Milestone" button that the submission's own stream made appear is
\* one the route accepts once the pipeline is at rest.
THEOREM OfferIsKept == CompletionSpec => []OfferKept
<1>1. CompletionInv => OfferKept
  <2> SUFFICES ASSUME CompletionInv, Quiet, Settled, browser.shown = "met" PROVE Earned("live")
    BY DEF OfferKept, Quiet
  <2>1. PICK r \in Runs : MetRun(r)
    BY DEF CompletionInv, CompletionStory
  <2> QED BY <2>1 DEF MetRun, Settled, Owns, Earned
<1> QED BY <1>1, CompletionBegins, CompletionGoesOn, PTL DEF CompletionSpec

\* A completion is never replaced: not by a second request, and not by one sent
\* again after its reply was lost.
THEOREM CompletionIsFinal == CompletionSpec => CompletionStands
<1>1. [CompletionNext]_courseVars => [milestone # "none" => milestone' = milestone]_courseVars
  BY DEF CompletionNext, courseVars, completionVars, PipelineStep, Accepted, Hear, Leave, Revisit,
         ShowCompletion, Continue, Click, Post, Lookup, Existing, Insert, Answer, AnswerFailure, PostFails
<1> QED BY <1>1, PTL DEF CompletionSpec, CompletionStands

\* The workspace and its requests leave the pipeline as it is specified, so that
\* what is proved of every step of the pipeline holds while they go on.
THEOREM CourseFollowsPipeline == CompletionSpec => Init /\ [][Next]_vars
<1>1. CompletionInit => Init
  BY DEF CompletionInit
<1> QED BY <1>1, CourseIsPipeline, PTL DEF CompletionSpec

\* So at most one terminal event is published while a milestone is completed.
THEOREM CourseToldOnce == CompletionSpec => []OneTerminalEvent
<1>1. CompletionInv => IInv /\ Story
  BY DEF CompletionInv
<1>2. IInv => TypeOK
  BY DEF IInv
<1> QED BY <1>1, <1>2, ToldOnceOnly, CompletionBegins, CompletionGoesOn, PTL DEF CompletionSpec

=============================================================================

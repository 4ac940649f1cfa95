-------------------------- MODULE SubmissionPipeline --------------------------
(***************************************************************************)
(* One submission of learner code, from POST /submit to the settled row:   *)
(* the submit handler (API process), the BullMQ job, every attempt of the  *)
(* execution processor (worker process) and the worker's "failed" handler. *)
(*                                                                         *)
(* Submissions share nothing the pipeline reads, so one submission is the  *)
(* whole model.  What can go wrong is counted: faults (a database, Redis   *)
(* or content call that rejects), crashes (the worker process dies with an *)
(* attempt in flight) and lock losses (BullMQ gives the job to another     *)
(* worker while the first attempt is still executing).                     *)
(***************************************************************************)
EXTENDS ExecutionEvents, FiniteSets

CONSTANTS
  Attempts,       \* attempts of an execution job
  MaxStalls,      \* times BullMQ re-queues a stalled job (its default is 1)
  MaxTroubles     \* bound: the combinations of troubles a behaviour may meet,
                  \* each with the benchmarks its milestone has

ASSUME PipelineAssumption ==
  /\ Attempts \in Nat \ {0}
  /\ MaxStalls \in Nat
  /\ MaxTroubles \subseteq [faults : Nat, crashes : Nat, lockLosses : Nat, benchmarks : Nat]

\* Every attempt the queue can start: the retries and the stalled re-runs.
Runs == 1 .. (Attempts + MaxStalls)
NoRun == 0

VARIABLES
  request,    \* where the submit handler is, and what it answered
  announced,  \* the fire-and-forget 'queued' event: "none", "pending", "sent"
  row,        \* submissions.status; "none" before the INSERT
  job,        \* the BullMQ job; payload is what submit put into job.data
  runs,       \* the attempts of the processor
  log,        \* the Redis list execution:{id}:log
  benchRows,  \* rows of benchmark_results for the submission
  handler,    \* the worker's "failed" handler: "idle", "due", "skipped", "done"
  troubles    \* what has gone wrong so far

vars == <<request, announced, row, job, runs, log, benchRows, handler, troubles>>
requestVars == <<request, announced>>

RowStatuses == {"none", "queued", "running", "completed", "failed"}
TerminalStatuses == {"completed", "failed"}

\* Program points of an attempt, each in front of one await of the processor.
TryPoints ==
  {"claim", "announce", "oversize", "failOversize", "load", "execute",
   "timeoutCriteria", "timeout", "failTimeout", "compileError", "runtimeError",
   "output", "benchLoad", "benchProgress", "benchRun", "benchResult", "benchPersist",
   "criteria", "failUser", "complete", "completeRow", "expire"}
CatchPoints == {"internalError", "failInternal", "expireInternal"}
RetryPoints == {"requeue", "expireRetry"}
EndPoints == {"returned", "threw", "dead"}
Points == {"idle"} \cup TryPoints \cup CatchPoints \cup RetryPoints \cup EndPoints

\* "oversize": more than 128 KB of UTF-8, which the route's schema (it counts
\* characters, and only those of `code`) lets through.
Payloads == {"fits", "oversize"}

Outcomes == {"none", "success", "compileError", "runtimeError", "timeout"}

NoTroubles == [faults |-> 0, crashes |-> 0, lockLosses |-> 0]

IdleRun == [at |-> "idle", seq |-> 1, outcome |-> "none", bench |-> 0]

Live(r) == runs[r].at \notin {"idle"} \cup EndPoints
At(r, point) == runs[r].at = point

Init ==
  /\ request = "start"
  /\ announced = "none"
  /\ row = "none"
  /\ job = [state |-> "none", payload |-> "fits",
            attemptsMade |-> 0, stalls |-> 0, owner |-> NoRun]
  /\ runs = [r \in Runs |-> IdleRun]
  /\ log = <<>>
  /\ benchRows = 0
  /\ handler = "idle"
  /\ troubles = NoTroubles

-----------------------------------------------------------------------------
(* Fault bookkeeping and the two database/Redis primitives. *)

\* What went wrong, and the benchmarks run so far, fit one of the combinations.
Fits(t, b) ==
  /\ t.faults <= b.faults /\ t.crashes <= b.crashes /\ t.lockLosses <= b.lockLosses
  /\ \A r \in Runs : runs[r].bench <= b.benchmarks
Within(t) == \E b \in MaxTroubles : Fits(t, b)

NoFault == UNCHANGED troubles
Fault == troubles' = [troubles EXCEPT !.faults = @ + 1] /\ Within(troubles')
CrashNow == troubles' = [troubles EXCEPT !.crashes = @ + 1] /\ Within(troubles')
LockLossNow == troubles' = [troubles EXCEPT !.lockLosses = @ + 1] /\ Within(troubles')

\* Mutant: no catch block, every error reaches BullMQ.
NoCatch(r) == "threw"

\* Where an exception thrown at the point of r lands: the processor's catch
\* block for a statement of the try block, the caller (BullMQ) otherwise.
Thrown(r) == IF runs[r].at \in TryPoints THEN "internalError" ELSE "threw"

Goto(r, point) == runs' = [runs EXCEPT ![r].at = point]

\* UPDATE submissions SET status WHERE id: no guard on the current status.
\* A rejected statement may have been executed, its answer lost.
SetRow(r, from, status, next) ==
  /\ At(r, from)
  /\ \/ NoFault /\ row' = status /\ Goto(r, next)
     \/ Fault /\ row' \in {row, status} /\ Goto(r, Thrown(r))
  /\ UNCHANGED <<requestVars, job, log, benchRows, handler>>

\* await eventPublisher.publish(...).  sequenceId++ is evaluated before the
\* call; a rejected publish (PUBLISH, RPUSH or EXPIRE) may or may not have
\* appended the event.
Publish(r, from, type, next, onError) ==
  LET e == Event(type, runs[r].seq, r) IN
  /\ At(r, from)
  /\ \/ /\ NoFault
        /\ log' = Append(log, e)
        /\ runs' = [runs EXCEPT ![r].at = next, ![r].seq = @ + 1]
     \/ /\ Fault
        /\ log' \in {log, Append(log, e)}
        /\ runs' = [runs EXCEPT ![r].at = onError, ![r].seq = @ + 1]
  /\ UNCHANGED <<requestVars, row, job, benchRows, handler>>

\* A call that changes none of the state below but may reject.
Await(r, from, next, onError) ==
  /\ At(r, from)
  /\ \/ NoFault /\ Goto(r, next)
     \/ Fault /\ Goto(r, onError)
  /\ UNCHANGED <<requestVars, row, job, log, benchRows, handler>>

-----------------------------------------------------------------------------
(* The submit handler. *)

\* Refused before anything is written: rate limited, or no code and no files.
Reject ==
  /\ request = "start"
  /\ request' = "refused"
  /\ UNCHANGED <<announced, row, job, runs, log, benchRows, handler, troubles>>

InsertRow ==
  /\ request = "start"
  /\ \/ NoFault /\ row' = "queued" /\ request' = "inserted"
     \/ Fault /\ row' \in {row, "queued"} /\ request' = "error500"
  /\ UNCHANGED <<announced, job, runs, log, benchRows, handler>>

\* queue.add (a rejected one has added nothing); on success the 202 and the 'queued' publish follow at once.
Enqueue ==
  /\ request = "inserted"
  /\ \/ /\ NoFault
        /\ \E p \in Payloads : job' = [job EXCEPT !.state = "waiting", !.payload = p]
        /\ request' = "accepted"
        /\ announced' = "pending"
     \/ Fault /\ request' = "addFailed" /\ UNCHANGED <<job, announced>>
  /\ UNCHANGED <<row, runs, log, benchRows, handler>>

\* The 503 path marks the row; its own failure is only logged.
MarkUnavailable ==
  /\ request = "addFailed"
  /\ request' = "unavailable"
  /\ \/ NoFault /\ row' = "failed"
     \/ Fault /\ row' \in {row, "failed"}
  /\ UNCHANGED <<announced, job, runs, log, benchRows, handler>>

\* Not awaited: it lands at any time, before or after the worker's events.
AnnounceQueued ==
  /\ announced = "pending"
  /\ announced' = "sent"
  /\ \/ NoFault /\ log' = Append(log, QueuedEvent)
     \/ Fault /\ log' \in {log, Append(log, QueuedEvent)}
  /\ UNCHANGED <<request, row, job, runs, benchRows, handler>>

\* The API process dies between the INSERT and its follow-up.
ApiCrash ==
  /\ request \in {"inserted", "addFailed"}
  /\ CrashNow
  /\ request' = "lost"
  /\ UNCHANGED <<announced, row, job, runs, log, benchRows, handler>>

-----------------------------------------------------------------------------
(* The queue (BullMQ, external): at-least-once delivery of the job. *)

queueUnchanged == UNCHANGED <<requestVars, row, log, benchRows>>

\* A worker slot takes the job and calls the processor.
Pick(r) ==
  /\ job.state = "waiting"
  /\ At(r, "idle") /\ \A q \in Runs : q < r => ~ At(q, "idle")
  /\ job' = [job EXCEPT !.state = "active", !.owner = r]
  /\ Goto(r, "claim")
  /\ queueUnchanged /\ UNCHANGED <<handler, troubles>>

\* The exponential backoff of a failed attempt has elapsed.
BackoffElapsed ==
  /\ job.state = "delayed"
  /\ job' = [job EXCEPT !.state = "waiting"]
  /\ queueUnchanged /\ UNCHANGED <<runs, handler, troubles>>

Owns(r) == job.state = "active" /\ job.owner = r

\* The job leaves the queue for good; worker.on('failed') acts only when the
\* attempts are exhausted.
FailJob(made) ==
  /\ job' = [job EXCEPT !.state = "failed", !.attemptsMade = made, !.owner = NoRun]
  /\ handler' = IF made >= Attempts THEN "due" ELSE "skipped"

JobReturned(r) ==
  /\ Owns(r) /\ At(r, "returned")
  /\ job' = [job EXCEPT !.state = "completed", !.owner = NoRun]
  /\ queueUnchanged /\ UNCHANGED <<runs, handler, troubles>>

JobThrew(r) ==
  LET made == job.attemptsMade + 1 IN
  /\ Owns(r) /\ At(r, "threw")
  /\ \/ made >= Attempts /\ FailJob(made)
     \/ /\ made < Attempts
        /\ job' = [job EXCEPT !.state = "delayed", !.attemptsMade = made, !.owner = NoRun]
        /\ UNCHANGED handler
  /\ queueUnchanged /\ UNCHANGED <<runs, troubles>>

\* The lock of the job expired: it is delivered again, or failed for good when
\* it has stalled too often.
StallJob ==
  \/ /\ job.stalls < MaxStalls
     /\ job' = [job EXCEPT !.state = "waiting", !.stalls = @ + 1, !.owner = NoRun]
     /\ UNCHANGED handler
  \/ job.stalls >= MaxStalls /\ FailJob(job.attemptsMade)

\* The stalled-job checker finds the job of a dead worker.
Stalled(r) ==
  /\ Owns(r) /\ At(r, "dead")
  /\ StallJob
  /\ queueUnchanged /\ UNCHANGED <<runs, troubles>>

\* The lock expires under a worker that is alive: the attempt goes on.
LoseLock(r) ==
  /\ Owns(r) /\ ~ At(r, "dead")
  /\ LockLossNow
  /\ StallJob
  /\ queueUnchanged /\ UNCHANGED runs

\* A worker process dies with the attempt in flight, or before it reported.
WorkerCrash(r) ==
  /\ Live(r) \/ (Owns(r) /\ ~ At(r, "dead"))
  /\ CrashNow
  /\ Goto(r, "dead")
  /\ queueUnchanged /\ UNCHANGED <<job, handler>>

\* Mutant: the handler only reports to Sentry.
HandlerOnlyReports ==
  /\ handler = "due"
  /\ handler' = "done"
  /\ NoFault /\ UNCHANGED <<requestVars, row, job, runs, log, benchRows>>

\* worker.on('failed'), attempts exhausted: the row is failed, no event is
\* published.  A rejected UPDATE is logged; a crash loses it.
FailedHandler ==
  /\ handler = "due"
  /\ handler' = "done"
  /\ \/ NoFault /\ row' = "failed"
     \/ (Fault \/ CrashNow) /\ row' \in {row, "failed"}
  /\ UNCHANGED <<requestVars, job, runs, log, benchRows>>

-----------------------------------------------------------------------------
(* The execution processor: one action per await, in program order. *)

\* UPDATE ... SET status = 'running' WHERE status = 'queued'.
Claim(r) ==
  /\ At(r, "claim")
  /\ LET claimed == IF row = "queued" THEN "running" ELSE row IN
     \/ NoFault /\ row' = claimed /\ Goto(r, "announce")
     \/ Fault /\ row' \in {row, claimed} /\ Goto(r, Thrown(r))
  /\ UNCHANGED <<requestVars, job, log, benchRows, handler>>

Announce(r) ==
  Publish(r, "announce", "output",
          IF job.payload = "oversize" THEN "oversize" ELSE "load", Thrown(r))

RejectOversize(r) ==
  \/ Publish(r, "oversize", "error", "failOversize", Thrown(r))
  \/ SetRow(r, "failOversize", "failed", "expire")

\* Milestone slug and criteria (their errors are swallowed), starter files
\* (theirs are not).
LoadContent(r) == Await(r, "load", "execute", Thrown(r))

\* The point that follows the answer of the execution service.
AfterExecute ==
  [timeout |-> "timeoutCriteria", compileError |-> "compileError",
   runtimeError |-> "runtimeError", success |-> "output"]

\* executionClient.execute: an answer, a retryable 503/429, or another error.
Execute(r) ==
  /\ At(r, "execute")
  /\ \/ /\ NoFault
        /\ \E o \in DOMAIN AfterExecute :
             runs' = [runs EXCEPT ![r].at = AfterExecute[o], ![r].outcome = o]
     \/ NoFault /\ Goto(r, "requeue")
     \/ Fault /\ Goto(r, Thrown(r))
  /\ UNCHANGED <<requestVars, row, job, log, benchRows, handler>>

\* evaluateAndPublishCriteria: nothing is published without criteria, and its
\* errors are swallowed.
PublishCriteria(r, from, next) ==
  \/ Publish(r, from, "criteria_results", next, next)
  \/ /\ At(r, from) /\ NoFault /\ Goto(r, next)
     /\ UNCHANGED <<requestVars, row, job, log, benchRows, handler>>

\* timedOut is checked first: criteria, then 'timeout', then the row.
TimedOut(r) ==
  \/ PublishCriteria(r, "timeoutCriteria", "timeout")
  \/ Publish(r, "timeout", "timeout", "failTimeout", Thrown(r))
  \/ SetRow(r, "failTimeout", "failed", "expire")

\* The output or error of the program, published before anything is stored.
ReportProgram(r) ==
  \/ Publish(r, "compileError", "compile_error", "criteria", Thrown(r))
  \/ Publish(r, "runtimeError", "error", "criteria", Thrown(r))
  \/ Publish(r, "output", "output", "benchLoad", Thrown(r))

\* The milestone has an n-th benchmark.
HasBenchmark(n) == \E b \in MaxTroubles : Fits(troubles, b) /\ n <= b.benchmarks

\* The benchmark phase swallows every error, a 503 included, and goes on to
\* the criteria; a benchmark without timings is skipped.
NextBenchmark(r) ==
  LET n == runs[r].bench + 1 IN
  \/ HasBenchmark(n) /\ runs' = [runs EXCEPT ![r].bench = n, ![r].at = "benchProgress"]
  \/ Goto(r, "criteria")

\* The lines of a benchmark's output that the parser knows; it skips any other.
LineKinds == {"userIteration", "referenceIteration", "complete"}

\* A parsed output counts for its timings: a complete line has medians, but
\* with no iteration of the learner's program there is nothing to store.
HasTimings(stdout) == "userIteration" \in stdout

\* Two programs are run for one benchmark, the learner's and the reference: one
\* that fails or is late leaves an empty output.
RunBenchmark(r) ==
  /\ At(r, "benchRun") /\ NoFault
  /\ \E stdout \in SUBSET LineKinds :
       \/ HasTimings(stdout) /\ Goto(r, "benchResult")
       \/ ~ HasTimings(stdout) /\ NextBenchmark(r)
  /\ UNCHANGED <<requestVars, row, job, log, benchRows, handler>>

\* INSERT INTO benchmark_results: a row of its own for every run.
PersistBenchmark(r) ==
  /\ At(r, "benchPersist")
  /\ \/ NoFault /\ benchRows' = benchRows + 1 /\ NextBenchmark(r)
     \/ Fault /\ benchRows' \in {benchRows, benchRows + 1} /\ Goto(r, "criteria")
  /\ UNCHANGED <<requestVars, row, job, log, handler>>

Benchmark(r) ==
  \/ /\ At(r, "benchLoad") /\ NoFault /\ NextBenchmark(r)
     /\ UNCHANGED <<requestVars, row, job, log, benchRows, handler>>
  \/ Publish(r, "benchProgress", "benchmark_progress", "benchRun", "criteria")
  \/ RunBenchmark(r)
  \/ Publish(r, "benchResult", "benchmark_result", "benchPersist", "criteria")
  \/ PersistBenchmark(r)

\* Mutant: only a compile error counts as a user error.
ConcludeRuntimeAsSuccess(r) ==
  \/ PublishCriteria(r, "criteria",
                     IF runs[r].outcome # "compileError" THEN "complete" ELSE "failUser")
  \/ SetRow(r, "failUser", "failed", "expire")
  \/ Publish(r, "complete", "complete", "completeRow", Thrown(r))
  \/ SetRow(r, "completeRow", "completed", "expire")

\* Mutant: the row is stored before 'complete' is published.
ConcludeRowFirst(r) ==
  \/ PublishCriteria(r, "criteria",
                     IF runs[r].outcome = "success" THEN "completeRow" ELSE "failUser")
  \/ SetRow(r, "failUser", "failed", "expire")
  \/ SetRow(r, "completeRow", "completed", "complete")
  \/ Publish(r, "complete", "complete", "expire", Thrown(r))

\* Criteria, then the row of a user error, or 'complete' and the row of a
\* success.
Conclude(r) ==
  \/ PublishCriteria(r, "criteria",
                     IF runs[r].outcome = "success" THEN "complete" ELSE "failUser")
  \/ SetRow(r, "failUser", "failed", "expire")
  \/ Publish(r, "complete", "complete", "completeRow", Thrown(r))
  \/ SetRow(r, "completeRow", "completed", "expire")

\* setLogTTL is still inside the try block of the processor.
ExpireLog(r) == Await(r, "expire", "returned", Thrown(r))

\* Mutant: the row is left 'running' when the job is to be retried.
RetryWithoutReset(r) ==
  \/ Await(r, "requeue", "expireRetry", "expireRetry")
  \/ Await(r, "expireRetry", "threw", "threw")

\* Mutant: the error is not thrown again, so BullMQ sees a success.
RetrySwallowed(r) ==
  \/ SetRow(r, "requeue", "queued", "expireRetry")
  \/ Await(r, "expireRetry", "returned", "returned")

\* Mutant: the processor calls the busy service again itself.
RetryInPlace(r) ==
  \/ SetRow(r, "requeue", "queued", "expireRetry")
  \/ Await(r, "expireRetry", "execute", "execute")

\* Retryable service error: the row goes back to 'queued' (a failed UPDATE is
\* swallowed), and the error is thrown whatever setLogTTL does.
RetryLater(r) ==
  \/ /\ At(r, "requeue")
     /\ Goto(r, "expireRetry")
     /\ \/ NoFault /\ row' = "queued"
        \/ Fault /\ row' \in {row, "queued"}
     /\ UNCHANGED <<requestVars, job, log, benchRows, handler>>
  \/ Await(r, "expireRetry", "threw", "threw")

\* Mutant: a rejected UPDATE in the catch block is swallowed.
CatchSwallowsUpdate(r) ==
  \/ Publish(r, "internalError", "error", "failInternal", Thrown(r))
  \/ SetRow(r, "failInternal", "failed", "expireInternal")
  \/ Await(r, "failInternal", "returned", "returned")
  \/ Await(r, "expireInternal", "returned", Thrown(r))

\* Any other error: reported and recorded; an error in here reaches BullMQ.
CatchInternal(r) ==
  \/ Publish(r, "internalError", "error", "failInternal", Thrown(r))
  \/ SetRow(r, "failInternal", "failed", "expireInternal")
  \/ Await(r, "expireInternal", "returned", Thrown(r))

-----------------------------------------------------------------------------
Submit == Reject \/ InsertRow \/ Enqueue \/ MarkUnavailable \/ AnnounceQueued \/ ApiCrash

Process(r) ==
  \/ Claim(r) \/ Announce(r) \/ RejectOversize(r) \/ LoadContent(r) \/ Execute(r)
  \/ TimedOut(r) \/ ReportProgram(r) \/ Benchmark(r) \/ Conclude(r)
  \/ ExpireLog(r) \/ RetryLater(r) \/ CatchInternal(r)

Queue(r) == Pick(r) \/ JobReturned(r) \/ JobThrew(r) \/ Stalled(r)

\* Nothing is left to do (a zombie attempt included).
Settled ==
  /\ request \notin {"start", "inserted", "addFailed"}
  /\ announced # "pending"
  /\ job.state \in {"none", "completed", "failed"}
  /\ handler # "due"
  /\ \A r \in Runs : ~ Live(r)

Done == Settled /\ UNCHANGED vars

Next ==
  \/ Submit
  \/ BackoffElapsed
  \/ FailedHandler
  \/ \E r \in Runs : Queue(r) \/ Process(r) \/ LoseLock(r) \/ WorkerCrash(r)
  \/ Done

Spec == Init /\ [][Next]_vars

\* The event loops of both processes run what is ready; BullMQ delivers
\* waiting jobs, fires backoffs and finds stalled jobs; the Go service answers
\* (it bounds every execution by a timeout).
Fairness ==
  /\ WF_vars(Submit) /\ WF_vars(BackoffElapsed) /\ WF_vars(FailedHandler)
  /\ \A r \in Runs : WF_vars(Queue(r)) /\ WF_vars(Process(r))

FairSpec == Spec /\ Fairness

-----------------------------------------------------------------------------
(* Properties. *)

JobStates == {"none", "waiting", "delayed", "active", "completed", "failed"}
Events ==
  [type : SequencedTypes \cup {QueuedType}, seq : Nat, attempt : Runs \cup {NoRun}]

\* Every variable has its type.
TypeOK ==
  /\ request \in {"start", "refused", "inserted", "error500", "accepted",
                  "addFailed", "unavailable", "lost"}
  /\ announced \in {"none", "pending", "sent"}
  /\ row \in RowStatuses
  /\ job \in [state : JobStates, payload : Payloads, attemptsMade : 0 .. Attempts,
              stalls : 0 .. MaxStalls, owner : Runs \cup {NoRun}]
  /\ runs \in [Runs -> [at : Points, seq : Nat, outcome : Outcomes, bench : Nat]]
  /\ log \in Seq(Events)
  /\ benchRows \in Nat
  /\ handler \in {"idle", "due", "skipped", "done"}
  /\ troubles \in [faults : Nat, crashes : Nat, lockLosses : Nat]

Logged(type) == \E i \in DOMAIN log : log[i].type = type

\* The row never says 'completed' unless the learner's stream holds the
\* 'complete' event: the event is published first, and a publish that was
\* rejected never leads to the UPDATE, whatever fails, crashes or runs twice.
CompletedWasAnnounced == row = "completed" => Logged("complete")

\* Within one attempt sequenceIds strictly increase along the list, also after
\* a publish that was rejected but had already appended its event: the
\* stream's "seq <= highest" deduplication relies on it.
AttemptSeqIncreases ==
  \A i, j \in DOMAIN log :
    (i < j /\ log[i].attempt = log[j].attempt /\ log[i].attempt # NoRun)
      => log[i].seq < log[j].seq

\* The last terminal event of the list decides what the learner is shown.
LastTerminalIs(type) ==
  \E i \in DOMAIN log :
    /\ log[i].type = type
    /\ \A j \in DOMAIN log : j > i => ~ IsTerminal(log[j])

\* With at most one rejected call and nothing worse, the row and the event
\* stream tell the same story in the end: 'completed' exactly when the last
\* terminal event is 'complete'.
SettledRowAgreesWithEvents ==
  (Settled /\ troubles \in {NoTroubles, [NoTroubles EXCEPT !.faults = 1]}) =>
    (row = "completed" <=> LastTerminalIs("complete"))

\* A job BullMQ counts as completed has settled the row, through whichever of
\* the try, catch and early-return paths its attempts went.  (A second attempt
\* that runs after a lost lock may queue the row again: excepted here.)
CompletedJobSettlesRow ==
  (job.state = "completed" /\ troubles.lockLosses = 0) => row \in TerminalStatuses

\* An accepted submission whose row is left unsettled for ever is one whose
\* job BullMQ gave up: either its last UPDATE was lost, or the job stalled too
\* often, a failure the "failed" handler does not count as exhausted.
UnsettledOnlyIfJobFailed ==
  (Settled /\ troubles.lockLosses = 0 /\ request = "accepted" /\ row \notin TerminalStatuses)
    => /\ job.state = "failed"
       /\ \/ handler = "done"
          \/ handler = "skipped" /\ job.stalls = MaxStalls

\* While nothing has gone wrong a submission publishes at most one terminal
\* event, the re-runs after a busy execution service included, and benchmarks
\* are stored only for a program that ran to its end.
OneTerminalEvent ==
  troubles = NoTroubles =>
    /\ Cardinality({i \in DOMAIN log : IsTerminal(log[i])}) <= 1
    /\ (Settled /\ benchRows > 0) => row = "completed"

\* Everything comes to rest, whatever fails: no attempt is retried for ever.
EventuallySettled == <>[]Settled

\* If nothing goes wrong accepted work ends in a terminal row that nothing
\* overwrites.
AcceptedStaysSettled ==
  [](troubles = NoTroubles) => (request = "accepted" ~> [](row \in TerminalStatuses))

\* The pipeline seen as its abstract lifecycle.
replyNow ==
  IF request \in {"start", "inserted"} THEN "none" ELSE request
Lifecycle == INSTANCE SubmissionLifecycle
  WITH status <- row, tries <- job.attemptsMade, reply <- replyNow

\* As long as no fault, crash or lock loss has happened the pipeline implements
\* it.
LifecycleSpec ==
  /\ Lifecycle!Init
  /\ [][troubles' = NoTroubles => [Lifecycle!Next]_(Lifecycle!lifecycleVars)]_vars
=============================================================================

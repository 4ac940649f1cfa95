# mycscompanion, in TLA+

mycscompanion is a web application in which a learner writes code for the
milestones of a computer science track, submits it, watches it run, completes
the milestone, and talks to a tutor. The program is a React application
(`src/apps/webapp`), a Fastify API and a BullMQ worker (`src/apps/backend`),
Postgres, Redis, a Go execution service (`src/infra/fly-execution`) and the
Anthropic API.

This directory holds TLA+ modules for the parts of it whose correctness depends
on the order in which several of these act, TLC configurations that check them
on small instances, and TLAPS proofs of what matters most for every instance.

- `tlc -workers 2 -config X.cfg M` runs a configuration; the module of each is
  in the table of runs below.
- `tlapm M_proofs.tla` checks the proofs about module `M`. The proofs about
  `CircuitBreaker` are in `TutorRequests_proofs`, those about `StuckDetection` in
  `TutorPanel_proofs`, and those about `MilestoneCompletion` in
  `SubmissionPipeline_proofs`: each rests on the other of its pair.

`PROJECT.json` maps every definition to the lines it models, and lists runs,
mutants, hazards, findings and theorems.

## The system

| component | state it keeps | operations | module |
|---|---|---|---|
| Execution pipeline: `plugins/execution/routes/submit.ts`, `shared/queue.ts`, `worker/` | rows of `submissions` and `benchmark_results`, the BullMQ job, the Redis list `execution:{id}:log` | submit, an attempt of the processor (about twenty awaits), retry with backoff, stalled re-run, the worker's `failed` handler | `SubmissionPipeline`, abstractly `SubmissionLifecycle` |
| Execution service and client: `infra/fly-execution/server`, `packages/execution`'s client | a semaphore, work directories, processes, two time limits | admit or refuse, compile, run, answer, drain and stop | `ExecutionService` |
| Event stream: `shared/event-publisher.ts`, `routes/stream.ts`, `use-sse.ts`, `use-submit-code.ts` | Redis list and channel, the locals of the stream handler, Last-Event-ID and the handled ids in the browser | publish, replay, subscribe, forward live, heartbeat and cap, disconnect, reconnect | `EventStream`, with the vocabulary `ExecutionEvents` |
| Milestone completion: `completion.ts`, `criteria-evaluator.ts`, `Workspace.tsx`, `Completion.tsx` | rows of `user_milestones`, `submissions.criteria_results`, live and restored results in the workspace | evaluate, send and store criteria, offer the button, complete, show the completion | `MilestoneCompletion`, on top of `SubmissionPipeline` |
| Tutor circuit breaker: `tutor/services/circuit-breaker.ts`, `tutor/routes/health.ts` | five variables of a closure | admit, success, failure, the health probe, time | `CircuitBreaker` |
| Tutor routes: `stream.ts`, `stuck-intervention.ts`, `message.ts`, `anthropic.ts`, `tutor-metrics.ts`; rate limiting: `shared/rate-limiter.ts` | rows of `tutor_messages`, a sorted set per learner, an open connection, listeners and timers of the Anthropic stream | count, add, store the question, call, idle, end, persist, clean up | `TutorRequests`, on top of `CircuitBreaker` |
| Stuck detection: `use-stuck-detection.ts`, two effects of `Workspace.tsx` | an inactivity timer, two stages, refs, the panel's store | tick, activity, render, effects, toggling the panel, asking for help | `StuckDetection` |
| Tutor panel: `TutorPanel.tsx`, `use-tutor-stream.ts`, `use-stuck-intervention.ts`, `use-tutor-recovery.ts` | the chat's and the intervention's requests, `isStreamingRef`, availability | send, token, end, abort on unmount, probe | `TutorPanel`, on top of `StuckDetection` |
| Workspace code: `use-auto-save.ts`, `use-workspace-data.ts`, `editor-store`, `CodeEditor`, `routes/auto-save.ts`, `resume.ts` | the editor's content, the query cache, debounce and retry timers, saved hash, snapshots | edit, save, retry, succeed, fail, open, load, mount, leave, submit, close the tab | `CodeAutoSave` |
| Work sessions: `progress/routes/sessions.ts`, `session-end.ts`, `overview.ts`, `stale-session-handler.ts`, `summary-generator.ts`, `use-session.ts`, `end-session.ts` | rows of `sessions` and `session_summaries`, the session id the workspace knows | create (a transaction), save, end, reap the quiet ones, summarise, fill in what is missing | `WorkSessions` |
| Content and configuration: `content-loader.ts`, `config-loader.ts`, the context assemblers, `reload-config.ts` | two Redis caches, a template and a routing table in memory | load, expire, invalidate, reload, restart | `ContentCache` |
| Benchmarks: `benchmark-runner.ts`, `benchmark-persistence.ts` | rows of `benchmark_results` | two runs for a benchmark, parsing, comparison, storing | their control in `SubmissionPipeline`, with the lines of an output that decide whether there is a result; the arithmetic is not modelled |
| Account: export, deletion, profile, onboarding | the user's rows, the export job and file | export, delete | not modelled |
| Track progress, tutor history, administration, authentication, configuration, presentation, website | nothing that the others depend on | read-only queries, token checks, rendering | not modelled |

How they meet: the browser submits code; the pipeline inserts a row, adds a job,
asks the execution service and publishes events to Redis; the stream route
forwards them; the browser decides from the terminal event, or from the row,
that the run is over, and offers to complete the milestone when the criteria it
was sent are all met. A submission also stores a snapshot, which belongs to a
session and is what the workspace is later restored from. Auto-save and
submission find or make sessions; the overview ends the quiet ones. A learner
who does nothing is offered the tutor, whose requests pass the rate limiter and
the circuit breaker. The worker takes criteria and benchmarks, and the tutor its
prompts, from caches an administrator may reload.

What is hard about it:

- **At least once.** BullMQ runs a job again after a crash or a lost lock, the
  terminal `UPDATE`s have no guard, every publish is two Redis commands, and
  every await may reject.
- **Three replicas of one event stream** (list, channel, browser), joined by a
  replay that races live messages.
- **Reports from the past.** The breaker is told of calls it admitted in another
  state; a save replies when the editor shows something else; an end arrives
  after the next session was created; a load fills a cache with what it read
  before the reload; a probe answers after the next outage began.
- **Streams with several owners.** The tutor's stream is ended by the API, the
  browser, either of two timers or a rejected call, whichever is first.
- **Processes.** A program outlives its deadline, its client, or itself.
- **React.** Effects run with the values of an older render; refs do not.
- **READ COMMITTED.** A transaction that looks, updates and inserts sees other
  transactions in between.
- **Leaving.** A tab may close in front of any reply; what was sent goes on.

`PROJECT.json` lists these as hazards, each at its line, with the properties
that would catch it going wrong or with the reason why none does.

## The modules

Each module has one action per handler or per await: the code between two
awaits runs alone in its event loop, so an action is all of it. A failure of an
await is a disjunct of the action or an action of its own. Payloads, texts and
names are model values; formatting and logging are left out. A definition whose
comment begins with *Mutant* is a plausible slip in the definition after it; no
specification uses it.

### SubmissionPipeline

One submission: submissions share nothing that the pipeline reads. `request`
is the submit handler, `job` the BullMQ job (external: waiting, active, delayed,
completed, failed, its owner, attempts and stalls), `runs[r]` the r-th attempt
with its program point and next `sequenceId`, `log` the Redis list, `row` the
status, `handler` the worker's `failed` handler. An attempt's points are its
awaits, from the `running` `UPDATE` through load, execution, benchmarks,
criteria and the terminal `UPDATE`, with the `catch` block and the reset for a
busy service (429, 503). What goes wrong is counted: *faults* (a call that
rejects, before or after its effect where the code cannot tell), *crashes* of
the worker or the API, and *lock losses* (a second attempt beside the first).
`MaxTroubles` is the set of combinations allowed, each a record that says how
often, and up to how many benchmarks the milestone may then have.

`SubmissionLifecycle` is what a client that only reads the row may rely on:
accepted work is queued, run, perhaps queued again, and settles once. As long
as nothing goes wrong but a busy service the pipeline implements it
(`LifecycleSpec`, with the mapping `status <- row`, `tries <- job.attemptsMade`,
`reply <- replyNow`).

Assumed of Redis and BullMQ: a rejected `queue.add` has added nothing; the list
does not expire while an attempt runs.

### ExecutionService

The Go handler, `Execute` and the client. `handler[c]` is the handler of a call
with its program point, its work directory, the context of its phase and the
answer to be written; `child[c]` is the process it has started, which may run
for ever, and may leave others of its group behind: one that keeps its output
open (`held`), which is what `exec.Cmd.Run` waits for, or one that does not
(`left`). `Execute` kills the group only if its context is over (`KillGroup`);
what goes on otherwise is in `survivors`, as what a program left that had to be
killed (`"killed"`) or one that ended by itself (`"ended"`), until it ends
(`SurvivorsEnd`) or the machine does. `slots` counts the tokens of the semaphore.
Deadlines, lost connections, a shutdown that drains and one that does not may
come at any point. `Outcome` is what the processor makes of an answer. `fact[c]`
is a history variable: what became of the program itself. Exit code 1 stands
for every code but 0 and 2; the truncation of outputs, and processes that leave
their process group, are left out.

### EventStream

What the worker publishes for a submission is the constant `Feeds`; the
publisher's PUBLISH and RPUSH are two steps, and the submit route's `queued`
goes its own way. The stream handler is one record with its program point
(`lookup`, `range1`, `subscribe`, `attach`, `range2`, ...); a message on the
channel is handled between any two of its awaits once the listener is attached.
The browser is `useSSE` (Last-Event-ID, reconnection) and `useSubmitCode` (the
ids it has handled, the output it shows, which `queued` starts again).
Connections and Redis calls may break `MaxBreaks` times, at every await; a
connection that breaks during the look-up goes unnoticed, because the `close`
listener is attached after it (`stream.ts:136`). `MCEventStream` has three of
the feeds the pipeline can publish: a run that fails, with its criteria after
the terminal event; a run whose worker dies and is run again, so that the
numbers begin at 1 again, with an event that was never published, so that one is
missing; and a second such run, whose terminal event has a number the first
attempt had reached. A program that does not compile is the feed of
`EventStream_compileError`. Three premises of the properties name what the code
depends on: `Rising` (the list's numbers do not go back), `Gapless` (none is
missing) and `raced`, a history variable: an event fell between list and
channel, or a live message overtook the second replay. `EventuallyTold` has a
fourth: a terminal event whose number was not reached before (`Ends`). The
expiry of the list and a second submission in the same hook are not modelled.

### MilestoneCompletion

Extends `SubmissionPipeline`, in which nothing is rejected here, with what the
attempts evaluate (`verdict`), what the terminal `UPDATE` stores (`stored`), the
workspace (`browser`: the live submission and results, and the restored ones of
an earlier submission, which it mixes as `Workspace.tsx:177` does), and
`POST /:milestoneId/complete` with a step per statement (`posts`). Clicks, leaving,
coming back and lost requests come at any moment; the page the learner is sent
to afterwards, and its GET, are `page`. Events reach the workspace in the order
of the list; `EventStream` is about how.

### CircuitBreaker and TutorRequests

The breaker is a record and its methods are operators on it (`Looked`,
`Refuses`, `LetThrough`, `Opened`, ...). Calls are admitted, run, and report
later. Time is counted in units up to the longest wait, failures up to the
threshold: nothing compares larger values. `Endings` says how a call may end;
an "unreported" trial keeps its slot for ever.

`TutorRequests` is what uses it: requests of two kinds, streams (a chat message
or an intervention, which differ in who asks the question) and whole messages,
each a record with its program point in front of an await, what rows it has
stored, what its browser was told and whether its connection is open. The
limiter's two pipelines are two steps; entries of its window are their ages. A
stream that was opened has no handler any more: its listeners and timers are
actions (`StreamError`, `FinalMessage`, `Idles`, `Abort`, `Cleanup`), in any
order the browser and the API choose. A stream whose creation throws, after the
breaker has counted it, is answered 503 and the breaker is told nothing
(`CreationFails`, `CreationCaught`). Rejected calls of Redis and Postgres are
bounded by `MaxFaults`.

### StuckDetection and TutorPanel

`ui` is React state and the store now, `rendered` the values of the last render
and `before` those of the render whose effects ran last: an effect runs when its
dependencies differ between the two, with the values of `rendered`. Refs
(`stage2TriggeredRef`, `isStreamingRef`) are read now. A unit of time is long
compared with a render, and the interval callback may be late, so that stage 2
may come without stage 1. Thresholds are constants.

`TutorPanel` composes it with the panel it expands: the chat, whose hook is
unmounted with the panel, the intervention's request, whose hook stays, and the
probes that bring an unavailable tutor back. A token that cannot be had leaves
`isStreamingRef` set ("lost"). A refusal ends a request at once and says that the
tutor is unavailable when its body has been read (`refusal`, `RefusalRead`). What
a stream says, and the cache of messages, are
left out; what the requests do in the API is `TutorRequests`.

### CodeAutoSave

One milestone of a single file: the editor's content outlives the workspace, the
query cache goes stale, and the editor mounts after the workspace. A save is a
payload with its retries and a phase; a save of a closed page, or the save point
of a submission, goes on with nobody waiting (`blind`). Of the snapshots the
newest is kept: the one a workspace is restored from. `alone` is a history
variable: nothing else was being stored when the last save of this view began,
nor when the timer fired, and it went well.

### WorkSessions

The rows of one learner, used from one tab. A request is a handler with a
program point in front of each SQL statement. Row locks and READ COMMITTED are
modelled as far as the code's transaction needs them: an `UPDATE` takes its rows
from what is committed when it starts, waits for locked ones and looks at them
again, as the `SELECT ... FOR UPDATE` does with the row it has found (`Waited`):
neither sees a row inserted meanwhile; the partial unique index (one active
session per user and milestone) makes an `INSERT` wait for, or fail on, another.
INSERT and COMMIT are one step. `quiet` stands for fifteen minutes without a
snapshot, `worked` for having one: a session with one has a text to summarise,
one without may have one, by a submission that stored no snapshot. An `INSERT`
beyond `MaxSessions` rows fails. `ended_at` and the text of summaries are not
modelled. Two history variables delimit what the code can promise: `orderly`
(the requests that may insert a session did not overlap, and no create was lost)
and `clean` (nothing was under way when the workspace was opened).

### ContentCache

A file is a version number, and 0 is what a failed read leaves. A load reads a
milestone's files one by one into the Redis entry, or the brief into the tutor's,
or the template into memory; a reload reads the routing, resets the templates and
deletes the entries it listed. Entries expire, the process restarts, and calls
are rejected, all at any moment. `promised` is a history variable: what the
answered reloads had found on disk, for those that began with nothing else
under way.

## The runs

Every passing run checks deadlock as well.

| run | module | instance | states | what it shows |
|---|---|---|---|---|
| `SubmissionPipeline_troubles` | `MCSubmissionPipeline` | 2 attempts, 1 stall; two rejected calls, or one and a crash, or two crashes, or a lost lock; a benchmark in the first of these | 985,331 | row and events agree after at most one rejected call; a completed job has settled its row; a row left unsettled is one whose job BullMQ gave up; a completed row was announced; undisturbed, the row implements `SubmissionLifecycle`; everything comes to rest; accepted work settles and stays settled |
| `ExecutionService_cuts` | `ExecutionService` | 2 calls, 1 slot, 2 cuts | 169,742 | a slot is held exactly while a handler is under way that took it, whatever way it goes out; no directory outlives its request, and no process of a program that had to be killed; answers are true of the program; every call ends |
| `EventStream_breaks` | `MCEventStream` | three feeds, two breaks anywhere | 481,501 | no event twice or out of order unless the numbers went back; none skipped and none wiped from the output but in the cases named; a closed stream leaves neither subscription nor timer; the browser is told the end, if its number was not reached before |
| `MilestoneCompletion_clicks` | `MCMilestoneCompletion` | 2 attempts, 1 benchmark, 2 posts, an earlier submission or none | 693,582 | a completion is earned, and stays as the first made it; a button the stream made appear is kept; at most one terminal event, and benchmarks stored only for a completed row; a learner who insists completes |
| `TutorRequests_late` | `MCTutorRequests` | 2 requests, limit 1, threshold 2, 1 trial, waits 1 to 2, 1 rejected call | 351,178 | a closed circuit has forgotten the outage; trials are spaced; the limit is exceeded only by requests under way together; rows agree with replies; every request ends; the breaker recovers |
| `TutorPanel_open` | `TutorPanel` | threshold 2, offset 1 | 422,404 | two requests for help are a full wait apart; an inactive learner with an open panel and an available tutor gets stage 2 handled; an unavailable tutor comes back; the input is not lost |
| `CodeAutoSave_alone` | `MCCodeAutoSave` | 2 saves, 1 text beside the starter code, 1 retry | 1,062,050 | once saving has come to rest the newest snapshot is what the editor shows; a learner who stops is saved |
| `WorkSessions_lapses` | `MCWorkSessions` | 2 milestones, 2 requests under way, 2 sessions | 239,322 | only ended sessions are summarised; one active session while orderly; a clean workspace knows an active session; abandoned sessions end; the last one is summarised |
| `ContentCache_reloads` | `ContentCache` | 1 file of a milestone, 1 load, 2 reloads, 1 change, 1 rejected call | 844,180 | an undisturbed reload takes effect; the caches that expire catch up by themselves, the others with the next reload |

Three runs check a statement of the repository's documents that the code does
not keep. TLC finds a counterexample to each:

| run | statement | what happens |
|---|---|---|
| `EventStream_compileError` (`CompileErrorEnds`) | a terminal event follows `compile_error` (story 3.7) | nothing terminal is published for a program that does not compile: the route ends the stream once the row has settled, the browser takes that for a broken connection and reconnects for ever |
| `ExecutionService_panic` (`CompileErrorsDoNotCompile`) | exit code 2 is a compilation failure, any other but 0 a runtime failure (story 11.2) | a Go program that panics exits with 2 and is reported as one that does not compile |
| `CodeAutoSave_unload` (`NeverBlanked`) | no work is lost when the tab is closed (story 5.1) | before the editor has mounted, `beforeunload` saves the store's initial content over the snapshot |

### Why these bounds

The pipeline's code tells apart the first attempt, a later one and the last: two
attempts and one stalled re-run have each. Two troubles suffice for one to hit
the handling of the other. A lost lock has to come alone: two attempts at once
square the states; so does a benchmark, which is left out where a crash is
allowed. In `MilestoneCompletion_clicks` two attempts are a busy service and a
second try, two requests a double click. Two breaks let a connection fail while
it repairs another; two attempts are enough for numbers that go back, and two or
three events in each for one that is missing or hidden. In
`ExecutionService_cuts` two calls for one slot have one refused while the other
is under way, and two cuts a lost connection and a stop; what a program leaves
behind goes on beside the next call for the slot. In `TutorRequests_late` two
requests for a limit of one can pass the limiter together; one reports late
while the other is the trial; a threshold of 2 is a count that can be reset half
way. `TutorPanel_open` has a threshold of two units and an offset of one, so
that the stages differ and time may pass in either. In `CodeAutoSave` two saves
are one that is under way and one that overtakes it; a text, the starter code
and the blank editor make an edit and its undoing. In `WorkSessions` two
requests are every pair of statements interleaved, and two sessions are a latest
and an older one. In `ContentCache_reloads` two reloads and a load are all pairs
of the processes that write a cache; one change makes an old and a new version,
and one file of a milestone is enough because a load reads each in a step of its
own and no property relates two.

In the modules with theorems the safety properties named below are proved
without these bounds. For every property `PROJECT.json` names a mutant that
breaks it under the bounds of its run: they are large enough for it to be at
stake.

### Fairness

Weak fairness is assumed only of what a machine keeps doing: the event loops of
browser, API and worker run what is ready; BullMQ delivers, fires backoffs and
finds stalled jobs; deadlines come; timers fire, entries expire, React renders
and runs effects, time passes; a browser that lost its stream reconnects.
Nothing is assumed of learners and administrators: that one stops typing, keeps
the panel open, asks, clicks, reloads or looks at the overview again and again,
is a premise of the property that needs it, and so is that from some moment on
calls no longer fail where retries are bounded (`EventuallySaved`,
`RecoversWhenAsked`, `BackWhenHealthy`, `Completes`, `OnlyLooks`). Nor is any
process assumed to end: `EveryCallEnds` has the one exception the code has, a
program that leaves a process behind which keeps its output open. A step of
`WorkSessions` counts as a failure there only if the handler itself could not
have made it (`Failure`): the loss of a request that had nothing left to do is
no loss.

## The proofs

| theorem | module | for every |
|---|---|---|
| `TypeCorrect`: `Spec => []TypeOK` | `SubmissionPipeline_proofs` | number of attempts, stalls, benchmarks and troubles |
| `CompletedAnnounced`: `Spec => []CompletedWasAnnounced` | same | same |
| `AttemptSeqOrdered`: `Spec => []AttemptSeqIncreases` | same | same |
| `CompletedJobSettles`: `Spec => []CompletedJobSettlesRow` | same | same |
| `UnsettledOnlyIfFailed`: `Spec => []UnsettledOnlyIfJobFailed` | same | same |
| `RowAgreesWithEvents`: `Spec => []SettledRowAgreesWithEvents` | same | same |
| `AtMostOneTerminalEvent`: `Spec => []OneTerminalEvent` | same | same |
| `ImplementsLifecycle`: `Spec => LifecycleSpec`, the refinement of `SubmissionLifecycle` | same | same |
| `MilestoneIsEarned`, `OfferIsKept`, `CompletionIsFinal`: `CompletionIsEarned`, `OfferKept` and `CompletionStands` of `CompletionSpec` | same | same, and set of requests and earlier submissions |
| `CourseFollowsPipeline`: `CompletionSpec => Init /\ [][Next]_vars`, `CourseToldOnce` | same | same |
| `NothingIsKept`: `Spec => []NothingKept` | `ExecutionService_proofs` | set of calls, number of slots and cuts |
| `AtMostMaxConcurrent`: never more handlers that compile or run than slots | same | same |
| `AnswersAreTrue`: `Spec => []AnswersTell` | same | same |
| `StreamTypeCorrect`, `StreamsLeakNothing` (`NothingLeaks`) | `EventStream_proofs` | set of feeds whose attempts number their events upwards, number of breaks |
| `OutputIsKept`, `NothingIsToldTwice`, `NothingIsSkipped`: `OutputKept`, `NeverTwice`, `NoEventSkipped` | same | same |
| `TypeCorrect`, `ClosedFresh`, `Spaced` (of the breaker) | `TutorRequests_proofs` | set of calls, thresholds, waits and endings, the unreported one included |
| `ImplementsBreaker`: `RequestsSpec => Spec` | same | set of requests, limit, window and number of rejected calls |
| `RoutesClosedFresh`, `RoutesTrialsSpaced` | same | same |
| `RequestsTypeCorrect`, `RowsAgree`: `RequestsSpec => []RowsAgreeWithReplies` | same | same |
| `OvershootBounded`: `RequestsSpec => []BoundedOvershoot` | same | same |
| `Patient`: `Spec => NoNagging` | `TutorPanel_proofs` | threshold and offset |
| `ImplementsDetection`: `PanelSpec => Spec`, `PanelPatient`, `PanelTypeCorrect` | same | same |
| `TypeCorrect`, `RestSaved`: `Spec => []RestIsSaved` | `CodeAutoSave_proofs` | set of saves and texts, number of retries |
| `TypeCorrect`, `SummariesOver`, `OneActiveSession`, `WorkspaceKnows` | `WorkSessions_proofs` | set of milestones and requests, number of sessions |
| `CacheTypeCorrect`, `ReloadsTakeEffect`: `Spec => []ReloadTakesEffect` | `ContentCache_proofs` | set of files, loads and reloads, number of changes and rejected calls |

So every safety invariant and every action property that a passing run checks is
a theorem, too; of the temporal properties, the refinement and what is an action
property are.

They rest on the named assumptions of the modules (`PipelineAssumption`,
`CompletionAssumption`, `ServiceAssumption`, `StreamAssumption`,
`BreakerAssumption`, `RequestsAssumption`, `StuckAssumption`,
`AutoSaveAssumption`, `SessionsAssumption`, `ContentAssumption`), which TLC
evaluates in every run of the module.

**Pipeline.** That a completed row was announced is not inductive: the `UPDATE`
comes after the publish, and crashes, faults and a second attempt may come
between. `IInv` adds that an attempt in front of that `UPDATE` has published
`complete` (`AboutToComplete`) and nothing is ever taken out of the list. For the
order of ids it adds that an attempt's counter is ahead of all it has logged
(`SeqAhead`), which holds because `sequenceId++` is evaluated before the publish
that may fail. `AttemptsLeft` keeps the types.

What is said of settled rows needs to know how far the whole has come, and the
more so the less has gone wrong: `Story` has a part for each. Without a lost lock
a live attempt owns the job (`SoleAttempt`), so that there is one at a time; what
the submit route and the `failed` handler have done fits the job's state
(`JobHistory`), and an attempt about to return has settled the row
(`SettlesBeforeReturning`). With at most one rejected call (`MildStory`) the last
terminal event is `complete` exactly from the publication to the end of an
attempt that completes the row, and an attempt in the `catch` block has had the
one rejected call. With none
(`QuietStory`) nothing terminal was told before an attempt's last steps, and each
point says which outcome its program had. An attempt that has not begun has no
outcome (`IdleIsFresh`), which a new attempt needs. A step of an attempt changes
one run, the log by one event and the row by one `UPDATE`; a lemma about each of
these kinds carries all parts of `Story`, and the actions cite it.

`ImplementsLifecycle` maps each step while nothing goes wrong: `Reject`,
`InsertRow` and `Enqueue` are `Refuse`, `Store` and `Accept`, `Claim` is `Start`,
a terminal `UPDATE` is `Settle`, `RetryLater` is `Requeue`, `JobThrew` is `Charge`,
`FailedHandler` is `GiveUp`, everything else stutters. That `Claim` finds the row
queued, and a terminal `UPDATE` finds it running, is where `QuietStory` is used:
a terminal `UPDATE` has no guard, and `Claim` goes on if its own fails.

**Completion.** A step of the course is a step of the pipeline, or of the
workspace and the route, which leave it alone (`CourseFollowsPipeline`): the
pipeline's invariants hold there too. `CompletionStory` adds that while nothing
has gone wrong an attempt whose criteria were met has a program that ran to its
end, and either owns the job in front of the row's `UPDATE` or has stored the
result (`MetRun`), so `stored = "met"` and `completed` come together and nothing
undoes them; and that a request past the check, like the milestone, cites a
submission that meets it (`CitesEarned`). `CompletionIsFinal` needs only that the
index refuses a second row.

**Execution service.** `IInv` counts: the tokens are as many as the handlers
that have taken one (`Holding`), a finite set that every step leaves alone or
changes by one, so the lemmas about cardinalities are cited in three steps only.
`PhaseInv` says for each program point what is kept and what is known of the
program: which deadline has come, whether the context knows, what an exit code
stands for. From it follows that the answer about to be written is true
(`TrueOutcome`), hence what the processor makes of it; and that the context of a
process which was killed is over when `Run` has returned, so that its group is
killed and no survivor is of that kind (`OnlyEnded`). A step concerns one call,
and `StepKeeps` reduces the invariant to that call, so there is one lemma per
action.

**Event stream.** Each part of `StreamInv` rests on those before it. `Flags`
says at which awaits there is a subscription or a timer: from it follows
`NothingLeaks`, whose danger is an `await` during which the stream was closed.
`FreshConnection` and `QueuedOnce` say that nothing is on the wire before the
first replay, and `queued` only once and, if it came first in the list, first
there too. `Ordered` bounds by the handler's `highestSequenceId` what is on the
wire and what the browser has handled, per attempt and, while the numbers rise,
across them; `NeverTwice` follows. `NoEventSkipped` needs
the most: if no race has happened and no number is missing (`NoneMissing`),
everything up to the highest id is on the wire or handled (`NoneDropped`), the
channel carries nothing ahead of the list (`NoneAhead`), and what the handler
will replay next is what is missing. Its lemmas about the operators (`NthIs`:
the positions a filter keeps, `Kept`, `Replay`, the highest number of a
sequence) are proved from the library's facts about finite sets, by pigeonhole
instead of induction.

**Breaker.** `ClosedFresh` and `Spaced` follow from `IInv`, which adds
`TrialBeforeFailure`: how the time since the last trial compares with the time
since the last failure, without which a late failure might let a trial follow
another too soon. The methods are treated once, as operators on a record, in
lemmas the steps cite.

**Tutor routes.** They implement the breaker: every step is one of the breaker's
or leaves it alone, so what is proved of the breaker holds of the routes.
`RowsAgree` is about one request at a time: `Consistent` says at each point
which rows and replies are possible, in particular that an answer whose row is
missing was told before a call of that request was rejected.
`OvershootBounded` needs that the entries of the window and the requests between
the two pipelines are together less than the limit and the requests
(`WindowBound`): a request that goes on to add has counted a window that was not
full.

**Stuck detection and panel.** `Patient` needs that a stage 2 which could still
trigger a request, in the state or in a render whose effects have not run, is a
full wait after the last request (`Stage2IsFresh`), and that the ref is cleared
only together with the timer (`ClearedWithTimer`). The panel's steps are steps
of stuck detection or leave its state alone, so `NoNagging` carries over.

**Auto-save.** `RestIsSaved` speaks of a moment when nothing is under way; it
becomes inductive by what holds of the one save that may be under way while
`alone`: it is of this view, carries what the editor showed when the timer
fired, and once stored it is the newest snapshot.

**Sessions.** `SummaryOfEnded` needs that a handler about to summarise has a
session that is over, and one that collects has rows that exist, together with
the fact that no step takes an end back (`RowsGoOn`). `OneActive` needs the state
of the requests: one of them inserts, it is the open workspace's, its `UPDATE`
holds every active session (`AllLocked`), and what a save or an unanswered
workspace finds is of its own milestone. `KnownIsActive` needs that all that is
under way is the workspace's own, that one request asks, and that a reply under
way names an active session. Each invariant has three lemmas about kinds of
steps (aside, going on, beginning), and every action is one of the kinds.

**Caches.** `ReloadTakesEffect` speaks of the moment after an undisturbed reload
has answered; the proof follows its promise from the beginning. A reload that
begins with nothing under way notes the versions on disk; from then on the files,
whatever any load or reload reads, and the template are not older than that, or
are empty (`Honoured`); the routing is not once the reload is past its check
(`RoutingHonours`), and the entry is not when it is about to answer
(`EntryHonours`). `Promises` says so of every reload under way and of what was
promised last; a load that began before is excluded because the reload noted the
versions only if there was none.

Only model-checked: every liveness property, since the prover does not reach
`ENABLED` (`EventuallySettled`, `AcceptedStaysSettled`, whose safety half is in
`ImplementsLifecycle`, `EveryCallEnds`, `EventuallyTold`, `Completes`,
`EveryRequestEnds`, `RecoversWhenAsked`, `HelpWhenOpen`, `BackWhenHealthy`,
`InputReturns`, `EventuallySaved`, `AbandonedEnds`, `LatestSummarised`,
`ContentCatchesUp`, `PromptsCatchUp`); and the bound of `ContentTypeOK` on the
versions, a fact about the sum that stops `Publish`, which would need induction
(`CacheTypeOK` is the rest of it).

## What the code does not keep, beside the three runs

Met while modelling. Where a property of a run would contradict the code, it is
stated with the premise that excludes the case, and TLC finds the case when the
premise is dropped.

- The `status = 'queued'` guard is meant to prevent "resurrection of failed
  submissions on retry" (story 3.3, line 651), but only the `running` update has
  it (`execution-processor.ts:480` has none): a re-run after a crash completes a
  row that had failed. `LifecycleSpec`, in which a row settles
  once, and `AcceptedStaysSettled` therefore exclude troubles.
- A second `LRANGE` "eliminates the race window entirely" (story 3.4, line 196):
  a live message handled while it is awaited raises the highest id, and the
  replay drops what it was to deliver (`stream.ts:219`); and an event between its
  PUBLISH and its RPUSH is in neither. `NoEventSkipped` excludes both (`raced`).
- `queued` is not always the first event: it is sent without being awaited
  (`submit.ts:152`; story 3.4, line 296). `OutputKept` says so.
- The criteria that follow the `error` of a failed run never reach a browser
  that has closed its stream on that event (`execution-processor.ts:339`).
- A re-run numbers its events from 1 again (`execution-processor.ts:114`; story
  3.4, line 19), so a browser that saw the first attempt takes them as seen. Its
  Last-Event-ID goes back with them: after the next reconnection the route sends
  again what was handled, and only the hook's own set of ids drops it.
  `NeverTwice` excludes it (`Rising`).
- The terminal event of such a re-run may have a number its first attempt had
  reached: the route (`stream.ts:219`) and the browser (`use-submit-code.ts:124`)
  drop it, and the learner is not told the end. `EventuallyTold` excludes it
  (`Ends`).
- A program that exits by itself may leave processes of its group behind, which
  run on beside the program the slot is given to next: the group is killed only
  when the context is over (`executor.go:223`, `:284`). Story 11.1, line 117, and
  `docs/integration-architecture.md:130` promise a kill on a timeout, which
  `NothingKept` says, of lost connections too.
- A rejected publish leaves a number missing (`execution-processor.ts:114`
  counts before it sends), which nobody downstream can tell from an event that
  is still to come. `NoEventSkipped` excludes it (`Gapless`).
- A permanently failed job is not announced: the `failed` handler updates the row
  only (`worker.ts:75`; story 3.3, line 23, has an event).
- Several trials may be under way in a half-open circuit
  (`circuit-breaker.ts:158`; story 6.6, line 27), and a trial that is aborted
  keeps its slot, after which the circuit is half-open for ever
  (`circuit-breaker.ts:95`), while `/health` says the tutor is available. Story
  6.6, line 21, and `docs/integration-architecture.md:163` have it recover by
  itself. `RecoversWhenAsked` excludes it (`Jammed`).
- An intervention whose token cannot be had leaves `isStreamingRef` set
  (`use-stuck-intervention.ts:51`): every later one is refused and the input is
  disabled as long as the workspace is open. `InputReturns` excludes it.
- Stage 2 never opens a collapsed panel: the dismiss effect counts it as a
  dismissal (`Workspace.tsx:122`; story 6.4, line 16).
- A reload (story 10.5, line 73) never invalidates the tutor's own caches of
  brief and explainers, which only expire; and a load under way refills what it
  deleted. `ReloadTakesEffect` is about the caches a reload does touch, with
  nothing under way.
- After a completion the workspace goes to the completion page of the *next*
  milestone (`Workspace.tsx:170`; story 4.4, line 196, has the one completed),
  whose GET answers 404 unless that one was completed earlier: the learner is
  told "Failed to load completion data" (`page = "notFound"`).
- A workspace opened again is filled from a query cache older than the last save
  (`use-workspace-data.ts:71`; story 5.2, line 15, has the newest snapshot).
- A learner may have two active sessions (`sessions.ts:73`, `auto-save.ts:56`;
  story 5.1, line 576), and a workspace may know one that is over, when requests
  overlap: `OneActive` and `KnownIsActive` are stated with that excluded
  (`orderly`, `clean`).

## What is not modelled, and why

- **Account**: export, deletion, onboarding, profile, skill assessment. All but
  two routes are single statements; an export job against the deletion of the
  account would be the next module to write.
- **Calculations**: criteria, benchmark statistics, trajectories, summaries. They
  are pure and their unit tests reach them; as operators they would restate
  them.
- **What the tutor's prompts, histories and texts say**, the routing of models, the
  counters of its metrics.
- **Multi-file workspaces** in `CodeAutoSave`, the `ended_at` of sessions, the
  expiry of the Redis list, a second submission from the same hook.
- **Rendering, the website, authentication** (a library checks tokens),
  **configuration files, read-only queries**: they keep nothing that the other
  components depend on.

Worth doing next: `EventStream` fed by the pipeline itself instead of `Feeds`, so
that crashes reach the browser; the account's export against its deletion.

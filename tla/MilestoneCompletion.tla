-------------------------- MODULE MilestoneCompletion --------------------------
(***************************************************************************)
(* From a submission whose criteria are met to the milestone's completion: *)
(* the pipeline of SubmissionPipeline, the criteria it evaluates, sends    *)
(* and stores, the workspace that offers "Complete Milestone"              *)
(* (useSubmitCode, Workspace), and POST /:milestoneId/complete.            *)
(*                                                                         *)
(* The workspace may also know an earlier submission, restored by GET      *)
(* /resume, and it mixes the two: see Offered.  The event stream delivers  *)
(* the log in order (EventStream says how).  What a rejected UPDATE may    *)
(* have stored is left out: it is SubmissionPipeline's subject, and what   *)
(* is said here of a submission, it is said while nothing goes wrong.      *)
(***************************************************************************)
EXTENDS SubmissionPipeline, FiniteSetsExt

CONSTANTS
  Posts,    \* POST /complete requests that may be under way together
  Earlier   \* what the learner's earlier submission may have come to

ASSUME CompletionAssumption == Earlier \subseteq {"none", "unmet", "met"}

VARIABLES
  verdict,    \* criteriaResultsJson of each attempt: do the criteria hold?
  stored,     \* submissions.criteria_results of the submission
  earlier,    \* the same of the learner's earlier completed submission
  browser,    \* the workspace: see Fresh
  page,       \* where the learner is
  posts,      \* each of Posts: its handler
  milestone   \* the submission that user_milestones cites

completionVars == <<verdict, stored, earlier, browser, page, posts, milestone>>
courseVars == <<vars, completionVars>>

\* Without criteria, or without a submission, there are no results.
Results == {"none", "unmet", "met"}

\* A mounted workspace.  id: submissionId, "pending" where the 202 is awaited.
\* shown: criteriaResults.  read: the last event of the log with criteria that
\* was delivered.  restored: restoredSubmissionId and restoredCriteria.
Fresh(id, restored) == [id |-> id, shown |-> "none", read |-> 0, restored |-> restored]

NoPost == [at |-> "idle", id |-> "none"]

\* GET /resume: the latest completed submission.
Resume ==
  IF row = "completed" THEN [id |-> "live", results |-> stored]
  ELSE [id |-> "earlier", results |-> earlier]

CompletionInit ==
  /\ Init
  /\ verdict = [r \in Runs |-> "none"]
  /\ stored = "none"
  /\ earlier \in Earlier
  /\ browser = Fresh("pending", [id |-> "earlier", results |-> earlier])
  /\ page = "workspace"
  /\ posts = [p \in Posts |-> NoPost]
  /\ milestone = "none"

-----------------------------------------------------------------------------
(* The pipeline, and what it does with the criteria. *)

\* The attempt r sends criteria_results in this step.
Evaluates(r) ==
  /\ Len(log') > Len(log)
  /\ log'[Len(log')].type = "criteria_results"
  /\ log'[Len(log')].attempt = r

\* evaluateCriteria for a program that ended well, evaluateAllNotMet otherwise.
Verdicts(r) == IF runs[r].outcome = "success" THEN {"met", "unmet"} ELSE {"unmet"}

\* The UPDATE that settles the row stores them, too.
Stores(r) == runs[r].at \in {"failTimeout", "failUser", "completeRow"} /\ runs'[r].at = "expire"

\* Mutant: the results are stored for a failed submission only.
StoredOnFailure ==
  stored' = IF \E r \in Runs : Stores(r) /\ row' = "failed" THEN "unmet" ELSE stored

StoredNow ==
  stored' = IF \E r \in Runs : Stores(r) /\ verdict[r] # "none"
            THEN verdict[CHOOSE r \in Runs : Stores(r)] ELSE stored

PipelineStep ==
  /\ Next
  /\ \/ (\A r \in Runs : ~ Evaluates(r)) /\ UNCHANGED verdict
     \/ \E r \in Runs : /\ Evaluates(r)
                       /\ \E v \in Verdicts(r) : verdict' = [verdict EXCEPT ![r] = v]
  /\ StoredNow
  /\ UNCHANGED <<earlier, browser, page, posts, milestone>>

-----------------------------------------------------------------------------
(* The workspace. *)

\* The 202 reaches the workspace that submitted, which opens the stream.
Accepted ==
  /\ page = "workspace" /\ request = "accepted"
  /\ browser.id = "pending"
  /\ browser' = [browser EXCEPT !.id = "live"]
  /\ UNCHANGED <<vars, verdict, stored, earlier, page, posts, milestone>>

\* handleSSEEvent, for the next event with criteria: dropped if an event before
\* it had its number or a higher one.
Hear ==
  LET Criteria == {i \in DOMAIN log : i > browser.read /\ log[i].type = "criteria_results"}
      i == Min(Criteria)
      new == \A j \in 1 .. i - 1 : log[j].seq < log[i].seq IN
  /\ browser.id = "live" /\ Criteria # {}
  /\ browser' = [browser EXCEPT !.read = i,
                                !.shown = IF new THEN verdict[log[i].attempt] ELSE @]
  /\ UNCHANGED <<vars, verdict, stored, earlier, page, posts, milestone>>

\* effectiveCriteriaResults and effectiveSubmissionId: each is the live one or,
\* failing that, the restored one.
EffectiveResults == IF browser.shown # "none" THEN browser.shown ELSE browser.restored.results
EffectiveId == IF browser.id = "live" THEN browser.id ELSE browser.restored.id

Offered == page = "workspace" /\ EffectiveResults = "met"

\* The learner goes somewhere else, and comes back: the workspace mounts again,
\* with what GET /resume says now or said before (staleTime).
Leave ==
  /\ page = "workspace"
  /\ page' = "overview"
  /\ browser' = Fresh("none", browser.restored)
  /\ UNCHANGED <<vars, verdict, stored, earlier, posts, milestone>>

Revisit ==
  /\ page # "workspace"
  /\ page' = "workspace"
  /\ \E restored \in {Resume, browser.restored} : browser' = Fresh("none", restored)
  /\ UNCHANGED <<vars, verdict, stored, earlier, posts, milestone>>

-----------------------------------------------------------------------------
(* POST /:milestoneId/complete. *)

PostGoes(p, from, to) ==
  /\ posts[p].at = from
  /\ posts' = [posts EXCEPT ![p] = [at |-> to, id |-> IF to \in {"existing", "insert"} THEN @.id ELSE "none"]]

postUnchanged == UNCHANGED <<vars, verdict, stored, earlier, browser>>

\* handleCompleteMilestone: the button is not disabled while a request is under
\* way.
Click(p) ==
  /\ Offered
  /\ posts[p].at = "idle"
  /\ posts' = [posts EXCEPT ![p] = [at |-> "lookup", id |-> EffectiveId]]
  /\ postUnchanged /\ UNCHANGED <<page, milestone>>

\* Mutant: only the results are looked at, not the submission's status.
EarnedByResults(id) ==
  IF id = "live" THEN stored = "met" \/ \E r \in Runs : verdict[r] = "met" ELSE earlier = "met"

\* The submission is completed and all its criteria are met.
Earned(id) ==
  IF id = "live" THEN row = "completed" /\ stored = "met" ELSE earlier = "met"

Lookup(p) ==
  /\ PostGoes(p, "lookup", IF Earned(posts[p].id) THEN "existing" ELSE "idle")
  /\ postUnchanged /\ UNCHANGED <<page, milestone>>

Existing(p) ==
  /\ PostGoes(p, "existing", IF milestone = "none" THEN "insert" ELSE "next")
  /\ postUnchanged /\ UNCHANGED <<page, milestone>>

\* Mutant: no unique index, so a second row is inserted and found first.
InsertAnyway(p) ==
  /\ PostGoes(p, "insert", "next")
  /\ milestone' = posts[p].id
  /\ postUnchanged /\ UNCHANGED page

\* The unique index (user_id, milestone_id) rejects the second INSERT: a 500.
Insert(p) ==
  /\ PostGoes(p, "insert", IF milestone = "none" THEN "next" ELSE "idle")
  /\ milestone' = IF milestone = "none" THEN posts[p].id ELSE milestone
  /\ postUnchanged /\ UNCHANGED page

\* The reply, after the lookup of the next milestone: the workspace goes on to
\* the completion page of that one, or to the overview after the last.
Answer(p) ==
  /\ PostGoes(p, "next", "idle")
  /\ page' \in {"nextCompletion", "overview"}
  /\ browser' = Fresh("none", browser.restored)
  /\ UNCHANGED <<vars, verdict, stored, earlier, milestone>>

\* The network or the database fails, before or after the statement.  Errors
\* change nothing in the workspace.
PostFails(p) ==
  /\ \E from \in {"lookup", "existing", "insert", "next"} : PostGoes(p, from, "failed")
  /\ milestone' \in {milestone} \cup
       (IF posts[p].at = "insert" /\ milestone = "none" THEN {posts[p].id} ELSE {})
  /\ postUnchanged /\ UNCHANGED page

AnswerFailure(p) ==
  /\ PostGoes(p, "failed", "idle")
  /\ postUnchanged /\ UNCHANGED <<page, milestone>>

\* GET /:milestoneId, for the page of the milestone that follows, again on Retry:
\* a 404, unless the learner has completed that one, too.
ShowCompletion ==
  /\ page \in {"nextCompletion", "notFound"}
  /\ page' \in {"completion", "notFound"}
  /\ UNCHANGED <<vars, verdict, stored, earlier, browser, posts, milestone>>

\* handleContinue
Continue ==
  /\ page = "completion"
  /\ page' = "overview"
  /\ UNCHANGED <<vars, verdict, stored, earlier, browser, posts, milestone>>

Post(p) == Lookup(p) \/ Existing(p) \/ Insert(p) \/ Answer(p) \/ AnswerFailure(p)

CompletionNext ==
  \/ PipelineStep
  \/ Accepted \/ Hear \/ Leave \/ Revisit \/ ShowCompletion \/ Continue
  \/ \E p \in Posts : Click(p) \/ Post(p) \/ PostFails(p)

\* The pipeline goes on, wherever (its steps are finitely many, so this is no
\* more than its own fairness); handlers take their steps.
CompletionFairness ==
  /\ WF_vars(Submit \/ BackoffElapsed \/ FailedHandler \/ \E r \in Runs : Queue(r) \/ Process(r))
  /\ \A p \in Posts : WF_courseVars(Post(p))

CompletionSpec == CompletionInit /\ [][CompletionNext]_courseVars /\ CompletionFairness

-----------------------------------------------------------------------------
(* Properties. *)

\* A milestone is completed by a submission that is completed itself and whose
\* criteria were all met, whatever the learner clicks, leaves and comes back
\* to while the pipeline works on it, and it stays so.
CompletionIsEarned ==
  /\ milestone = "earlier" => earlier = "met"
  /\ (milestone = "live" /\ troubles = NoTroubles) => row = "completed" /\ stored = "met"

\* Two requests at a time, or one sent again after its reply was lost, leave
\* the completion as the first of them made it.
CompletionStands == [][milestone # "none" => milestone' = milestone]_courseVars

\* Results come before the row that makes them count, but not in vain: once the
\* pipeline is at rest, a button that the stream of the submission made appear
\* is one the route accepts.
OfferKept ==
  (troubles = NoTroubles /\ Settled /\ browser.shown = "met") => Earned("live")

\* A learner who sees the criteria met, stays and clicks again and again
\* completes the milestone, however early the first clicks were refused.
Completes ==
  (/\ [](troubles = NoTroubles)
   /\ <>[](page = "workspace" /\ browser.shown = "met")
   /\ []<><<\E p \in Posts : Click(p)>>_courseVars
   /\ <>[][~ \E p \in Posts : PostFails(p)]_courseVars)
  => <>(milestone # "none")
=============================================================================

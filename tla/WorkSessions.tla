----------------------------- MODULE WorkSessions -----------------------------
(***************************************************************************)
(* The work sessions of one learner: rows of the table sessions that       *)
(* snapshots, tutor messages and summaries belong to.  The workspace asks  *)
(* for one when it opens and ends it when it is left; auto-save makes one  *)
(* when it finds none; the overview ends those that have been quiet for    *)
(* fifteen minutes and writes the summaries that are missing.              *)
(*                                                                         *)
(* A request is a handler of the API process, one action per database      *)
(* statement.  Postgres runs at READ COMMITTED: a transaction's writes are *)
(* seen when it commits, an UPDATE takes its rows from what is committed   *)
(* when it starts, waits for those another transaction has locked, and     *)
(* looks at them again.  The INSERT of a transaction and its COMMIT are    *)
(* one action: nothing else of it comes between.                           *)
(*                                                                         *)
(* One tab of the web app; any save may be long on its way.  Session ids   *)
(* are given in the order of started_at.                                   *)
(***************************************************************************)
EXTENDS Integers, FiniteSets

CONSTANTS
  Milestones,
  Current,      \* the milestone the overview is about
  Requests,     \* ids of the requests under way together: a bound
  MaxSessions,  \* bound: rows ever inserted
  Overview,     \* the view that is no workspace
  None

ASSUME SessionsAssumption ==
  /\ Current \in Milestones
  /\ {Overview, None} \cap Milestones = {}
  /\ None \notin Requests
  /\ MaxSessions \in Nat

VARIABLES
  session,    \* the rows: milestone, state, and what the properties ask of them
  summaries,  \* the sessions that have a row in session_summaries
  request,    \* the handlers
  view,       \* the milestone whose workspace is open, or Overview
  asked,      \* the request of the open workspace whose reply is awaited
  known,      \* sessionIdRef of the open workspace
  clean,      \* history: nothing was under way when the workspace was opened
  orderly     \* history: requests that may insert a session never overlapped,
              \* and no request for a workspace's session was lost

client == <<view, asked, known, clean>>
vars == <<session, summaries, request, orderly, client>>

NoSession == 0
Sessions == 1 .. MaxSessions

\* worked: it has a snapshot.  quiet: active, and neither a snapshot nor the
\* start is less than STALE_SESSION_THRESHOLD_MS ago.
NoRow == [milestone |-> None, state |-> "none", worked |-> FALSE, quiet |-> FALSE]
Row(m) == [milestone |-> m, state |-> "active", worked |-> FALSE, quiet |-> FALSE]

IsActive(s) == session[s].state = "active"
Active == {s \in Sessions : IsActive(s)}
ActiveOf(m) == {s \in Active : session[s].milestone = m}

\* A handler: the statement it is about to run, its milestone and session, the
\* sessions it has collected or locked, and where a summary returns to.
Free == [at |-> "idle", milestone |-> None, target |-> NoSession, rows |-> {}, then |-> "idle"]
Handler(at, m, s) == [Free EXCEPT !.at = at, !.milestone = m, !.target = s]

InserterPoints ==
  {"find", "recheck", "wait", "deactivate", "lock", "insert", "winner", "reply",
   "saveFind", "saveInsert", "snapshot"}
CreatePoints == {"find", "recheck", "wait", "deactivate", "lock", "insert", "winner", "reply"}

At(r, point) == request[r].at = point
UnderWay == {r \in Requests : ~At(r, "idle")}
Inserters == {r \in Requests : request[r].at \in InserterPoints}

\* Only a transaction in front of its INSERT holds row locks.
Locked(s, r) == \E q \in Requests \ {r} : At(q, "insert") /\ s \in request[q].rows

Init ==
  /\ session = [s \in Sessions |-> NoRow]
  /\ summaries = {}
  /\ request = [r \in Requests |-> Free]
  /\ view = Overview /\ asked = None /\ known = NoSession
  /\ clean = TRUE /\ orderly = TRUE

Unused == {s \in Sessions : session[s].state = "none"}
NextId(s) == s \in Unused /\ \A t \in Unused : s <= t

\* The bound on the rows: nothing that may insert one is sent when none is left,
\* and an INSERT that finds none left fails.
Room == Unused # {}

-----------------------------------------------------------------------------
(* The web app. *)

\* The workspace of m mounts and asks for its session (useSession).
Enter(m) ==
  /\ view = Overview /\ Room
  /\ \E r \in Requests \ UnderWay :
       /\ request' = [request EXCEPT ![r] = Handler("find", m, NoSession)]
       /\ asked' = r
  /\ view' = m /\ known' = NoSession
  /\ clean' = (UnderWay = {})
  /\ orderly' = (orderly /\ Inserters = {})
  /\ UNCHANGED <<session, summaries>>

\* An auto-save, sent at any time while the workspace is open.
Save ==
  /\ view # Overview /\ Room
  /\ \E r \in Requests \ UnderWay :
       request' = [request EXCEPT ![r] = Handler("saveFind", view, NoSession)]
  /\ orderly' = (orderly /\ Inserters = {})
  /\ UNCHANGED <<session, summaries, client>>

\* endSession does nothing before the reply with the session's id has come.
Ending(requests) ==
  IF known = NoSession
  THEN request' = requests
  ELSE \E r \in Requests \ UnderWay :
         /\ requests[r] = Free
         /\ request' = [requests EXCEPT ![r] = Handler("endFind", None, known)]

Left ==
  /\ view # Overview
  /\ view' = Overview /\ asked' = None /\ known' = NoSession /\ clean' = TRUE

\* The workspace unmounts, or the tab is lost and nothing is sent.
Leave ==
  /\ Left
  /\ Ending(request) \/ UNCHANGED request
  /\ UNCHANGED <<session, summaries, orderly>>

\* The tab is closed: beforeunload saves and ends the session, both under way
\* together.
CloseTab ==
  /\ Left /\ Room
  /\ \E r \in Requests \ UnderWay :
       Ending([request EXCEPT ![r] = Handler("saveFind", view, NoSession)])
  /\ orderly' = (orderly /\ Inserters = {})
  /\ UNCHANGED <<session, summaries>>

\* The overview is loaded.
Visit ==
  /\ view = Overview
  /\ \E r \in Requests \ UnderWay :
       request' = [request EXCEPT ![r] = Handler("scan", Current, NoSession)]
  /\ UNCHANGED <<session, summaries, orderly, client>>

\* The reply reaches the workspace that asked, if it is still open.
Receive(r) ==
  /\ At(r, "reply")
  /\ request' = [request EXCEPT ![r] = Free]
  /\ IF asked = r
     THEN asked' = None /\ known' = request[r].target
     ELSE UNCHANGED <<asked, known>>
  /\ UNCHANGED <<session, summaries, orderly, view, clean>>

-----------------------------------------------------------------------------
(* POST /sessions. *)

Goto(r, point) == request' = [request EXCEPT ![r].at = point]
AnswerWith(r, s) == request' = [request EXCEPT ![r].at = "reply", ![r].target = s, ![r].rows = {}]
End(r) == request' = [request EXCEPT ![r] = Free]

\* Mutant: the active session of any milestone.
FindAny(r) ==
  /\ At(r, "find")
  /\ \/ \E s \in Active : AnswerWith(r, s)
     \/ Active = {} /\ Goto(r, "recheck")
  /\ UNCHANGED <<session, summaries, orderly, client>>

Find(r) ==
  /\ At(r, "find")
  /\ \/ \E s \in ActiveOf(request[r].milestone) : AnswerWith(r, s)
     \/ ActiveOf(request[r].milestone) = {} /\ Goto(r, "recheck")
  /\ UNCHANGED <<session, summaries, orderly, client>>

\* SELECT ... FOR UPDATE, which locks nothing when it finds nothing, and waits
\* for the row it has found when another transaction has locked it...
Recheck(r) ==
  LET found == ActiveOf(request[r].milestone) IN
  /\ At(r, "recheck")
  /\ \/ \E s \in found :
          IF Locked(s, r)
          THEN request' = [request EXCEPT ![r].at = "wait", ![r].rows = {s}]
          ELSE AnswerWith(r, s)
     \/ found = {} /\ Goto(r, "deactivate")
  /\ UNCHANGED <<session, summaries, orderly, client>>

\* ... to look at that row again, and at none inserted meanwhile.
Waited(r) ==
  /\ At(r, "wait")
  /\ \E s \in request[r].rows :
       /\ ~Locked(s, r)
       /\ IF IsActive(s)
          THEN AnswerWith(r, s)
          ELSE request' = [request EXCEPT ![r].at = "deactivate", ![r].rows = {}]
  /\ UNCHANGED <<session, summaries, orderly, client>>

\* The UPDATE of the learner's active sessions: the rows it starts from...
Deactivate(r) ==
  /\ At(r, "deactivate")
  /\ request' = [request EXCEPT ![r].at = "lock", ![r].rows = Active]
  /\ UNCHANGED <<session, summaries, orderly, client>>

\* Mutant: the other sessions are left alone.
LockNothing(r) ==
  /\ At(r, "lock")
  /\ request' = [request EXCEPT ![r].at = "insert", ![r].rows = {}]
  /\ UNCHANGED <<session, summaries, orderly, client>>

\* ... and those it has changed, once it holds their locks.
Lock(r) ==
  /\ At(r, "lock")
  /\ \A s \in request[r].rows : ~Locked(s, r)
  /\ request' = [request EXCEPT ![r].at = "insert", ![r].rows = @ \cap Active]
  /\ UNCHANGED <<session, summaries, orderly, client>>

Ended(rows) ==
  [s \in Sessions |->
    IF s \in rows THEN [session[s] EXCEPT !.state = "ended", !.quiet = FALSE] ELSE session[s]]

\* INSERT and COMMIT; or the unique index of active sessions is violated, and
\* the UPDATE is rolled back too.
Insert(r) ==
  LET m == request[r].milestone
      taken == ActiveOf(m) \ request[r].rows
  IN
  /\ At(r, "insert")
  /\ \A s \in taken : ~Locked(s, r)
  /\ \/ /\ taken = {}
        /\ \E s \in Sessions :
             /\ NextId(s)
             /\ session' = [Ended(request[r].rows) EXCEPT ![s] = Row(m)]
             /\ AnswerWith(r, s)
     \/ /\ taken # {} \/ ~Room
        /\ request' = [request EXCEPT ![r].at = "winner", ![r].rows = {}]
        /\ UNCHANGED session
  /\ UNCHANGED <<summaries, orderly, client>>

NoReply(r) == asked' = IF asked = r THEN None ELSE asked

\* The catch block; without a winner the answer is an error.
Winner(r) ==
  /\ At(r, "winner")
  /\ \/ /\ \E s \in ActiveOf(request[r].milestone) : AnswerWith(r, s)
        /\ UNCHANGED <<orderly, asked>>
     \/ /\ ActiveOf(request[r].milestone) = {}
        /\ End(r) /\ NoReply(r)
        /\ orderly' = FALSE
  /\ UNCHANGED <<session, summaries, view, known, clean>>

-----------------------------------------------------------------------------
(* POST /save, as far as sessions go.  (A submission's save point stores a     *)
(* snapshot in the session it finds, as a save does, and none otherwise.)      *)

SaveFind(r) ==
  /\ At(r, "saveFind")
  /\ \/ \E s \in ActiveOf(request[r].milestone) :
          request' = [request EXCEPT ![r].at = "snapshot", ![r].target = s]
     \/ ActiveOf(request[r].milestone) = {} /\ Goto(r, "saveInsert")
  /\ UNCHANGED <<session, summaries, orderly, client>>

\* A violation of the index is an error, and the browser saves again later.
SaveInsert(r) ==
  LET m == request[r].milestone IN
  /\ At(r, "saveInsert")
  /\ \A s \in ActiveOf(m) : ~Locked(s, r)
  /\ \/ /\ ActiveOf(m) = {}
        /\ \E s \in Sessions :
             /\ NextId(s)
             /\ session' = [session EXCEPT ![s] = Row(m)]
             /\ request' = [request EXCEPT ![r].at = "snapshot", ![r].target = s]
     \/ (ActiveOf(m) # {} \/ ~Room) /\ End(r) /\ UNCHANGED session
  /\ UNCHANGED <<summaries, orderly, client>>

Snapshot(r) ==
  /\ At(r, "snapshot")
  /\ session' = [session EXCEPT ![request[r].target].worked = TRUE,
                                ![request[r].target].quiet = FALSE]
  /\ End(r)
  /\ UNCHANGED <<summaries, orderly, client>>

-----------------------------------------------------------------------------
(* POST /sessions/end, the overview, and the summaries. *)

Summarise(r, s, rows, then) ==
  request' = [request EXCEPT ![r].at = "read", ![r].target = s,
                             ![r].rows = rows, ![r].then = then]

\* Mutant: the summary does not wait for the UPDATE.
EndFindAndSummarise(r) ==
  /\ At(r, "endFind")
  /\ IF IsActive(request[r].target)
     THEN Summarise(r, request[r].target, {}, "idle") ELSE End(r)
  /\ UNCHANGED <<session, summaries, orderly, client>>

EndFind(r) ==
  /\ At(r, "endFind")
  /\ IF IsActive(request[r].target) THEN Goto(r, "endUpdate") ELSE End(r)
  /\ UNCHANGED <<session, summaries, orderly, client>>

\* The UPDATE is not guarded by is_active.  The summary comes after the reply.
EndUpdate(r) ==
  LET s == request[r].target IN
  /\ At(r, "endUpdate") /\ ~Locked(s, r)
  /\ session' = Ended({s})
  /\ Summarise(r, s, {}, "idle")
  /\ UNCHANGED <<summaries, orderly, client>>

\* Mutant: sessions without a snapshot are not found (an inner join).
ScanWorked(r) ==
  /\ At(r, "scan")
  /\ request' = [request EXCEPT ![r].at = "reap",
       ![r].rows = {s \in Active : session[s].quiet /\ session[s].worked}]
  /\ UNCHANGED <<session, summaries, orderly, client>>

\* The stale sessions, by their newest snapshot or else their start.
Scan(r) ==
  /\ At(r, "scan")
  /\ request' = [request EXCEPT ![r].at = "reap",
                                ![r].rows = {s \in Active : session[s].quiet}]
  /\ UNCHANGED <<session, summaries, orderly, client>>

\* One stale session is ended, if nobody else has, and summarised.
Reap(r) ==
  /\ At(r, "reap")
  /\ \/ \E s \in request[r].rows :
          /\ ~Locked(s, r)
          /\ session' = Ended({s} \cap Active)
          /\ Summarise(r, s, request[r].rows \ {s}, "reap")
     \/ request[r].rows = {} /\ Goto(r, "backfill") /\ UNCHANGED session
  /\ UNCHANGED <<summaries, orderly, client>>

EndedOf(m) ==
  {s \in Sessions : session[s].state = "ended" /\ session[s].milestone = m}
IsLatest(s, m) == s \in EndedOf(m) /\ \A t \in EndedOf(m) : t <= s

\* Mutant: the oldest session instead of the latest.
BackfillOldest(r) ==
  LET ended == EndedOf(request[r].milestone) IN
  /\ At(r, "backfill")
  /\ \/ \E s \in ended : (\A t \in ended : s <= t) /\ Summarise(r, s, {}, "idle")
     \/ ended = {} /\ End(r)
  /\ UNCHANGED <<session, summaries, orderly, client>>

\* The milestone's last ended session.
Backfill(r) ==
  /\ At(r, "backfill")
  /\ \/ \E s \in Sessions : IsLatest(s, request[r].milestone) /\ Summarise(r, s, {}, "idle")
     \/ EndedOf(request[r].milestone) = {} /\ End(r)
  /\ UNCHANGED <<session, summaries, orderly, client>>

Return(r) ==
  IF request[r].then = "idle"
  THEN End(r)
  ELSE request' = [request EXCEPT ![r].at = request[r].then, ![r].then = "idle"]

\* generateSummaryText: a session with a snapshot has a text.  One without has
\* none, unless a submission that left no snapshot was made while it was active.
MayHaveNoText(s) == ~session[s].worked

\* generateSessionSummary: nothing to do if there is a summary or no activity.
Read(r) ==
  LET s == request[r].target IN
  /\ At(r, "read")
  /\ \/ s \notin summaries /\ Goto(r, "write")
     \/ (s \in summaries \/ MayHaveNoText(s)) /\ Return(r)
  /\ UNCHANGED <<session, summaries, orderly, client>>

\* A second summary violates the unique index, and that is ignored.
Write(r) ==
  /\ At(r, "write")
  /\ summaries' = summaries \cup {request[r].target}
  /\ Return(r)
  /\ UNCHANGED <<session, orderly, client>>

-----------------------------------------------------------------------------
(* What goes wrong, and time. *)

\* The network, a statement or the API process fails, and the request with it.
Lose(r) ==
  /\ ~At(r, "idle")
  /\ End(r) /\ NoReply(r)
  /\ orderly' = (orderly /\ request[r].at \notin CreatePoints)
  /\ UNCHANGED <<session, summaries, view, known, clean>>

\* The transaction of a create fails, and its catch block looks for a winner.
Rollback(r) ==
  /\ request[r].at \in {"recheck", "wait", "deactivate", "lock", "insert"}
  /\ request' = [request EXCEPT ![r].at = "winner", ![r].rows = {}]
  /\ UNCHANGED <<session, summaries, orderly, client>>

\* The overview goes on without a summary it could not write.
SummaryFails(r) ==
  /\ request[r].at \in {"read", "write"} /\ Return(r)
  /\ UNCHANGED <<session, summaries, orderly, client>>

Trouble(r) == Lose(r) \/ Rollback(r) \/ SummaryFails(r)

\* Fifteen minutes without a save.
Silence ==
  /\ \E s \in Active : ~session[s].quiet
  /\ session' = [s \in Sessions |-> [session[s] EXCEPT !.quiet = IsActive(s)]]
  /\ UNCHANGED <<summaries, request, orderly, client>>

-----------------------------------------------------------------------------
Step(r) ==
  \/ Find(r) \/ Recheck(r) \/ Waited(r) \/ Deactivate(r) \/ Lock(r) \/ Insert(r) \/ Winner(r)
  \/ Receive(r)
  \/ SaveFind(r) \/ SaveInsert(r) \/ Snapshot(r)
  \/ EndFind(r) \/ EndUpdate(r)
  \/ Scan(r) \/ Reap(r) \/ Backfill(r) \/ Read(r) \/ Write(r)

Next ==
  \/ \E m \in Milestones : Enter(m)
  \/ Save \/ Leave \/ CloseTab \/ Visit
  \/ \E r \in Requests : Step(r) \/ Trouble(r)
  \/ Silence

\* Handlers run and time passes.
Fairness == WF_vars(Silence) /\ \A r \in Requests : WF_vars(Step(r))

Spec == Init /\ [][Next]_vars /\ Fairness

-----------------------------------------------------------------------------
(* Properties. *)

Points ==
  InserterPoints \cup {"idle", "endFind", "endUpdate", "scan", "reap", "backfill", "read", "write"}
TargetPoints == {"reply", "snapshot", "endFind", "endUpdate", "read", "write"}

\* Rows, handlers and the workspace have their types; a handler that is about
\* to use a session has one.
TypeOK ==
  /\ session \in [Sessions -> [milestone : Milestones \cup {None},
                               state : {"none", "active", "ended"},
                               worked : BOOLEAN, quiet : BOOLEAN]]
  /\ summaries \subseteq Sessions
  /\ request \in [Requests -> [at : Points, milestone : Milestones \cup {None},
                               target : Sessions \cup {NoSession},
                               rows : SUBSET Sessions, then : {"idle", "reap"}]]
  /\ \A r \in Requests : request[r].at \in TargetPoints => request[r].target \in Sessions
  /\ view \in Milestones \cup {Overview}
  /\ asked \in Requests \cup {None}
  /\ known \in Sessions \cup {NoSession}
  /\ {clean, orderly} \subseteq BOOLEAN

\* Only a session that is over is summarised, whoever ended it and whichever of
\* the three writers of summaries came first (generateSessionSummary).
SummaryOfEnded == \A s \in summaries : session[s].state = "ended"

\* One active session per learner, as long as requests that may insert one do
\* not overlap and none is lost: neither entering a workspace, nor saving, nor
\* what the overview or a late end does leaves a second one (createSession).
OneActive == orderly => \A s, t \in Active : s = t

\* The session a workspace knows is active and of its milestone until it is
\* left, when nothing was under way as it opened.
KnownIsActive ==
  (clean /\ view # Overview /\ known # NoSession) => known \in ActiveOf(view)

\* A trouble that shows: not all that the handler itself might have done.
Failure(r) == Trouble(r) /\ ~Step(r)

\* The learner leaves the workspace for good and looks at the overview again
\* and again, and in the end nothing fails any more.
OnlyLooks ==
  /\ <>[](view = Overview) /\ []<><<Visit>>_vars
  /\ <>[][~\E r \in Requests : Failure(r)]_vars

\* No session is left active for ever: neither one whose end was lost, nor one
\* a late save made after the end, nor one nobody ever knew.
AbandonedEnds == OnlyLooks => <>[](Active = {})

\* The last session of the current milestone has its summary in the end, if
\* the learner worked in it, whatever became of the request that ended it.
LatestSummarised ==
  OnlyLooks =>
    <>[](\A s \in Sessions :
           IsLatest(s, Current) /\ session[s].worked => s \in summaries)
=============================================================================

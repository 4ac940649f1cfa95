---------------------------- MODULE TutorRequests ----------------------------
(***************************************************************************)
(* The tutor's routes in the API: a chat message answered by a stream      *)
(* (stream.ts), the intervention for a stuck learner, which is the same    *)
(* with a question of its own making (stuck-intervention.ts), and a        *)
(* message answered at once (message.ts), with the rate limiter in front   *)
(* of them and the circuit breaker between them and the Anthropic API.     *)
(*                                                                         *)
(* A request is a handler with a program point in front of each await; the *)
(* requests share the limiter's window in Redis and the breaker.  A stream *)
(* has a life of its own: the handler has returned, the listeners of the   *)
(* Anthropic stream go on, and the connection is closed by whoever comes   *)
(* first of them, the browser and the three-minute timer.  Time is the     *)
(* breaker's.  All requests are one learner's; checks of the message's     *)
(* length, prompts, models and the content of messages are left out.       *)
(***************************************************************************)
EXTENDS CircuitBreaker, Sequences, FiniteSets

CONSTANTS
  Limit,      \* maxRequests of the tutor's rate limiter
  Window,     \* windowMs, in the breaker's units of time
  MaxFaults   \* rejected calls of Redis and Postgres

ASSUME RequestsAssumption ==
  /\ {Limit, Window} \subseteq Nat \ {0}
  /\ MaxFaults \in Nat
  /\ IsFiniteSet(Calls)
  /\ Endings = {"success", "failure", "unreported"}

VARIABLES
  window,   \* the sorted set rate:tutor:{uid}: the ages of its current entries
  request,  \* each of Calls: a handler and what it has left behind
  faults    \* calls rejected so far

requestVars == <<window, request, faults>>
allVars == <<vars, requestVars>>

Kinds == {"stream", "message"}

\* question, answer: rows of tutor_messages.  told: what the learner's browser
\* was sent last.  open: the connection of a stream.  faulted: one of the
\* request's own calls was rejected.
NoRequest ==
  [kind |-> "stream", pc |-> "idle", question |-> FALSE, answer |-> FALSE,
   told |-> "nothing", open |-> FALSE, faulted |-> FALSE]

RequestsInit ==
  /\ Init
  /\ window = <<>>
  /\ request = [r \in Calls |-> NoRequest]
  /\ faults = 0

-----------------------------------------------------------------------------
(* Moving a request on. *)

At(r, points) == request[r].pc \in points

Becomes(r, q) == request' = [request EXCEPT ![r] = q]

Goto(r, pc) == Becomes(r, [request[r] EXCEPT !.pc = pc])

\* A reply that ends the request; a stream that was open is closed with it.
Ended(q, told) == [q EXCEPT !.pc = "over", !.told = told, !.open = FALSE]

Reply(r, told) == Becomes(r, Ended(request[r], told))

\* One of the request's awaits rejects; q is what the request becomes.
Rejected(r, q) ==
  /\ faults < MaxFaults
  /\ faults' = faults + 1
  /\ Becomes(r, [q EXCEPT !.faulted = TRUE])

Arrive(r, kind) ==
  /\ At(r, {"idle"})
  /\ Becomes(r, [NoRequest EXCEPT !.kind = kind, !.pc = "count"])
  /\ UNCHANGED <<vars, window, faults>>

\* The request is over and leaves its place to another.
Leave(r) ==
  /\ At(r, {"over"})
  /\ Becomes(r, NoRequest)
  /\ UNCHANGED <<vars, window, faults>>

-----------------------------------------------------------------------------
(* RateLimiter.check. *)

\* Mutant: every request is let in.
CountWithoutLimit(r) ==
  /\ At(r, {"count"})
  /\ Goto(r, "add")
  /\ UNCHANGED <<vars, window, faults>>

\* The first pipeline: expired entries are removed, the others counted.
Count(r) ==
  /\ At(r, {"count"})
  /\ IF Len(window) >= Limit THEN Reply(r, "limited") ELSE Goto(r, "add")
  /\ UNCHANGED <<vars, window, faults>>

\* The second pipeline: ZADD with the time of the request, EXPIRE.
AddEntry(r) ==
  /\ At(r, {"add"})
  /\ window' = Append(window, 0)
  /\ Goto(r, "lookup")
  /\ UNCHANGED <<vars, faults>>

\* Redis errors are thrown on, with or without the command's effect.
LimiterFails(r) ==
  /\ At(r, {"count", "add"})
  /\ Rejected(r, Ended(request[r], "error"))
  /\ window' \in {window} \cup (IF At(r, {"add"}) THEN {Append(window, 0)} ELSE {})
  /\ UNCHANGED vars

-----------------------------------------------------------------------------
(* The handlers up to the call of the API. *)

\* The session, of this learner, and its milestone.
Lookup(r) ==
  /\ At(r, {"lookup"})
  /\ \/ Reply(r, "notfound")
     \/ Goto(r, IF request[r].kind = "stream" THEN "question" ELSE "prompt")
  /\ UNCHANGED <<vars, window, faults>>

\* A stream's question is a row before the API is asked.
StoreQuestion(r) ==
  /\ At(r, {"question"})
  /\ Becomes(r, [request[r] EXCEPT !.question = TRUE, !.pc = "prompt"])
  /\ UNCHANGED <<vars, window, faults>>

\* loadConversationHistory, the latest submission, and the prompt: what its
\* parts say (the brief, the code, the criteria, the learner, what is stuck).
Prepare(r) ==
  /\ At(r, {"prompt"})
  /\ Goto(r, "ask")
  /\ UNCHANGED <<vars, window, faults>>

\* The parts are read together: one read that rejects ends the request (only a
\* brief that is missing has a text in its place).
PromptFails(r) ==
  /\ At(r, {"prompt"})
  /\ Rejected(r, Ended(request[r], "error"))
  /\ UNCHANGED <<vars, window>>

\* A rejected INSERT may have stored the row.
PrepareFails(r) ==
  /\ \/ At(r, {"lookup", "question"}) /\ Rejected(r, Ended(request[r], "error"))
     \/ /\ At(r, {"question"})
        /\ Rejected(r, [Ended(request[r], "error") EXCEPT !.question = TRUE])
  /\ UNCHANGED <<vars, window>>

\* Mutant: the refusal is recorded as one more failure of the API.
TurnedAwayAsFailure(r) ==
  /\ At(r, {"ask"})
  /\ Refuses(Looked(breaker))
  /\ breaker' = RecordFailure(Looked(breaker))
  /\ Goto(r, "unavailable")
  /\ UNCHANGED <<call, sinceTrial, window, faults>>

\* assertClosed throws: CircuitOpenError, told to the metrics first.
TurnedAway(r) ==
  /\ At(r, {"ask"})
  /\ Refuse
  /\ Goto(r, "unavailable")
  /\ UNCHANGED <<window, faults>>

\* assertClosed lets the request through: the API is called, and a stream's
\* headers are sent.
Call(r) ==
  /\ At(r, {"ask"})
  /\ Admit(r)
  /\ Becomes(r, [request[r] EXCEPT !.pc = "answering",
                                   !.open = request[r].kind = "stream"])
  /\ UNCHANGED <<window, faults>>

\* tutorMetrics.recordFailure is awaited before 503 is sent.
Unavailable(r) ==
  /\ At(r, {"unavailable"})
  /\ \/ Reply(r, "unavailable") /\ UNCHANGED faults
     \/ Rejected(r, Ended(request[r], "error"))
  /\ UNCHANGED <<vars, window>>
-----------------------------------------------------------------------------
(* A stream: its creation, the Anthropic stream's events and cleanup().  *)

StreamAt(r, points) == request[r].kind = "stream" /\ At(r, points)

\* assertClosed has let the request through, and creating the stream throws: a
\* call that the breaker waits for and nobody makes.
CreationFails(r) ==
  /\ StreamAt(r, {"ask"})
  /\ Admit(r)
  /\ Goto(r, "throwing")
  /\ UNCHANGED <<window, faults>>

\* It is answered like a refusal, and the breaker is told nothing.
CreationCaught(r) ==
  /\ StreamAt(r, {"throwing"})
  /\ End(r, "unreported")
  /\ Goto(r, "unavailable")
  /\ UNCHANGED <<window, faults>>

\* What becomes of a stream at q whose handlers have nothing more to do:
\* it stays open in silence, unless the connection is closed already.
Idles(q) == [q EXCEPT !.pc = IF q.open THEN "silent" ELSE "over"]

\* finalMessage: the breaker is told whether the browser is there or not; the
\* browser gets message_complete before anything is recorded or stored.
FinalMessage(r) ==
  /\ StreamAt(r, {"answering"})
  /\ End(r, "success")
  /\ Becomes(r, IF request[r].open
                THEN [request[r] EXCEPT !.told = "complete", !.pc = "final"]
                ELSE Idles(request[r]))
  /\ UNCHANGED <<window, faults>>

\* error: the breaker is told; the browser gets TUTOR_UNAVAILABLE and the
\* stream is closed.  The metrics are not waited for.
StreamError(r) ==
  /\ StreamAt(r, {"answering"})
  /\ End(r, "failure")
  /\ Becomes(r, IF request[r].open THEN Ended(request[r], "unavailable") ELSE Idles(request[r]))
  /\ UNCHANGED <<window, faults>>

\* One of the two timers of createStreamingTutorResponse aborts: the Anthropic
\* stream ends with an event nobody listens to.
Abort(r) ==
  /\ StreamAt(r, {"answering"})
  /\ End(r, "unreported")
  /\ Becomes(r, Idles(request[r]))
  /\ UNCHANGED <<window, faults>>

\* recordSuccess is awaited without a catch: when it rejects, the rest of the
\* handler, the row and the end of the stream included, does not happen.
SuccessRecorded(r) ==
  /\ StreamAt(r, {"final"})
  /\ \/ Goto(r, "persist") /\ UNCHANGED faults
     \/ Rejected(r, Idles(request[r]))
  /\ UNCHANGED <<vars, window>>

\* Mutant: the row of an answer that was told is stored only for a browser
\* that is still there.
PersistIfOpen(r) ==
  /\ StreamAt(r, {"persist"})
  /\ Becomes(r, Ended([request[r] EXCEPT !.answer = request[r].open], request[r].told))
  /\ UNCHANGED <<vars, window, faults>>

\* The INSERT of the answer; its rejection is caught.
Persist(r) ==
  LET q == Ended(request[r], request[r].told) IN
  /\ StreamAt(r, {"persist"})
  /\ \/ Becomes(r, [q EXCEPT !.answer = TRUE]) /\ UNCHANGED faults
     \/ \E stored \in BOOLEAN : Rejected(r, [q EXCEPT !.answer = stored])
  /\ UNCHANGED <<vars, window>>

\* Mutant: only a connection the browser closed is cleaned up.
CleanupWhileWorking(r) ==
  /\ request[r].open /\ ~At(r, {"silent"})
  /\ Becomes(r, [request[r] EXCEPT !.open = FALSE])
  /\ UNCHANGED <<vars, window, faults>>

\* cleanup(), called by the browser's leaving, a broken connection or the
\* maximum duration.  Handlers under way go on.
Cleanup(r) ==
  /\ request[r].open
  /\ Becomes(r, [request[r] EXCEPT !.open = FALSE,
                                   !.pc = IF @ = "silent" THEN "over" ELSE @])
  /\ UNCHANGED <<vars, window, faults>>

StreamStep(r) ==
  \/ CreationFails(r) \/ CreationCaught(r)
  \/ FinalMessage(r) \/ StreamError(r) \/ Abort(r)
  \/ SuccessRecorded(r) \/ Persist(r) \/ Cleanup(r)

-----------------------------------------------------------------------------
(* A message answered at once. *)

WholeMessage(r, points) == request[r].kind = "message" /\ At(r, points)

Answered(r) ==
  /\ WholeMessage(r, {"answering"})
  /\ End(r, "success")
  /\ Goto(r, "final")
  /\ UNCHANGED <<window, faults>>

\* A failure, or the abort after thirty seconds, which rejects here.
NotAnswered(r) ==
  /\ WholeMessage(r, {"answering"})
  /\ End(r, "failure")
  /\ Goto(r, "unavailable")
  /\ UNCHANGED <<window, faults>>

\* recordSuccess is awaited inside the try: its rejection is answered like the
\* API's.
AnswerRecorded(r) ==
  /\ WholeMessage(r, {"final"})
  /\ \/ Goto(r, "persist") /\ UNCHANGED faults
     \/ Rejected(r, [request[r] EXCEPT !.pc = "unavailable"])
  /\ UNCHANGED <<vars, window>>

\* One INSERT of both rows, then the reply.
PersistBoth(r) ==
  LET Stored(q) == [q EXCEPT !.question = TRUE, !.answer = TRUE] IN
  /\ WholeMessage(r, {"persist"})
  /\ \/ Becomes(r, Stored(Ended(request[r], "complete"))) /\ UNCHANGED faults
     \/ Rejected(r, Ended(request[r], "error"))
     \/ Rejected(r, Stored(Ended(request[r], "error")))
  /\ UNCHANGED <<vars, window>>

MessageStep(r) ==
  Answered(r) \/ NotAnswered(r) \/ AnswerRecorded(r) \/ PersistBoth(r)

-----------------------------------------------------------------------------

LimiterStep(r) == Count(r) \/ AddEntry(r) \/ LimiterFails(r)

\* The parts of a handler that all three routes have.
CommonStep(r) ==
  \/ LimiterStep(r)
  \/ Lookup(r) \/ Prepare(r) \/ PromptFails(r) \/ PrepareFails(r)
  \/ TurnedAway(r) \/ Call(r) \/ Unavailable(r)

ChatStep(r) ==
  /\ request[r].kind = "stream"
  /\ CommonStep(r) \/ StoreQuestion(r) \/ StreamStep(r)

WholeStep(r) ==
  /\ request[r].kind = "message"
  /\ CommonStep(r) \/ MessageStep(r)

Step(r) == ChatStep(r) \/ WholeStep(r) \/ Leave(r)

\* GET /health.
Health == Look /\ UNCHANGED requestVars

\* ZREMRANGEBYSCORE removes the entries as old as the window; the oldest come
\* first.
Current(ages) ==
  LET expired == {i \in DOMAIN ages : ages[i] >= Window}
  IN  SubSeq(ages, Cardinality(expired) + 1, Len(ages))

Aging ==
  /\ Elapse
  /\ window' = Current([i \in DOMAIN window |-> window[i] + 1])
  /\ UNCHANGED <<request, faults>>

RequestsNext ==
  \/ \E r \in Calls : Step(r) \/ \E kind \in Kinds : Arrive(r, kind)
  \/ Health
  \/ Aging

\* Handlers go on, the timers of the service and of the stream go off, and time
\* passes; learners need not ask.
RequestsFairness == WF_allVars(Aging) /\ \A r \in Calls : WF_allVars(Step(r))

RequestsSpec == RequestsInit /\ [][RequestsNext]_allVars /\ RequestsFairness

-----------------------------------------------------------------------------
(* Properties. *)

Points ==
  {"idle", "count", "add", "lookup", "question", "prompt", "ask", "unavailable",
   "throwing", "answering", "final", "persist", "silent", "over"}

Requests ==
  [kind : Kinds, pc : Points, question : BOOLEAN, answer : BOOLEAN, open : BOOLEAN,
   told : {"nothing", "limited", "notfound", "error", "unavailable", "complete"},
   faulted : BOOLEAN]

\* The breaker, the requests and the window have their types, and a request
\* is with the breaker exactly until its call has ended or not come about.
RequestsTypeOK ==
  /\ TypeOK
  /\ request \in [Calls -> Requests]
  /\ window \in Seq(0 .. Window - 1)
  /\ faults \in 0 .. MaxFaults
  /\ \A r \in Calls : At(r, {"throwing", "answering"}) <=> call[r] # "none"

\* The limiter counts and adds in two pipelines, so requests that come together
\* pass it together; still, what it lets in during a window exceeds the limit
\* by less than the number of requests under way at once.
BoundedOvershoot ==
  Len(window) <= Limit + Cardinality(Calls) - 1

\* What is stored agrees with what the learner was told, whenever the browser
\* left and whichever way the stream was closed: an answer is never stored
\* without its question, nor after a refusal; and an answer the learner was
\* given is stored with its question, if no call of the request was rejected.
RowsAgreeWithReplies ==
  \A r \in Calls :
    LET q == request[r] IN
    /\ q.answer => q.question
    /\ q.told \in {"limited", "notfound", "unavailable"} => ~q.answer
    /\ (At(r, {"over"}) /\ q.told = "complete" /\ ~q.faulted) => q.question /\ q.answer

\* No request holds its connection for ever: whatever the API, the browser,
\* Redis and Postgres do, it ends (the timers of the service and of the stream).
EveryRequestEnds == \A r \in Calls : ~At(r, {"idle"}) ~> At(r, {"idle"})

Asked == \E r \in Calls : At(r, {"ask"})

\* The circuit is half-open for ever: every trial it allows has been let
\* through, and none of them is under way any more.
Jammed ==
  /\ breaker.state = "HALF_OPEN"
  /\ breaker.halfOpenAttempts >= HalfOpenMaxAttempts
  /\ \A r \in Calls : call[r] # "trial"

\* If from some moment on no call fails while learners go on asking, the circuit
\* closes and stays closed, unless a trial was aborted or never made, which the
\* breaker does not learn of: nothing else keeps it from recovering, neither late results of
\* earlier calls nor browsers that left before theirs (recordOnce, Abort).
RecoversWhenAsked ==
  (<>[][\A r \in Calls : ~(StreamError(r) \/ NotAnswered(r))]_allVars /\ []<>Asked)
  => <>[](breaker.state = "CLOSED") \/ <>[]Jammed
=============================================================================

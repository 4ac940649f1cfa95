------------------------- MODULE TutorRequests_proofs -------------------------
(***************************************************************************)
(* The circuit breaker keeps its type, a closed breaker holds no failures  *)
(* of an earlier period, and trials are spaced.  The tutor's routes use    *)
(* the breaker as its specification says, so that holds of the routes too; *)
(* the rows of the conversation agree with the replies, and the limiter    *)
(* overshoots its limit by less than the number of requests under way.     *)
(***************************************************************************)
EXTENDS TutorRequests, FiniteSetTheorems, TLAPS

-----------------------------------------------------------------------------
(* The circuit breaker. *)

\* Why trials are spaced: a failure that opens the circuit comes after the
\* last trial, so the wait since that failure is no longer than the time since
\* the trial; and a half-open period nobody has used yet began with the end of
\* such a wait.
TrialBeforeFailure ==
  /\ breaker.state = "OPEN" => sinceTrial >= breaker.sinceFailure
  /\ (breaker.state = "HALF_OPEN" /\ breaker.halfOpenAttempts = 0)
       => sinceTrial >= ResetTimeout

\* The inductive invariant.
IInv == TypeOK /\ ClosedIsFresh /\ TrialBeforeFailure

-----------------------------------------------------------------------------
(* The methods of the breaker keep its type. *)

\* The assumption on the constants, one by one.
LEMMA Options ==
  /\ FailureThreshold \in Nat /\ FailureThreshold >= 1
  /\ HalfOpenMaxAttempts \in Nat /\ HalfOpenMaxAttempts >= 1
  /\ ResetTimeout \in Nat /\ ResetTimeout >= 1
  /\ MaxResetTimeout \in Nat /\ ResetTimeout <= MaxResetTimeout
  /\ Endings \subseteq {"success", "failure", "unreported"}
  BY BreakerAssumption DEF BreakerAssumption

\* A new breaker (createCircuitBreaker) is well typed.
LEMMA NewBreakerType == NewBreaker \in Breakers
  BY Options DEF NewBreaker, Breakers, Ages

\* The state getter keeps the type.
LEMMA LookedType ==
  ASSUME NEW b \in Breakers PROVE Looked(b) \in Breakers
<1>1. "HALF_OPEN" \in {"CLOSED", "OPEN", "HALF_OPEN"} /\ 0 \in 0 .. HalfOpenMaxAttempts
  BY Options
<1> QED
  BY <1>1 DEF Looked, Breakers

\* assertClosed counts a trial only below the limit.
LEMMA LetThroughType ==
  ASSUME NEW b \in Breakers, ~Refuses(b) PROVE LetThrough(b) \in Breakers
  BY Options DEF LetThrough, Refuses, Breakers

\* recordSuccess keeps the type.
LEMMA RecordSuccessType ==
  ASSUME NEW b \in Breakers PROVE RecordSuccess(b) \in Breakers
<1>1. /\ 0 \in 0 .. FailureThreshold /\ 0 \in 0 .. HalfOpenMaxAttempts
      /\ ResetTimeout \in ResetTimeout .. MaxResetTimeout
  BY Options
<1> QED
  BY <1>1 DEF RecordSuccess, Reclosed, Breakers

\* recordFailure keeps the type: the doubled timeout is capped.
LEMMA RecordFailureType ==
  ASSUME NEW b \in Breakers PROVE RecordFailure(b) \in Breakers
<1>1. Least(b.consecutiveFailures + 1, FailureThreshold) \in 0 .. FailureThreshold
  BY Options DEF Least, Breakers
<1>2. Least(2 * b.currentResetTimeout, MaxResetTimeout) \in ResetTimeout .. MaxResetTimeout
  BY Options DEF Least, Breakers
<1>3. 0 \in Ages
  BY Options DEF Ages
<1> QED
  BY <1>1, <1>2, <1>3 DEF RecordFailure, Opened, Breakers

\* So does the passing of time.
LEMMA AgedType ==
  ASSUME NEW b \in Breakers PROVE Aged(b) \in Breakers
  BY Options DEF Aged, Later, Least, Breakers, Ages

-----------------------------------------------------------------------------
(* What the methods do to the invariant. *)

\* The invariant about the breaker, as a predicate on one breaker and the time
\* since the last trial.
Good(b, since) ==
  /\ b.state = "CLOSED" =>
       b.consecutiveFailures < FailureThreshold /\ b.currentResetTimeout = ResetTimeout
  /\ b.state = "OPEN" => since >= b.sinceFailure
  /\ (b.state = "HALF_OPEN" /\ b.halfOpenAttempts = 0) => since >= ResetTimeout

\* Looking at a good breaker leaves a good one: half-open begins when the wait
\* is over.
LEMMA LookedGood ==
  ASSUME NEW b \in Breakers, NEW since \in Ages, Good(b, since)
  PROVE  Good(Looked(b), since)
  BY Options DEF Good, Looked, ShouldTransitionToHalfOpen, Breakers, Ages

\* A trial takes an attempt, so the period is not unused any more.
LEMMA TrialGood ==
  ASSUME NEW b \in Breakers, NEW since \in Ages, b.state = "HALF_OPEN"
  PROVE  Good(LetThrough(b), since)
  BY Options DEF Good, LetThrough, Breakers

\* Letting a call through a closed circuit changes nothing.
LEMMA NormalGood ==
  ASSUME NEW b \in Breakers, NEW since \in Ages, Good(b, since), b.state # "HALF_OPEN"
  PROVE  Good(LetThrough(b), since)
  BY DEF Good, LetThrough

\* A success closes the circuit or resets the count.
LEMMA RecordSuccessGood ==
  ASSUME NEW b \in Breakers, NEW since \in Ages, Good(b, since)
  PROVE  Good(RecordSuccess(b), since)
  BY Options DEF Good, RecordSuccess, Reclosed, Breakers, Ages

\* A failure restarts the wait whenever it opens the circuit.
LEMMA RecordFailureGood ==
  ASSUME NEW b \in Breakers, NEW since \in Ages, Good(b, since)
  PROVE  Good(RecordFailure(b), since)
<1>1. CASE b.state = "HALF_OPEN"
  BY <1>1, Options DEF Good, RecordFailure, Opened, Breakers, Ages
<1>2. CASE b.state = "OPEN"
  BY <1>2, Options DEF Good, RecordFailure, Opened, Least, Breakers, Ages
<1>3. CASE b.state = "CLOSED"
  BY <1>3, Options DEF Good, RecordFailure, Opened, Least, Breakers, Ages
<1> QED
  BY <1>1, <1>2, <1>3 DEF Breakers

\* Both ages grow together, and saturate together.
LEMMA AgedGood ==
  ASSUME NEW b \in Breakers, NEW since \in Ages, Good(b, since)
  PROVE  Good(Aged(b), Later(since))
  BY Options DEF Good, Aged, Later, Least, Breakers, Ages

-----------------------------------------------------------------------------
(* The invariant. *)

\* The invariant in the form the lemmas use.
LEMMA IInvGood == IInv <=> TypeOK /\ Good(breaker, sinceTrial)
  BY DEF IInv, Good, ClosedIsFresh, TrialBeforeFailure

\* Nothing has happened yet.
LEMMA InitIInv == Init => IInv
<1> SUFFICES ASSUME Init PROVE TypeOK /\ Good(breaker, sinceTrial)
  BY IInvGood
<1>1. TypeOK
  BY NewBreakerType, Options DEF Init, TypeOK, Ages
<1>2. Good(breaker, sinceTrial)
  BY Options DEF Init, NewBreaker, Good
<1> QED
  BY <1>1, <1>2

\* Every step keeps the invariant.
LEMMA NextIInv == IInv /\ [Next]_vars => IInv'
<1> SUFFICES ASSUME TypeOK, Good(breaker, sinceTrial), [Next]_vars
             PROVE  TypeOK' /\ Good(breaker', sinceTrial')
  BY IInvGood DEF IInv, Good, ClosedIsFresh, TrialBeforeFailure
<1> USE DEF TypeOK
<1> DEFINE b == Looked(breaker)
<1>0. b \in Breakers /\ Good(b, sinceTrial)
  BY LookedType, LookedGood
<1>1. ASSUME NEW c \in Calls, Admit(c) PROVE TypeOK' /\ Good(breaker', sinceTrial')
  <2>1. breaker' = LetThrough(b) /\ ~Refuses(b) BY <1>1 DEF Admit
  <2>2. breaker' \in Breakers BY <1>0, <2>1, LetThroughType
  <2>3. CASE b.state = "HALF_OPEN"
    <3>1. sinceTrial' = 0 /\ call' = [call EXCEPT ![c] = "trial"]
      BY <1>1, <2>3 DEF Admit
    <3>2. sinceTrial' \in Ages BY <3>1, Options DEF Ages
    <3>3. Good(breaker', sinceTrial') BY <1>0, <2>1, <2>3, <3>2, TrialGood
    <3> QED BY <2>2, <3>1, <3>2, <3>3
  <2>4. CASE b.state # "HALF_OPEN"
    <3>1. sinceTrial' = sinceTrial /\ call' = [call EXCEPT ![c] = "normal"]
      BY <1>1, <2>4 DEF Admit
    <3>2. Good(breaker', sinceTrial') BY <1>0, <2>1, <2>4, <3>1, NormalGood
    <3> QED BY <2>2, <3>1, <3>2
  <2> QED BY <2>3, <2>4
<1>2. CASE Refuse
  BY <1>0, <1>2 DEF Refuse
<1>3. CASE Look
  BY <1>0, <1>3 DEF Look
<1>4. ASSUME NEW c \in Calls, NEW e \in Endings, End(c, e)
      PROVE  TypeOK' /\ Good(breaker', sinceTrial')
  <2>1. e \in {"success", "failure", "unreported"} BY Options
  <2>2. breaker' \in {RecordSuccess(breaker), RecordFailure(breaker), breaker}
    BY <1>4, <2>1 DEF End
  <2>3. breaker' \in Breakers BY <2>2, RecordSuccessType, RecordFailureType
  <2>4. sinceTrial' = sinceTrial /\ call' = [call EXCEPT ![c] = "none"]
    BY <1>4 DEF End
  <2>5. Good(breaker', sinceTrial')
    BY <2>2, <2>4, RecordSuccessGood, RecordFailureGood
  <2> QED BY <2>3, <2>4, <2>5
<1>5. CASE Elapse
  <2>1. breaker' \in Breakers BY <1>5, AgedType DEF Elapse
  <2>2. sinceTrial' \in Ages
    BY <1>5, Options DEF Elapse, Later, Least, Ages
  <2>3. Good(breaker', sinceTrial') BY <1>5, AgedGood DEF Elapse
  <2> QED BY <1>5, <2>1, <2>2, <2>3 DEF Elapse
<1>6. CASE UNCHANGED vars
  BY <1>6 DEF vars
<1> QED
  BY <1>1, <1>2, <1>3, <1>4, <1>5, <1>6 DEF Next, Ask

-----------------------------------------------------------------------------
(* The theorems. *)

\* IInv holds in every reachable state.
THEOREM Invariant == Spec => []IInv
  BY InitIInv, NextIInv, PTL DEF Spec

\* The breaker's fields keep their types: the doubled timeout never exceeds
\* maxResetTimeoutMs, a half-open period never counts more attempts than
\* allowed.
THEOREM TypeCorrect == Spec => []TypeOK
<1>1. IInv => TypeOK BY DEF IInv
<1> QED BY <1>1, Invariant, PTL

\* A closed circuit has forgotten the outage.
THEOREM ClosedFresh == Spec => []ClosedIsFresh
<1>1. IInv => ClosedIsFresh BY DEF IInv
<1> QED BY <1>1, Invariant, PTL

\* Trials of different half-open periods are at least resetTimeoutMs apart.
THEOREM Spaced == Spec => TrialsSpaced
<1>1. IInv /\ [Next]_vars =>
        [\A c \in Calls :
           (call[c] = "none" /\ call'[c] = "trial" /\ breaker'.halfOpenAttempts = 1)
             => sinceTrial >= ResetTimeout]_vars
  <2> SUFFICES ASSUME IInv, Next, NEW c \in Calls,
                      call[c] = "none", call'[c] = "trial",
                      breaker'.halfOpenAttempts = 1
               PROVE  sinceTrial >= ResetTimeout
    OBVIOUS
  <2> DEFINE b == Looked(breaker)
  <2>0. b \in Breakers /\ Good(b, sinceTrial)
    BY IInvGood, LookedType, LookedGood DEF TypeOK
  <2>1. ASSUME NEW d \in Calls, Admit(d) PROVE sinceTrial >= ResetTimeout
    <3>1. d = c BY <2>1, IInvGood DEF Admit, TypeOK
    <3>2. b.state = "HALF_OPEN" BY <2>1, <3>1, IInvGood DEF Admit, TypeOK
    <3>3. b.halfOpenAttempts = 0
      <4>1. breaker' = [b EXCEPT !.halfOpenAttempts = @ + 1]
        BY <2>1, <3>2 DEF Admit, LetThrough
      <4> QED BY <4>1, <2>0 DEF Breakers
    <3> QED BY <2>0, <3>2, <3>3 DEF Good
  <2>2. ~Refuse /\ ~Look /\ ~Elapse BY DEF Refuse, Look, Elapse
  <2>3. ASSUME NEW d \in Calls, NEW e \in Endings PROVE ~End(d, e)
    BY IInvGood DEF End, TypeOK
  <2> QED BY <2>1, <2>2, <2>3 DEF Next, Ask
<1> QED BY <1>1, Invariant, PTL DEF Spec, TrialsSpaced

-----------------------------------------------------------------------------
(* The routes. *)

\* Every step of the routes is a step of the breaker's specification, or
\* leaves the breaker and its calls alone.
LEMMA StepIsBreakerStep == [RequestsNext]_allVars => [Next]_vars
<1> SUFFICES ASSUME [RequestsNext]_allVars PROVE Next \/ UNCHANGED vars
  OBVIOUS
<1>1. {"success", "failure", "unreported"} \subseteq Endings
  BY RequestsAssumption DEF RequestsAssumption
<1>2. ASSUME NEW r \in Calls, CommonStep(r) PROVE Next \/ UNCHANGED vars
  BY <1>2 DEF CommonStep, LimiterStep, Count, AddEntry, LimiterFails, Lookup, Prepare,
    PrepareFails, PromptFails, TurnedAway, Call, Unavailable, Next, Ask
<1>3. ASSUME NEW r \in Calls, StreamStep(r) PROVE Next \/ UNCHANGED vars
  BY <1>1, <1>3 DEF StreamStep, CreationFails, CreationCaught, FinalMessage, StreamError,
    Abort, SuccessRecorded, Persist, Cleanup, Next, Ask
<1>4. ASSUME NEW r \in Calls, MessageStep(r) PROVE Next \/ UNCHANGED vars
  BY <1>1, <1>4 DEF MessageStep, Answered, NotAnswered, AnswerRecorded, PersistBoth, Next
<1>5. ASSUME NEW r \in Calls, Step(r) PROVE Next \/ UNCHANGED vars
  BY <1>2, <1>3, <1>4, <1>5 DEF Step, ChatStep, WholeStep, StoreQuestion, Leave
<1>6. ASSUME NEW r \in Calls, NEW kind \in Kinds, Arrive(r, kind) PROVE UNCHANGED vars
  BY <1>6 DEF Arrive
<1>7. Health => Next
  BY DEF Health, Next
<1>8. Aging => Next
  BY DEF Aging, Next
<1>9. UNCHANGED allVars => UNCHANGED vars
  BY DEF allVars
<1> QED
  BY <1>5, <1>6, <1>7, <1>8, <1>9 DEF RequestsNext

\* The routes implement the specification of the breaker (withCircuitBreaker).
THEOREM ImplementsBreaker == RequestsSpec => Spec
<1>1. RequestsInit => Init
  BY DEF RequestsInit
<1> QED
  BY <1>1, StepIsBreakerStep, PTL DEF RequestsSpec, Spec

\* A closed circuit has forgotten the outage, whatever the routes do.
THEOREM RoutesClosedFresh == RequestsSpec => []ClosedIsFresh
  BY ImplementsBreaker, ClosedFresh, PTL

\* The routes do not hammer the API while it fails.
THEOREM RoutesTrialsSpaced == RequestsSpec => TrialsSpaced
  BY ImplementsBreaker, Spaced, PTL

-----------------------------------------------------------------------------
(* The rows of a request. *)

\* The points a stream reaches after its question was stored.
Asking == {"prompt", "ask", "unavailable", "throwing", "answering", "final", "persist", "silent"}

\* What holds of every request between any two of its steps.
Consistent(q) ==
  /\ q \in Requests
  /\ q.answer => q.question /\ q.pc = "over"
  /\ q.told \in {"limited", "notfound", "unavailable"} => ~q.answer
  /\ q.told \in {"limited", "notfound", "unavailable", "error"} => q.pc = "over"
  /\ q.told # "nothing" => q.pc \in {"final", "persist", "silent", "over"}
  /\ (q.kind = "stream" /\ q.pc \in Asking) => q.question
  /\ (q.told = "complete" /\ q.pc = "silent") => q.faulted
  /\ (q.told = "complete" /\ q.pc = "over" /\ ~q.faulted) => q.question /\ q.answer
  /\ (q.kind = "message" /\ q.pc \in Points \ {"over"}) => ~q.open /\ q.told = "nothing"
  /\ (q.kind = "message") => q.pc # "silent"

\* All requests are consistent.
AllConsistent == request \in [Calls -> Requests] /\ \A r \in Calls : Consistent(request[r])

\* A step that makes one request a consistent one keeps them all consistent.
LEMMA BecomesConsistent ==
  ASSUME AllConsistent, NEW r \in Calls, NEW q, Consistent(q), Becomes(r, q)
  PROVE  AllConsistent'
  BY DEF AllConsistent, Becomes, Consistent

\* A step that moves a request to another point keeps everything, if the new
\* point may come after the old one.
LEMMA PointConsistent ==
  ASSUME NEW q, Consistent(q), NEW pc \in Points \ {"over", "idle"},
         q.kind = "stream" /\ pc \in Asking => q.question,
         q.kind = "message" => pc # "silent",
         q.told # "nothing" => pc \in {"final", "persist"},
         q.pc # "over"
  PROVE  Consistent([q EXCEPT !.pc = pc])
  BY DEF Consistent, Requests

\* A request that ends before the learner was told anything, and without an
\* answer stored, is consistent whatever the reply.
LEMMA EndedConsistent ==
  ASSUME NEW q, Consistent(q), q.pc # "over",
         NEW told \in {"limited", "notfound", "error", "unavailable", "nothing"}
  PROVE  Consistent(Ended(q, told))
<1> DEFINE e == Ended(q, told)
<1>1. /\ e.pc = "over" /\ e.told = told /\ e.kind = q.kind
      /\ e.question = q.question /\ e.answer = q.answer
  BY DEF Consistent, Requests, Ended
<1>2. e \in Requests
  BY DEF Consistent, Requests, Ended, Points
<1>3. e.told # "complete" /\ e.pc \notin Asking /\ e.pc = "over" /\ e.pc # "silent"
  BY <1>1 DEF Asking
<1>4. ~e.answer
  BY <1>1 DEF Consistent
<1> HIDE DEF e
<1>5. Consistent(e)
  BY <1>2, <1>3, <1>4 DEF Consistent
<1> QED
  BY <1>5 DEF e

\* So is one whose own call was rejected.
LEMMA FaultedConsistent ==
  ASSUME NEW q, Consistent(q)
  PROVE  Consistent([q EXCEPT !.faulted = TRUE])
  BY DEF Consistent, Requests

\* A question may be stored whatever else happened.
LEMMA QuestionConsistent ==
  ASSUME NEW q, Consistent(q)
  PROVE  Consistent([q EXCEPT !.question = TRUE])
  BY DEF Consistent, Requests

\* A stream that has nothing more to do, after an answer it told only if one
\* of its calls was rejected.
LEMMA IdlesConsistent ==
  ASSUME NEW q, Consistent(q), q.kind = "stream", q.pc \in Asking,
         q.told = "nothing" \/ q.faulted
  PROVE  Consistent(Idles(q))
<1> DEFINE pc == IF q.open THEN "silent" ELSE "over"
<1>1. pc \in {"silent", "over"} /\ pc \in Points
  BY DEF Points
<1>2. Idles(q) = [q EXCEPT !.pc = pc]
  BY DEF Idles
<1> HIDE DEF pc
<1> QED
  BY <1>1, <1>2 DEF Consistent, Requests, Asking

\* The limiter, and the handlers up to the call of the API.
LEMMA CommonConsistent ==
  ASSUME AllConsistent, NEW r \in Calls, CommonStep(r)
  PROVE  AllConsistent'
<1> DEFINE q == request[r]
<1>0. Consistent(q) BY DEF AllConsistent
<1> HIDE DEF q
<1>1. ASSUME NEW told \in {"limited", "notfound", "error", "unavailable", "nothing"}, q.pc # "over",
             \/ Becomes(r, Ended(q, told))
             \/ Becomes(r, [Ended(q, told) EXCEPT !.faulted = TRUE])
             \/ Becomes(r, [[Ended(q, told) EXCEPT !.question = TRUE] EXCEPT !.faulted = TRUE])
      PROVE  AllConsistent'
  BY <1>0, <1>1, EndedConsistent, FaultedConsistent, QuestionConsistent, BecomesConsistent
<1>2. ASSUME NEW pc \in {"add", "lookup", "prompt", "ask", "question", "unavailable"},
             q.kind = "stream" /\ pc \in Asking => q.question,
             q.pc \in Points \ {"over", "final", "persist", "silent"},
             Becomes(r, [q EXCEPT !.pc = pc])
      PROVE  AllConsistent'
  <2>1. pc \in Points \ {"over", "idle"} /\ pc # "silent" BY DEF Points
  <2>2. q.told = "nothing" BY <1>0, <1>2 DEF Consistent
  <2> QED BY <1>0, <1>2, <2>1, <2>2, PointConsistent, BecomesConsistent
<1>3. CASE LimiterStep(r)
  BY <1>1, <1>2, <1>3 DEF LimiterStep, Count, AddEntry, LimiterFails, Reply, Goto, Rejected, At, Points, q, Asking
<1>4. CASE Lookup(r)
  BY <1>1, <1>2, <1>4 DEF Lookup, Reply, Goto, At, Points, q, Asking
<1>5. CASE Prepare(r) \/ PrepareFails(r) \/ PromptFails(r)
  BY <1>0, <1>1, <1>2, <1>5 DEF Prepare, PrepareFails, PromptFails, Rejected, Goto, At, Points, q, Asking, Consistent
<1>6. CASE TurnedAway(r) \/ Unavailable(r)
  BY <1>0, <1>1, <1>2, <1>6 DEF TurnedAway, Unavailable, Rejected, Reply, Goto, At, Points, q, Asking, Consistent
<1>7. CASE Call(r)
  <2> DEFINE open == request[r].kind = "stream"
             n == [q EXCEPT !.pc = "answering", !.open = open]
  <2>1. open \in BOOLEAN /\ (open <=> q.kind = "stream") BY DEF q
  <2>2. Becomes(r, n) /\ q.pc = "ask" BY <1>7 DEF Call, At, q
  <2> HIDE DEF open
  <2>3. Consistent(n) BY <1>0, <2>1, <2>2 DEF Consistent, Requests, Points, Asking
  <2> QED BY <2>2, <2>3, BecomesConsistent
<1> QED BY <1>3, <1>4, <1>5, <1>6, <1>7 DEF CommonStep

\* A question is stored before the stream asks.
LEMMA StoreQuestionConsistent ==
  ASSUME AllConsistent, NEW r \in Calls, StoreQuestion(r)
  PROVE  AllConsistent'
<1> DEFINE n == [request[r] EXCEPT !.question = TRUE, !.pc = "prompt"]
<1>1. Consistent(n)
  BY DEF AllConsistent, StoreQuestion, At, Consistent, Requests, Points, Asking
<1> QED
  BY <1>1, BecomesConsistent DEF StoreQuestion

\* The events of a stream, in any order with the closing of its connection.
LEMMA StreamConsistent ==
  ASSUME AllConsistent, NEW r \in Calls, request[r].kind = "stream", StreamStep(r)
  PROVE  AllConsistent'
<1> DEFINE q == request[r]
<1>0. Consistent(q) /\ q.kind = "stream" BY DEF AllConsistent
<1> HIDE DEF q
<1>1. CASE FinalMessage(r)
  <2>1. q.pc = "answering" /\ q.told = "nothing" /\ q.question
    BY <1>0, <1>1 DEF FinalMessage, StreamAt, At, q, Consistent, Asking
  <2>2. CASE q.open
    <3>1. Consistent([q EXCEPT !.told = "complete", !.pc = "final"])
      BY <1>0, <2>1 DEF Consistent, Requests, Points, Asking
    <3> QED BY <1>1, <2>2, <3>1, BecomesConsistent DEF FinalMessage, q
  <2>3. CASE ~q.open
    <3>1. Consistent(Idles(q)) BY <1>0, <2>1, IdlesConsistent DEF Asking
    <3> QED BY <1>1, <2>3, <3>1, BecomesConsistent DEF FinalMessage, q
  <2> QED BY <2>2, <2>3
<1>2. CASE StreamError(r) \/ Abort(r)
  <2>1. q.pc = "answering" /\ q.told = "nothing"
    BY <1>0, <1>2 DEF StreamError, Abort, StreamAt, At, q, Consistent
  <2>2. Consistent(Idles(q)) /\ Consistent(Ended(q, "unavailable"))
    BY <1>0, <2>1, IdlesConsistent, EndedConsistent DEF Asking
  <2>3. Becomes(r, Idles(q)) \/ Becomes(r, Ended(q, "unavailable"))
    BY <1>2 DEF StreamError, Abort, q
  <2> QED BY <2>2, <2>3, BecomesConsistent
<1>3. CASE SuccessRecorded(r)
  <2>1. q.pc = "final" BY <1>3 DEF SuccessRecorded, StreamAt, At, q
  <2>2. CASE Goto(r, "persist")
    <3>1. Consistent([q EXCEPT !.pc = "persist"])
      BY <1>0, <2>1 DEF Consistent, Requests, Points, Asking
    <3> QED BY <2>2, <3>1, BecomesConsistent DEF Goto, q
  <2>3. CASE Rejected(r, Idles(q))
    <3> DEFINE f == [q EXCEPT !.faulted = TRUE]
    <3>1. Consistent(f) /\ f.faulted /\ f.pc = "final" /\ f.kind = "stream"
      BY <1>0, <2>1, FaultedConsistent DEF Consistent, Requests
    <3> HIDE DEF f
    <3>2. Consistent(Idles(f)) BY <3>1, IdlesConsistent DEF Asking
    <3>3. Idles(f) = [Idles(q) EXCEPT !.faulted = TRUE]
      BY <1>0 DEF f, Idles, Consistent, Requests
    <3> QED BY <2>3, <3>2, <3>3, BecomesConsistent DEF Rejected
  <2> QED BY <1>3, <2>2, <2>3 DEF SuccessRecorded, q
<1>4. CASE Persist(r)
  <2> DEFINE e == Ended(q, q.told)
  <2>1. q.pc = "persist" /\ q.question /\ q.told \in {"nothing", "complete"}
    BY <1>0, <1>4 DEF Persist, StreamAt, At, q, Consistent, Requests, Asking
  <2>2. Consistent([e EXCEPT !.answer = TRUE])
    BY <1>0, <2>1 DEF Ended, Consistent, Requests, Points
  <2>3. ASSUME NEW stored \in BOOLEAN
        PROVE  Consistent([[e EXCEPT !.answer = stored] EXCEPT !.faulted = TRUE])
    BY <1>0, <2>1 DEF Ended, Consistent, Requests, Points
  <2> HIDE DEF e
  <2>4. \/ Becomes(r, [e EXCEPT !.answer = TRUE])
        \/ \E stored \in BOOLEAN : Becomes(r, [[e EXCEPT !.answer = stored] EXCEPT !.faulted = TRUE])
    BY <1>4 DEF Persist, Rejected, e, q
  <2> QED BY <2>2, <2>3, <2>4, BecomesConsistent
<1>5. CASE Cleanup(r)
  <2> DEFINE pc == IF q.pc = "silent" THEN "over" ELSE q.pc
             n == [q EXCEPT !.open = FALSE, !.pc = pc]
  <2>1. pc = q.pc \/ (q.pc = "silent" /\ pc = "over") OBVIOUS
  <2>2. Becomes(r, n)
    BY <1>0, <1>5 DEF Cleanup, q, Consistent, Requests
  <2> HIDE DEF pc
  <2>3. Consistent(n)
    BY <1>0, <2>1 DEF Consistent, Requests, Points, Asking
  <2> QED BY <2>2, <2>3, BecomesConsistent
<1>6. CASE CreationFails(r) \/ CreationCaught(r)
  <2>1. q.pc \in {"ask", "throwing"} /\ q.told = "nothing" /\ q.question
    BY <1>0, <1>6 DEF CreationFails, CreationCaught, StreamAt, At, q, Consistent, Asking
  <2>2. PICK pc \in {"throwing", "unavailable"} : Becomes(r, [q EXCEPT !.pc = pc])
    BY <1>6 DEF CreationFails, CreationCaught, Goto, q
  <2>3. Consistent([q EXCEPT !.pc = pc])
    BY <1>0, <2>1, <2>2, PointConsistent DEF Points
  <2> QED BY <2>2, <2>3, BecomesConsistent
<1> QED BY <1>1, <1>2, <1>3, <1>4, <1>5, <1>6 DEF StreamStep

\* A message answered at once stores both rows together.
LEMMA MessageConsistent ==
  ASSUME AllConsistent, NEW r \in Calls, request[r].kind = "message", MessageStep(r)
  PROVE  AllConsistent'
<1> DEFINE q == request[r]
           Move(pc) == [q EXCEPT !.pc = pc]
           Both(told) == [Ended(q, told) EXCEPT !.question = TRUE, !.answer = TRUE]
           Faulted(n) == [n EXCEPT !.faulted = TRUE]
<1>0. Consistent(q) /\ q.kind = "message" BY DEF AllConsistent
<1>1. q.pc \in {"answering", "final", "persist"}
  BY DEF MessageStep, Answered, NotAnswered, AnswerRecorded, PersistBoth, WholeMessage, At
<1>2. \/ \E pc \in {"final", "unavailable", "persist"} : Becomes(r, Move(pc))
      \/ Becomes(r, Faulted(Move("unavailable")))
      \/ Becomes(r, Both("complete"))
      \/ Becomes(r, Faulted(Ended(q, "error")))
      \/ Becomes(r, Faulted(Both("error")))
  BY DEF MessageStep, Answered, NotAnswered, AnswerRecorded, PersistBoth, Goto, Rejected
<1> HIDE DEF q
<1>3. ASSUME NEW pc \in {"final", "unavailable", "persist"} PROVE Consistent(Move(pc))
  BY <1>0, <1>1 DEF Consistent, Requests, Points, Asking
<1>4. Consistent(Both("complete")) /\ Consistent(Both("error")) /\ Consistent(Ended(q, "error"))
  BY <1>0, <1>1 DEF Ended, Consistent, Requests, Points
<1> HIDE DEF Move, Both
<1> QED BY <1>2, <1>3, <1>4, FaultedConsistent, BecomesConsistent

\* A request that has not begun.
LEMMA NoRequestConsistent ==
  /\ Consistent(NoRequest)
  /\ \A kind \in Kinds : Consistent([NoRequest EXCEPT !.kind = kind, !.pc = "count"])
  BY DEF Consistent, Requests, NoRequest, Points, Asking, Kinds

\* Every step keeps every request consistent.
LEMMA NextConsistent == AllConsistent /\ [RequestsNext]_allVars => AllConsistent'
<1> SUFFICES ASSUME AllConsistent, [RequestsNext]_allVars PROVE AllConsistent'
  OBVIOUS
<1>1. ASSUME NEW r \in Calls, Step(r) PROVE AllConsistent'
  BY <1>1, CommonConsistent, StoreQuestionConsistent, StreamConsistent, MessageConsistent,
     NoRequestConsistent, BecomesConsistent DEF Step, ChatStep, WholeStep, Leave
<1>2. ASSUME NEW r \in Calls, NEW kind \in Kinds, Arrive(r, kind) PROVE AllConsistent'
  BY <1>2, NoRequestConsistent, BecomesConsistent DEF Arrive
<1>3. UNCHANGED request => AllConsistent'
  BY DEF AllConsistent
<1>4. Health \/ Aging \/ UNCHANGED allVars => UNCHANGED request
  BY DEF Health, Aging, allVars, requestVars
<1> QED BY <1>1, <1>2, <1>3, <1>4 DEF RequestsNext

\* What is stored agrees with what the learner was told.
THEOREM RowsAgree == RequestsSpec => []RowsAgreeWithReplies
<1>1. RequestsInit => AllConsistent
  BY NoRequestConsistent DEF RequestsInit, AllConsistent, Consistent
<1>2. AllConsistent => RowsAgreeWithReplies
  BY DEF AllConsistent, Consistent, RowsAgreeWithReplies, At
<1> QED
  BY <1>1, <1>2, NextConsistent, PTL DEF RequestsSpec

-----------------------------------------------------------------------------
(* The rate limiter's window. *)

\* Requests that have been counted and not been added yet.
Adding == {r \in Calls : At(r, {"add"})}

\* The entries of the window, oldest first, and those that are about to be added
\* exceed the limit by less than the number of requests under way at once.
WindowBound == Len(window) + Cardinality(Adding) <= Limit + Cardinality(Calls) - 1
WindowType ==
  /\ window \in Seq(0 .. Window - 1)
  /\ \A i, j \in DOMAIN window : i <= j => window[i] >= window[j]

\* A request has a call under way with the breaker exactly while it waits for
\* the API or fails to call it.
Waiting == {"throwing", "answering"}
CallsAnswer == \A r \in Calls : At(r, Waiting) <=> call[r] # "none"

\* The invariant of the routes.
RequestsInv ==
  /\ IInv /\ AllConsistent /\ CallsAnswer
  /\ WindowType /\ WindowBound /\ faults \in 0 .. MaxFaults

\* The assumption on the constants, one by one.
LEMMA Limits ==
  /\ Limit \in Nat /\ Limit >= 1 /\ Window \in Nat /\ Window >= 1 /\ MaxFaults \in Nat
  /\ IsFiniteSet(Calls) /\ Cardinality(Calls) \in Nat
<1>1. IsFiniteSet(Calls) /\ {Limit, Window} \subseteq Nat \ {0} /\ MaxFaults \in Nat
  BY RequestsAssumption DEF RequestsAssumption
<1> QED BY <1>1, FS_CardinalityType

\* Requests about to be added are finitely many, and no more than there are.
LEMMA AddingCounts ==
  /\ IsFiniteSet(Adding) /\ Cardinality(Adding) \in Nat
  /\ Cardinality(Adding) <= Cardinality(Calls)
  BY Limits, FS_Subset, FS_CardinalityType DEF Adding

\* Every non-empty set of naturals has a least element.  (Of the library's facts
\* on well-foundedness this is the one about sets, so the set is told by the
\* intervals that end in it.)
LEMMA LeastNatural ==
  ASSUME NEW S \in SUBSET Nat, S # {}
  PROVE  \E n \in S : \A m \in S : n <= m
<1> DEFINE T == {0 .. n : n \in S}
<1>1. T \subseteq FiniteSubsetsOf(Nat) /\ T # {}
  <2>1. \A n \in S : IsFiniteSet(0 .. n) /\ 0 .. n \subseteq Nat
    BY FS_Interval
  <2> QED BY <2>1 DEF FiniteSubsetsOf
<1>2. PICK I \in T : \A J \in T : <<J, I>> \notin StrictSubsetOrdering(Nat)
  <2> HIDE DEF T
  <2> QED BY <1>1, FS_StrictSubsetOrderingWellFounded, WFMin
<1>3. PICK n \in S : I = 0 .. n
  OBVIOUS
<1>4. ASSUME NEW m \in S, m < n PROVE FALSE
  <2>1. 0 .. m \in T /\ 0 .. m \in SUBSET Nat /\ I \in SUBSET Nat
    BY <1>3
  <2>2. 0 .. m \subseteq I /\ 0 .. m # I
    <3>1. n \in 0 .. n /\ n \notin 0 .. m
      BY <1>4
    <3> QED BY <1>3, <1>4, <3>1
  <2> QED BY <1>2, <2>1, <2>2 DEF StrictSubsetOrdering
<1> QED BY <1>4

\* An entry of a sequence over a set is a member of the set.
LEMMA EntryOf ==
  ASSUME NEW S, NEW s \in Seq(S), NEW i \in 1 .. Len(s)
  PROVE  s[i] \in S
OBVIOUS

\* A sequence of members of a set is a sequence over it.
LEMMA StillSequence ==
  ASSUME NEW s \in Seq(Nat), NEW S, \A i \in 1 .. Len(s) : s[i] \in S
  PROVE  s \in Seq(S)
<1>1. s = [i \in 1 .. Len(s) |-> s[i]] /\ Len(s) \in Nat
  OBVIOUS
<1>2. [i \in 1 .. Len(s) |-> s[i]] \in [1 .. Len(s) -> S]
  OBVIOUS
<1> QED BY <1>1, <1>2

\* The oldest entries come first, so those that remain are the last ones.
LEMMA CurrentRemains ==
  ASSUME NEW ages \in Seq(Nat), \A i, j \in DOMAIN ages : i <= j => ages[i] >= ages[j]
  PROVE  /\ Current(ages) \in Seq(0 .. Window - 1)
         /\ Len(Current(ages)) <= Len(ages)
         /\ \A i, j \in DOMAIN Current(ages) : i <= j => Current(ages)[i] >= Current(ages)[j]
<1> DEFINE expired == {i \in DOMAIN ages : ages[i] >= Window}
           remaining == {i \in 1 .. Len(ages) + 1 : i \notin expired}
<1>1. Len(ages) \in Nat /\ DOMAIN ages = 1 .. Len(ages) /\ Window \in Nat
  BY Limits
<1>2. PICK k \in remaining : \A m \in remaining : k <= m
  <2>1. remaining \in SUBSET Nat /\ Len(ages) + 1 \in remaining
    BY <1>1
  <2> HIDE DEF remaining
  <2> QED BY <2>1, LeastNatural
<1>3. expired = 1 .. k - 1
  <2>1. \A i \in 1 .. k - 1 : i \in expired
    BY <1>1, <1>2
  <2>2. ASSUME NEW i \in expired, ~ (i \in 1 .. k - 1) PROVE FALSE
    <3>1. i \in 1 .. Len(ages) /\ i >= k /\ k \in 1 .. Len(ages) /\ ages[i] >= Window
      BY <1>1, <1>2, <2>2
    <3>2. ages[k] >= ages[i] /\ ages[k] \in Nat /\ ages[i] \in Nat
      BY <1>1, <3>1
    <3>3. k \in expired
      BY <1>1, <3>1, <3>2
    <3> QED BY <1>2, <3>3
  <2> QED BY <2>1, <2>2
<1>4. k \in Nat /\ 1 <= k /\ k <= Len(ages) + 1
  BY <1>1, <1>2
<1>5. Current(ages) = SubSeq(ages, k, Len(ages))
  <2>1. Cardinality(1 .. k - 1) = k - 1
    BY <1>4, FS_Interval
  <2>2. Current(ages) = SubSeq(ages, Cardinality(expired) + 1, Len(ages))
    BY DEF Current
  <2> HIDE DEF expired
  <2>3. Cardinality(expired) + 1 = k
    BY <1>3, <1>4, <2>1
  <2> QED BY <2>2, <2>3
<1> DEFINE left == Len(ages) - k + 1
<1>6. /\ left \in 0 .. Len(ages)
      /\ Current(ages) \in Seq(Nat) /\ Len(Current(ages)) = left
      /\ \A i \in 1 .. left : /\ k + i - 1 \in 1 .. Len(ages)
                             /\ Current(ages)[i] = ages[k + i - 1]
  <2> HIDE DEF expired, remaining
  <2> QED BY <1>1, <1>4, <1>5
<1>7. \A i \in 1 .. left : Current(ages)[i] \in 0 .. Window - 1
  <2> TAKE i \in 1 .. left
  <2>1. k + i - 1 \in 1 .. Len(ages) /\ k + i - 1 \notin 1 .. k - 1
    BY <1>1, <1>4, <1>6
  <2>2. ages[k + i - 1] \in Nat /\ ~ (ages[k + i - 1] >= Window)
    BY <1>1, <1>3, <2>1
  <2>3. ages[k + i - 1] < Window
    BY <1>1, <2>2
  <2> QED BY <1>1, <1>6, <2>2, <2>3
<1> HIDE DEF left, expired, remaining
<1>8. Current(ages) \in Seq(0 .. Window - 1)
  BY <1>6, <1>7, StillSequence
<1>9. ASSUME NEW i \in DOMAIN Current(ages), NEW j \in DOMAIN Current(ages), i <= j
      PROVE  Current(ages)[i] >= Current(ages)[j]
  <2>1. i \in 1 .. left /\ j \in 1 .. left
    BY <1>6
  <2>2. /\ k + i - 1 \in DOMAIN ages /\ k + j - 1 \in DOMAIN ages /\ k + i - 1 <= k + j - 1
        /\ Current(ages)[i] = ages[k + i - 1] /\ Current(ages)[j] = ages[k + j - 1]
    BY <1>1, <1>4, <1>6, <1>9, <2>1
  <2> QED BY <2>2
<1> QED BY <1>1, <1>6, <1>8, <1>9

\* Aging keeps the window's type, and does not lengthen it.
LEMMA AgingWindow ==
  ASSUME WindowType, window' = Current([i \in DOMAIN window |-> window[i] + 1])
  PROVE  WindowType' /\ Len(window') <= Len(window)
<1> DEFINE aged == [i \in DOMAIN window |-> window[i] + 1]
<1>1. aged \in Seq(Nat) /\ Len(aged) = Len(window) /\ DOMAIN aged = DOMAIN window
  <2>1. /\ window \in Seq(0 .. Window - 1) /\ DOMAIN window = 1 .. Len(window)
        /\ Len(window) \in Nat /\ Window \in Nat
    BY Limits DEF WindowType
  <2>2. \A i \in 1 .. Len(window) : window[i] + 1 \in Nat
    BY <2>1
  <2>3. aged \in [1 .. Len(window) -> Nat]
    BY <2>1, <2>2
  <2> QED BY <2>1, <2>3
<1>2. ASSUME NEW i \in DOMAIN aged, NEW j \in DOMAIN aged, i <= j PROVE aged[i] >= aged[j]
  <2>1. window[i] >= window[j] /\ window[i] \in Nat /\ window[j] \in Nat
    BY <1>1, <1>2, Limits DEF WindowType
  <2> QED BY <1>2, <2>1
<1> HIDE DEF aged
<1>3. window' = Current(aged)
  BY DEF aged
<1>4. /\ Current(aged) \in Seq(0 .. Window - 1)
      /\ Len(Current(aged)) <= Len(aged)
      /\ \A i, j \in DOMAIN Current(aged) : i <= j => Current(aged)[i] >= Current(aged)[j]
  <2>1. \A i, j \in DOMAIN aged : i <= j => aged[i] >= aged[j]
    BY <1>2
  <2>2. aged \in Seq(Nat)
    BY <1>1
  <2> QED BY ONLY <2>1, <2>2, CurrentRemains
<1> QED BY <1>1, <1>3, <1>4 DEF WindowType

\* A new entry is the youngest.
LEMMA AppendWindow ==
  ASSUME WindowType, window' = Append(window, 0)
  PROVE  WindowType' /\ Len(window') = Len(window) + 1
<1>1. /\ window \in Seq(0 .. Window - 1) /\ 0 \in 0 .. Window - 1
      /\ DOMAIN window = 1 .. Len(window) /\ Len(window) \in Nat
  BY Limits DEF WindowType
<1>2. window' \in Seq(0 .. Window - 1) /\ Len(window') = Len(window) + 1
  BY <1>1
<1>3. ASSUME NEW i \in DOMAIN window', NEW j \in DOMAIN window', i <= j
      PROVE  window'[i] >= window'[j]
  <2>1. CASE j = Len(window) + 1
    <3>1. window'[j] = 0
      BY <1>1, <2>1
    <3>2. CASE i = j
      BY <3>1, <3>2
    <3>3. CASE i # j
      <4>1. i \in 1 .. Len(window)
        BY <1>1, <1>2, <1>3, <2>1, <3>3
      <4>2. window'[i] = window[i]
        BY <1>1, <4>1
      <4>3. window[i] \in 0 .. Window - 1
        BY <1>1, <4>1, EntryOf
      <4> QED BY <3>1, <4>2, <4>3, Limits
    <3> QED BY <3>2, <3>3
  <2>2. CASE j # Len(window) + 1
    <3>1. i \in DOMAIN window /\ j \in DOMAIN window
      BY <1>1, <1>2, <1>3, <2>2
    <3>2. window'[i] = window[i] /\ window'[j] = window[j]
      BY <1>1, <3>1
    <3> QED BY <1>3, <3>1, <3>2 DEF WindowType
  <2> QED BY <2>1, <2>2
<1> QED BY <1>2, <1>3 DEF WindowType

\* What a request that is counted, added or moved on does to the bound.
LEMMA BoundKept ==
  ASSUME WindowType, WindowBound, WindowType',
         \/ Len(window') <= Len(window) /\ Adding' \subseteq Adding
         \/ Len(window') = Len(window) /\ Len(window) < Limit
         \/ Len(window') = Len(window) + 1 /\ \E r \in Adding : Adding' \subseteq Adding \ {r}
  PROVE  WindowBound'
<1>1. /\ Len(window) \in Nat /\ Len(window') \in Nat
      /\ Cardinality(Adding) \in Nat /\ Limit \in Nat /\ Cardinality(Calls) \in Nat
  BY AddingCounts, Limits DEF WindowType
<1>2. Cardinality(Adding') \in Nat /\ Cardinality(Adding') <= Cardinality(Calls)
  BY Limits, FS_Subset, FS_CardinalityType DEF Adding
<1>3. CASE Len(window') <= Len(window) /\ Adding' \subseteq Adding
  <2>1. Cardinality(Adding') <= Cardinality(Adding)
    BY <1>3, AddingCounts, FS_Subset
  <2> QED BY <1>1, <1>2, <1>3, <2>1 DEF WindowBound
<1>4. CASE Len(window') = Len(window) /\ Len(window) < Limit
  BY <1>1, <1>2, <1>4 DEF WindowBound
<1>5. ASSUME NEW r \in Adding, Len(window') = Len(window) + 1, Adding' \subseteq Adding \ {r}
      PROVE  WindowBound'
  <2>1. IsFiniteSet(Adding \ {r}) /\ Cardinality(Adding \ {r}) = Cardinality(Adding) - 1
    BY AddingCounts, FS_RemoveElement
  <2>2. Cardinality(Adding') <= Cardinality(Adding) - 1
    BY <1>5, <2>1, FS_Subset
  <2> QED BY <1>1, <1>2, <1>5, <2>2 DEF WindowBound
<1> QED BY <1>3, <1>4, <1>5

\* The limiter's steps, of which counting and adding are two.
LEMMA LimiterKeepsWindow ==
  ASSUME AllConsistent, WindowType, WindowBound, NEW r \in Calls, LimiterStep(r)
  PROVE  WindowType' /\ WindowBound'
<1>1. request \in [Calls -> Requests] /\ Len(window) \in Nat /\ Limit \in Nat
  BY Limits DEF AllConsistent, WindowType
<1>2. \A q : Becomes(r, q) /\ q.pc # "add" => Adding' \subseteq Adding \ {r}
  BY <1>1 DEF Becomes, Adding, At
<1>3. ASSUME NEW told PROVE Ended(request[r], told).pc = "over"
  BY <1>1 DEF Ended, Requests
<1>4. CASE Count(r)
  <2>1. UNCHANGED window /\ WindowType'
    BY <1>4 DEF Count, WindowType
  <2>2. CASE Len(window) >= Limit
    BY <1>2, <1>3, <1>4, <2>1, <2>2, BoundKept DEF Count, Reply
  <2>3. CASE Len(window) < Limit
    BY <2>1, <2>3, BoundKept
  <2> QED BY <1>1, <2>2, <2>3
<1>5. CASE AddEntry(r)
  <2>1. r \in Adding /\ window' = Append(window, 0) /\ Goto(r, "lookup")
    BY <1>5 DEF AddEntry, Adding
  <2>2. Adding' \subseteq Adding \ {r}
    BY <1>1, <1>2, <2>1 DEF Goto, Requests
  <2> QED BY <2>1, <2>2, AppendWindow, BoundKept
<1>6. CASE LimiterFails(r)
  <2>1. Adding' \subseteq Adding \ {r}
    <3>1. [Ended(request[r], "error") EXCEPT !.faulted = TRUE].pc = "over"
      BY <1>1 DEF Ended, Requests
    <3> QED BY <1>2, <1>6, <3>1 DEF LimiterFails, Rejected
  <2>2. CASE UNCHANGED window
    BY <2>1, <2>2, BoundKept DEF WindowType
  <2>3. CASE r \in Adding /\ window' = Append(window, 0)
    BY <2>1, <2>3, AppendWindow, BoundKept
  <2> QED BY <1>6, <2>2, <2>3 DEF LimiterFails, Adding
<1> QED BY <1>4, <1>5, <1>6 DEF LimiterStep

\* The steps behind the limiter leave the window alone, and no request goes back
\* to it.
LEMMA OthersKeepWindow ==
  ASSUME AllConsistent, WindowType, WindowBound, UNCHANGED window,
         \A r \in Calls : request'[r].pc = "add" => request[r].pc = "add"
  PROVE  WindowType' /\ WindowBound'
<1>1. WindowType'
  BY DEF WindowType
<1>2. Adding' \subseteq Adding /\ Len(window') <= Len(window)
  BY DEF Adding, At, WindowType
<1> QED BY <1>1, <1>2, BoundKept

\* Every step keeps the window.
LEMMA NextKeepsWindow ==
  ASSUME AllConsistent, WindowType, WindowBound, [RequestsNext]_allVars
  PROVE  WindowType' /\ WindowBound'
<1>1. request \in [Calls -> Requests]
  BY DEF AllConsistent
<1>2. ASSUME NEW r \in Calls, NEW q, Becomes(r, q), q.pc # "add", UNCHANGED window
      PROVE  WindowType' /\ WindowBound'
  <2>1. \A p \in Calls : request'[p].pc = "add" => request[p].pc = "add"
    BY <1>1, <1>2 DEF Becomes
  <2> QED BY <1>2, <2>1, OthersKeepWindow
<1>3. ASSUME NEW r \in Calls, Step(r) PROVE WindowType' /\ WindowBound'
  <2> DEFINE q == request[r]
  <2>1. /\ \A told : Ended(q, told).pc = "over"
        /\ \A pc : [q EXCEPT !.pc = pc].pc = pc
        /\ \A told : [Ended(q, told) EXCEPT !.faulted = TRUE].pc = "over"
        /\ Idles(q).pc # "add" /\ [Idles(q) EXCEPT !.faulted = TRUE].pc # "add"
    BY <1>1 DEF Ended, Idles, Requests
  <2>2. CASE LimiterStep(r)
    BY <2>2, LimiterKeepsWindow
  <2>3. CASE Leave(r)
    BY <1>2, <2>3 DEF Leave, NoRequest
  <2>4. CASE Lookup(r) \/ Prepare(r) \/ TurnedAway(r) \/ Unavailable(r)
    BY <1>2, <2>1, <2>4 DEF Lookup, Prepare, TurnedAway, Unavailable, Reply, Goto, Rejected
  <2>5. CASE PrepareFails(r) \/ PromptFails(r)
    <3>1. [[Ended(q, "error") EXCEPT !.question = TRUE] EXCEPT !.faulted = TRUE].pc = "over"
      BY <1>1 DEF Ended, Requests
    <3> QED BY <1>2, <2>1, <2>5, <3>1 DEF PrepareFails, PromptFails, Rejected
  <2>6. CASE Call(r)
    BY <1>1, <1>2, <2>6 DEF Call, Requests
  <2>7. CASE StoreQuestion(r)
    BY <1>1, <1>2, <2>7 DEF StoreQuestion, Requests
  <2>8. CASE FinalMessage(r) \/ StreamError(r) \/ Abort(r) \/ SuccessRecorded(r)
    <3>1. [q EXCEPT !.told = "complete", !.pc = "final"].pc = "final"
      BY <1>1 DEF Requests
    <3> QED BY <1>2, <2>1, <2>8, <3>1 DEF FinalMessage, StreamError, Abort, SuccessRecorded, Goto, Rejected
  <2>9. CASE Persist(r)
    <3> DEFINE e == Ended(q, q.told)
    <3>1. \A stored \in BOOLEAN : /\ [e EXCEPT !.answer = stored].pc = "over"
                                  /\ [[e EXCEPT !.answer = stored] EXCEPT !.faulted = TRUE].pc = "over"
      BY <1>1 DEF Ended, Requests
    <3> HIDE DEF e
    <3>2. \/ Becomes(r, [e EXCEPT !.answer = TRUE])
          \/ \E stored \in BOOLEAN : Becomes(r, [[e EXCEPT !.answer = stored] EXCEPT !.faulted = TRUE])
      BY <2>9 DEF Persist, Rejected, e
    <3>3. UNCHANGED window
      BY <2>9 DEF Persist
    <3> QED BY <1>2, <3>1, <3>2, <3>3
  <2>10. CASE Cleanup(r)
    <3> DEFINE n == [q EXCEPT !.open = FALSE, !.pc = IF @ = "silent" THEN "over" ELSE @]
    <3>1. n.pc \in {q.pc, "over"} /\ Becomes(r, n) /\ UNCHANGED window
      BY <1>1, <2>10 DEF Cleanup, Requests
    <3> HIDE DEF n
    <3>2. \A p \in Calls : request'[p].pc = "add" => request[p].pc = "add"
      BY <1>1, <3>1 DEF Becomes
    <3> QED BY <3>1, <3>2, OthersKeepWindow
  <2>11. CASE Answered(r) \/ NotAnswered(r) \/ AnswerRecorded(r)
    <3>1. [[q EXCEPT !.pc = "unavailable"] EXCEPT !.faulted = TRUE].pc = "unavailable"
      BY <1>1 DEF Requests
    <3> QED BY <1>2, <2>1, <2>11, <3>1 DEF Answered, NotAnswered, AnswerRecorded, Goto, Rejected
  <2>13. CASE CreationFails(r) \/ CreationCaught(r)
    BY <1>2, <2>1, <2>13 DEF CreationFails, CreationCaught, Goto
  <2>12. CASE PersistBoth(r)
    <3> DEFINE Both(told) == [Ended(q, told) EXCEPT !.question = TRUE, !.answer = TRUE]
    <3>1. \A told : Both(told).pc = "over" /\ [Both(told) EXCEPT !.faulted = TRUE].pc = "over"
      BY <1>1 DEF Ended, Requests
    <3>2. \/ Becomes(r, Both("complete"))
          \/ Becomes(r, [Ended(q, "error") EXCEPT !.faulted = TRUE])
          \/ Becomes(r, [Both("error") EXCEPT !.faulted = TRUE])
      BY <2>12 DEF PersistBoth, Rejected
    <3>3. UNCHANGED window
      BY <2>12 DEF PersistBoth
    <3> HIDE DEF Both
    <3> QED BY <1>2, <2>1, <3>1, <3>2, <3>3
  <2> QED
    BY <1>3, <2>2, <2>3, <2>4, <2>5, <2>6, <2>7, <2>8, <2>9, <2>10, <2>11, <2>12, <2>13
       DEF Step, ChatStep, WholeStep, CommonStep, StreamStep, MessageStep
<1>4. ASSUME NEW r \in Calls, NEW kind \in Kinds, Arrive(r, kind) PROVE WindowType' /\ WindowBound'
  BY <1>2, <1>4 DEF Arrive, NoRequest
<1>5. CASE Health \/ UNCHANGED allVars
  BY <1>5, OthersKeepWindow DEF Health, allVars, requestVars
<1>6. CASE Aging
  <2>1. WindowType' /\ Len(window') <= Len(window)
    BY <1>6, AgingWindow DEF Aging
  <2>2. Adding' \subseteq Adding
    BY <1>6 DEF Aging, Adding, At
  <2> QED BY <2>1, <2>2, BoundKept
<1> QED BY <1>3, <1>4, <1>5, <1>6 DEF RequestsNext

-----------------------------------------------------------------------------
\* A request waits for the API exactly while the breaker has let it through.
LEMMA NextKeepsCalls ==
  ASSUME AllConsistent, TypeOK, CallsAnswer, [RequestsNext]_allVars
  PROVE  CallsAnswer'
<1>1. request \in [Calls -> Requests] /\ call \in [Calls -> {"none", "normal", "trial"}]
  BY DEF AllConsistent, TypeOK
<1>2. ASSUME NEW r \in Calls, NEW q, Becomes(r, q), UNCHANGED call,
             request[r].pc \notin Waiting, q.pc \notin Waiting
      PROVE  CallsAnswer'
  BY <1>1, <1>2 DEF Becomes, CallsAnswer, At
<1>3. ASSUME NEW r \in Calls, NEW q, Becomes(r, q), NEW ending, End(r, ending), q.pc \notin Waiting
      PROVE  CallsAnswer'
  BY <1>1, <1>3 DEF Becomes, CallsAnswer, At, End
<1>4. ASSUME NEW r \in Calls, Step(r) PROVE CallsAnswer'
  <2> DEFINE q == request[r]
  <2>1. /\ \A told : Ended(q, told).pc = "over" /\ [Ended(q, told) EXCEPT !.faulted = TRUE].pc = "over"
        /\ \A pc : [q EXCEPT !.pc = pc].pc = pc /\ [[q EXCEPT !.pc = pc] EXCEPT !.faulted = TRUE].pc = pc
        /\ Idles(q).pc \in {"silent", "over"} /\ [Idles(q) EXCEPT !.faulted = TRUE].pc \in {"silent", "over"}
        /\ \A pc : At(r, {pc}) => q.pc = pc
    BY <1>1 DEF Ended, Idles, Requests, At
  <2>2. CASE LimiterStep(r) \/ Leave(r)
    BY <1>2, <2>1, <2>2 DEF LimiterStep, Count, AddEntry, LimiterFails, Leave, Reply, Goto, Rejected,
                            NoRequest, vars, At, Waiting
  <2>3. CASE Lookup(r) \/ Prepare(r) \/ TurnedAway(r) \/ Unavailable(r)
    <3>1. q.pc \in {"lookup", "prompt", "ask", "unavailable"} /\ UNCHANGED call
      BY <2>1, <2>3 DEF Lookup, Prepare, TurnedAway, Unavailable, Refuse, vars
    <3>2. q.pc \notin Waiting
      BY <3>1 DEF Waiting
    <3>3. \/ \E told : Reply(r, told)
          \/ \E pc \in {"question", "prompt", "ask", "unavailable"} : Goto(r, pc)
          \/ Rejected(r, Ended(q, "error"))
      BY <2>3 DEF Lookup, Prepare, TurnedAway, Unavailable
    <3>4. PICK t : Becomes(r, t) /\ t.pc \in {"over", "question", "prompt", "ask", "unavailable"}
      BY <2>1, <3>3 DEF Reply, Goto, Rejected
    <3> QED BY <1>2, <3>1, <3>2, <3>4 DEF Waiting
  <2>4. CASE PrepareFails(r) \/ PromptFails(r)
    <3>1. [[Ended(q, "error") EXCEPT !.question = TRUE] EXCEPT !.faulted = TRUE].pc = "over"
      BY <1>1 DEF Ended, Requests
    <3> QED BY <1>2, <2>1, <2>4, <3>1 DEF PrepareFails, PromptFails, Rejected, vars, At, Waiting
  <2>5. CASE Call(r)
    <3>1. Becomes(r, [q EXCEPT !.pc = "answering", !.open = request[r].kind = "stream"]) /\ Admit(r)
      BY <2>5 DEF Call
    <3>2. request'[r].pc = "answering" /\ \A p \in Calls \ {r} : request'[p] = request[p]
      BY <1>1, <3>1 DEF Becomes, Requests
    <3>3. call'[r] # "none" /\ \A p \in Calls \ {r} : call'[p] = call[p]
      BY <1>1, <3>1 DEF Admit
    <3> QED BY <3>2, <3>3 DEF CallsAnswer, At, Waiting
  <2>6. CASE StoreQuestion(r)
    <3>1. [q EXCEPT !.question = TRUE, !.pc = "prompt"].pc = "prompt"
      BY <1>1 DEF Requests
    <3> QED BY <1>2, <2>1, <2>6, <3>1 DEF StoreQuestion, vars, Waiting
  <2>7. CASE FinalMessage(r) \/ StreamError(r) \/ Abort(r) \/ Answered(r) \/ NotAnswered(r)
    <3>1. [q EXCEPT !.told = "complete", !.pc = "final"].pc = "final"
      BY <1>1 DEF Requests
    <3>2. \E t, ending : Becomes(r, t) /\ End(r, ending) /\ t.pc \in {"over", "silent", "final", "unavailable"}
      BY <2>1, <2>7, <3>1 DEF FinalMessage, StreamError, Abort, Answered, NotAnswered, Goto
    <3> QED BY <1>3, <3>2 DEF Waiting
  <2>8. CASE SuccessRecorded(r) \/ AnswerRecorded(r)
    <3>1. q.pc = "final" /\ UNCHANGED call
      BY <2>1, <2>8 DEF SuccessRecorded, AnswerRecorded, StreamAt, WholeMessage, vars
    <3>2. PICK t : Becomes(r, t) /\ t.pc \in {"persist", "silent", "over", "unavailable"}
      BY <2>1, <2>8 DEF SuccessRecorded, AnswerRecorded, Goto, Rejected
    <3> QED BY <1>2, <3>1, <3>2 DEF Waiting
  <2>9. CASE Persist(r)
    <3> DEFINE e == Ended(q, q.told)
    <3>1. \A stored \in BOOLEAN : /\ [e EXCEPT !.answer = stored].pc = "over"
                                  /\ [[e EXCEPT !.answer = stored] EXCEPT !.faulted = TRUE].pc = "over"
      BY <1>1 DEF Ended, Requests
    <3> HIDE DEF e
    <3>2. \/ Becomes(r, [e EXCEPT !.answer = TRUE])
          \/ \E stored \in BOOLEAN : Becomes(r, [[e EXCEPT !.answer = stored] EXCEPT !.faulted = TRUE])
      BY <2>9 DEF Persist, Rejected, e
    <3>3. UNCHANGED call /\ q.pc = "persist"
      BY <2>1, <2>9 DEF Persist, StreamAt, vars
    <3> QED BY <1>2, <3>1, <3>2, <3>3 DEF Waiting
  <2>10. CASE Cleanup(r)
    <3> DEFINE n == [q EXCEPT !.open = FALSE, !.pc = IF @ = "silent" THEN "over" ELSE @]
    <3>1. (n.pc \in Waiting <=> q.pc \in Waiting) /\ Becomes(r, n) /\ UNCHANGED call
      BY <1>1, <2>10 DEF Cleanup, Requests, vars, Waiting
    <3> HIDE DEF n
    <3> QED BY <1>1, <3>1 DEF Becomes, CallsAnswer, At
  <2>11. CASE PersistBoth(r)
    <3> DEFINE Both(told) == [Ended(q, told) EXCEPT !.question = TRUE, !.answer = TRUE]
    <3>1. \A told : Both(told).pc = "over" /\ [Both(told) EXCEPT !.faulted = TRUE].pc = "over"
      BY <1>1 DEF Ended, Requests
    <3>2. \/ Becomes(r, Both("complete"))
          \/ Becomes(r, [Ended(q, "error") EXCEPT !.faulted = TRUE])
          \/ Becomes(r, [Both("error") EXCEPT !.faulted = TRUE])
      BY <2>11 DEF PersistBoth, Rejected
    <3>3. UNCHANGED call /\ q.pc = "persist"
      BY <2>1, <2>11 DEF PersistBoth, WholeMessage, vars
    <3> HIDE DEF Both
    <3> QED BY <1>2, <2>1, <3>1, <3>2, <3>3 DEF Waiting
  <2>12. CASE CreationFails(r)
    <3>1. Becomes(r, [q EXCEPT !.pc = "throwing"]) /\ Admit(r)
      BY <2>12 DEF CreationFails, Goto
    <3>2. request'[r].pc = "throwing" /\ \A p \in Calls \ {r} : request'[p] = request[p]
      BY <1>1, <3>1 DEF Becomes, Requests
    <3>3. call'[r] # "none" /\ \A p \in Calls \ {r} : call'[p] = call[p]
      BY <1>1, <3>1 DEF Admit
    <3> QED BY <3>2, <3>3 DEF CallsAnswer, At, Waiting
  <2>13. CASE CreationCaught(r)
    <3>1. \E t, ending : Becomes(r, t) /\ End(r, ending) /\ t.pc = "unavailable"
      BY <2>1, <2>13 DEF CreationCaught, Goto
    <3> QED BY <1>3, <3>1 DEF Waiting
  <2> QED
    BY <1>4, <2>2, <2>3, <2>4, <2>5, <2>6, <2>7, <2>8, <2>9, <2>10, <2>11, <2>12, <2>13
       DEF Step, ChatStep, WholeStep, CommonStep, StreamStep, MessageStep
<1>5. ASSUME NEW r \in Calls, NEW kind \in Kinds, Arrive(r, kind) PROVE CallsAnswer'
  BY <1>2, <1>5 DEF Arrive, NoRequest, At, vars, Waiting
<1>6. CASE Health \/ Aging \/ UNCHANGED allVars
  BY <1>6 DEF Health, Aging, Look, Elapse, allVars, vars, requestVars, CallsAnswer, At
<1> QED BY <1>4, <1>5, <1>6 DEF RequestsNext

\* No more calls are rejected than MaxFaults allows.
LEMMA NextKeepsFaults ==
  ASSUME faults \in 0 .. MaxFaults, [RequestsNext]_allVars
  PROVE  faults' \in 0 .. MaxFaults
<1>1. \A r, q : Rejected(r, q) => faults' \in 0 .. MaxFaults
  BY Limits DEF Rejected
<1>2. ASSUME NEW r \in Calls, Step(r) PROVE faults' \in 0 .. MaxFaults
  <2>1. CASE CommonStep(r) \/ StoreQuestion(r) \/ Leave(r)
    BY <1>1, <2>1 DEF CommonStep, LimiterStep, Count, AddEntry, LimiterFails, Lookup, Prepare,
                      PrepareFails, PromptFails, TurnedAway, Call, Unavailable, StoreQuestion, Leave
  <2>2. CASE StreamStep(r) \/ MessageStep(r)
    BY <1>1, <2>2 DEF StreamStep, CreationFails, CreationCaught, FinalMessage, StreamError, Abort, SuccessRecorded, Persist, Cleanup,
                      MessageStep, Answered, NotAnswered, AnswerRecorded, PersistBoth
  <2> QED BY <1>2, <2>1, <2>2 DEF Step, ChatStep, WholeStep
<1>3. ASSUME NEW r \in Calls, NEW kind \in Kinds, Arrive(r, kind) PROVE UNCHANGED faults
  BY <1>3 DEF Arrive
<1>4. CASE Health \/ Aging \/ UNCHANGED allVars
  BY <1>4 DEF Health, Aging, allVars, requestVars
<1> QED BY <1>2, <1>3, <1>4 DEF RequestsNext

\* The invariant of the routes holds at first and is kept.
LEMMA RequestsInvariant == RequestsSpec => []RequestsInv
<1>1. RequestsInit => RequestsInv
  <2> SUFFICES ASSUME RequestsInit PROVE RequestsInv
    OBVIOUS
  <2>1. IInv
    BY InitIInv DEF RequestsInit
  <2>2. AllConsistent
    BY NoRequestConsistent DEF RequestsInit, AllConsistent, Consistent
  <2>3. CallsAnswer
    BY DEF RequestsInit, Init, CallsAnswer, At, NoRequest, Waiting
  <2>4. WindowType /\ Len(window) = 0
    BY DEF RequestsInit, WindowType
  <2>5. WindowBound
    <3>1. Adding = {}
      BY DEF RequestsInit, Adding, At, NoRequest
    <3> QED BY <2>4, <3>1, Limits, FS_EmptySet DEF WindowBound
  <2>6. faults \in 0 .. MaxFaults
    BY Limits DEF RequestsInit
  <2> QED BY <2>1, <2>2, <2>3, <2>4, <2>5, <2>6 DEF RequestsInv
<1>2. RequestsInv /\ [RequestsNext]_allVars => RequestsInv'
  <2> SUFFICES ASSUME RequestsInv, [RequestsNext]_allVars PROVE RequestsInv'
    OBVIOUS
  <2>1. IInv'
    BY StepIsBreakerStep, NextIInv DEF RequestsInv
  <2> QED
    BY <2>1, NextConsistent, NextKeepsCalls, NextKeepsWindow, NextKeepsFaults DEF RequestsInv, IInv
<1> QED BY <1>1, <1>2, PTL DEF RequestsSpec

\* The breaker, the requests and the window have their types.
THEOREM RequestsTypeCorrect == RequestsSpec => []RequestsTypeOK
<1>1. RequestsInv => RequestsTypeOK
  BY DEF RequestsInv, IInv, AllConsistent, CallsAnswer, WindowType, Waiting, RequestsTypeOK
<1> QED BY <1>1, RequestsInvariant, PTL

\* The limiter lets in more than its limit, but by less than the number of
\* requests under way at once, for every limit and window.
THEOREM OvershootBounded == RequestsSpec => []BoundedOvershoot
<1>1. RequestsInv => BoundedOvershoot
  <2> SUFFICES ASSUME WindowType, WindowBound PROVE BoundedOvershoot
    BY DEF RequestsInv
  <2>1. Len(window) \in Nat
    BY DEF WindowType
  <2> QED BY <2>1, AddingCounts, Limits DEF WindowBound, BoundedOvershoot
<1> QED BY <1>1, RequestsInvariant, PTL
=============================================================================

---------------------------- MODULE CircuitBreaker ----------------------------
(***************************************************************************)
(* The in-memory circuit breaker in front of the Anthropic API and the     *)
(* tutor calls that go through it (withCircuitBreaker): a call asks the    *)
(* breaker, runs for a while, and reports success or failure later, when   *)
(* the breaker may be in another state than the one that let it through.   *)
(*                                                                         *)
(* The breaker is one record and its methods are operators on it, so that  *)
(* a module with more of the system can keep a breaker of its own.  Time   *)
(* is counted in units; ages are not distinguished beyond MaxResetTimeout, *)
(* the largest value they are compared with, nor are failures counted      *)
(* beyond FailureThreshold.                                                *)
(***************************************************************************)
EXTENDS Integers

CONSTANTS
  Calls,                \* calls that may be in flight together, reused
  FailureThreshold,     \* failures in a row that open the circuit
  HalfOpenMaxAttempts,  \* trials let through in one half-open period
  ResetTimeout,         \* the first wait before a trial
  MaxResetTimeout,      \* the wait doubles up to this
  Endings               \* how an admitted call may end, see End

ASSUME BreakerAssumption ==
  /\ {FailureThreshold, HalfOpenMaxAttempts, ResetTimeout} \subseteq Nat \ {0}
  /\ MaxResetTimeout \in Nat
  /\ ResetTimeout <= MaxResetTimeout
  /\ Endings \subseteq {"success", "failure", "unreported"}

VARIABLES
  breaker,     \* the closure variables of createCircuitBreaker
  call,        \* each call: "none", or how it was let through
  sinceTrial   \* history: time since a trial was let through

vars == <<breaker, call, sinceTrial>>

Least(a, b) == IF a <= b THEN a ELSE b
Later(age) == Least(age + 1, MaxResetTimeout)

\* lastFailureTime is 0 at first: long ago.
NewBreaker ==
  [state |-> "CLOSED", consecutiveFailures |-> 0, sinceFailure |-> MaxResetTimeout,
   currentResetTimeout |-> ResetTimeout, halfOpenAttempts |-> 0]

-----------------------------------------------------------------------------
(* The methods of the breaker. *)

ShouldTransitionToHalfOpen(b) ==
  b.state = "OPEN" /\ b.sinceFailure >= b.currentResetTimeout

\* The `state` getter, and the first thing assertClosed does.
Looked(b) ==
  IF ShouldTransitionToHalfOpen(b)
  THEN [b EXCEPT !.state = "HALF_OPEN", !.halfOpenAttempts = 0]
  ELSE b

\* The rest of assertClosed, on a breaker that has been looked at.
Refuses(b) ==
  \/ b.state = "OPEN"
  \/ b.state = "HALF_OPEN" /\ b.halfOpenAttempts >= HalfOpenMaxAttempts

LetThrough(b) ==
  IF b.state = "HALF_OPEN" THEN [b EXCEPT !.halfOpenAttempts = @ + 1] ELSE b

\* Mutant: the wait is not restarted when a trial fails.
OpenedWithoutRestart(b) ==
  [b EXCEPT !.state = "OPEN",
            !.sinceFailure = IF b.state = "CLOSED" THEN 0 ELSE @]

Opened(b) == [b EXCEPT !.state = "OPEN", !.sinceFailure = 0]

\* Mutant: the wait keeps the length it grew to.
ClosedKeepingTimeout(b) == [b EXCEPT !.state = "CLOSED", !.consecutiveFailures = 0,
                                     !.halfOpenAttempts = 0]

Reclosed(b) ==
  [b EXCEPT !.state = "CLOSED", !.consecutiveFailures = 0,
            !.currentResetTimeout = ResetTimeout, !.halfOpenAttempts = 0]

RecordSuccess(b) ==
  IF b.state = "HALF_OPEN" THEN Reclosed(b) ELSE [b EXCEPT !.consecutiveFailures = 0]

RecordFailure(b) ==
  LET c == [b EXCEPT !.consecutiveFailures = Least(@ + 1, FailureThreshold)] IN
  IF b.state = "HALF_OPEN"
  THEN Opened([c EXCEPT !.currentResetTimeout = Least(2 * @, MaxResetTimeout)])
  ELSE IF c.consecutiveFailures >= FailureThreshold THEN Opened(c) ELSE c

Aged(b) == [b EXCEPT !.sinceFailure = Later(@)]

-----------------------------------------------------------------------------
(* The calls. *)

Init ==
  /\ breaker = NewBreaker
  /\ call = [c \in Calls |-> "none"]
  /\ sinceTrial = MaxResetTimeout

Admit(c) ==
  LET b == Looked(breaker) IN
  /\ call[c] = "none"
  /\ ~Refuses(b)
  /\ breaker' = LetThrough(b)
  /\ \/ /\ b.state = "HALF_OPEN"
        /\ call' = [call EXCEPT ![c] = "trial"]
        /\ sinceTrial' = 0
     \/ /\ b.state # "HALF_OPEN"
        /\ call' = [call EXCEPT ![c] = "normal"]
        /\ UNCHANGED sinceTrial

\* assertClosed throws CircuitOpenError.
Refuse ==
  LET b == Looked(breaker) IN
  Refuses(b) /\ breaker' = b /\ UNCHANGED <<call, sinceTrial>>

\* GET /health, and the routes when they report an error, read `state`.
Look == breaker' = Looked(breaker) /\ UNCHANGED <<call, sinceTrial>>

\* The promise settles, or the stream emits finalMessage or error.
\* "unreported": the call ends and the breaker is told nothing, which is what
\* happens when creating the stream throws, or when the stream is aborted by
\* one of its timeouts and ends with an event other than those two.
End(c, ending) ==
  /\ call[c] # "none"
  /\ breaker' = CASE ending = "success"    -> RecordSuccess(breaker)
                  [] ending = "failure"    -> RecordFailure(breaker)
                  [] ending = "unreported" -> breaker
  /\ call' = [call EXCEPT ![c] = "none"]
  /\ UNCHANGED sinceTrial

Elapse ==
  /\ breaker' = Aged(breaker)
  /\ sinceTrial' = Later(sinceTrial)
  /\ UNCHANGED call

Ask == Refuse \/ \E c \in Calls : Admit(c)

Next ==
  \/ Ask
  \/ Look
  \/ \E c \in Calls, ending \in Endings : End(c, ending)
  \/ Elapse

Spec == Init /\ [][Next]_vars

-----------------------------------------------------------------------------
(* Properties. *)

Ages == 0 .. MaxResetTimeout

Breakers ==
  [state : {"CLOSED", "OPEN", "HALF_OPEN"},
   consecutiveFailures : 0 .. FailureThreshold,
   sinceFailure : Ages,
   currentResetTimeout : ResetTimeout .. MaxResetTimeout,
   halfOpenAttempts : 0 .. HalfOpenMaxAttempts]

\* The breaker's fields and the calls have their types.
TypeOK ==
  /\ breaker \in Breakers
  /\ call \in [Calls -> {"none", "normal", "trial"}]
  /\ sinceTrial \in Ages

\* A closed circuit has forgotten the outage, whatever late results the calls
\* of earlier periods reported: it is below the threshold and would wait the
\* first timeout, not a doubled one (transitionToClosed).
ClosedIsFresh ==
  breaker.state = "CLOSED" =>
    /\ breaker.consecutiveFailures < FailureThreshold
    /\ breaker.currentResetTimeout = ResetTimeout

\* The API is not hammered while it fails: the first trial of a half-open
\* period comes at least resetTimeoutMs after the last trial of the previous
\* one, although late failures re-open the circuit and late successes close it
\* at any moment (assertClosed, recordFailure).
TrialsSpaced ==
  [][\A c \in Calls :
       (call[c] = "none" /\ call'[c] = "trial" /\ breaker'.halfOpenAttempts = 1)
         => sinceTrial >= ResetTimeout]_vars
=============================================================================

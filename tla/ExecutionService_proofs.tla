------------------------ MODULE ExecutionService_proofs ------------------------
(***************************************************************************)
(* The slots of the execution service are those of the handlers under way, *)
(* and its answers are true, for any number of calls, slots, lost          *)
(* connections and restarts.                                               *)
(***************************************************************************)
EXTENDS ExecutionService, FiniteSetTheorems, TLAPS

Phases == {"none", "admit", "parse", "mkdir", "files", "build", "run", "write", "return"}
Answers == [status : Nat, exit : Int, timedOut : BOOLEAN]
Handlers ==
  [pc : Phases, request : Requests, dir : BOOLEAN, gone : BOOLEAN,
   ctx : {"live", "expired", "cancelled"},
   answer : Answers]
Children == [state : {"none", "running", "ended"}, exit : Int, held : BOOLEAN, left : BOOLEAN]
Facts ==
  [end : {"none", "notCompiled", "exit0", "exit1", "exit2"}, late : {"no", "build", "run"}]

TypeOK ==
  /\ server \in {"up", "draining", "down"}
  /\ slots \in Nat
  /\ call \in [Calls -> {"idle", "sent", "retry", "error", "timeout",
                         "success", "compileError", "runtimeError"}]
  /\ handler \in [Calls -> Handlers]
  /\ child \in [Calls -> Children]
  /\ fact \in [Calls -> Facts]
  /\ cuts \in Nat

\* What each step of a handler may rely on: nothing is answered before "write",
\* and what is kept and what is known fit the phase.
BeforePhases == {"admit", "parse", "mkdir", "files"}
PhaseInv(h, p, f) ==
  /\ h.pc \in Phases \ {"write", "return"} => h.answer = Nothing
  /\ h.dir => h.pc \in {"files", "build", "run"}
  /\ p.state # "none" => h.pc \in {"build", "run"}
  /\ p.state = "ended" /\ p.exit = -1 /\ (p.held \/ p.left) => h.ctx # "live"
  /\ h.pc \in BeforePhases => f = NoFact
  /\ h.pc \in BeforePhases => h.ctx # "expired"
  /\ h.pc = "build" =>
       /\ f.late # "run"
       /\ h.ctx = "expired" => f.late = "build"
       /\ p.state = "running" \/ p.exit = 0 => f.end = "none"
  /\ h.pc = "run" =>
       /\ h.ctx # "expired" => f.late # "run"
       /\ h.ctx = "expired" => f.late = "run"
       /\ p.state = "running" => f.end = "none"
       /\ p.state = "ended" =>
            /\ p.exit = 0 => f.end = "exit0"
            /\ p.exit \notin {0, 2} => f.end \in {"none", "exit1"}

\* What Outcome makes of an answer is true of the program.
TrueOutcome(o, f) ==
  /\ o = "success" => f.end = "exit0" /\ f.late # "run"
  /\ o = "timeout" => f.late # "no"
  /\ o = "runtimeError" => f.end \in {"none", "exit1"}

CallInv(c, h, p, f, o) ==
  /\ PhaseInv(h, p, f)
  /\ h.pc = "write" => TrueOutcome(Outcome(h.answer), f)
  /\ h.pc \notin {"none", "return"} => o \in {"sent", "error"}
  /\ TrueOutcome(o, f)

Holding == {c \in Calls : handler[c].pc \notin {"none", "admit"} /\ TookSlot(c)}

\* What goes on after its Execute has ended by itself, not been killed.
OnlyEnded == survivors \subseteq {"ended"}

IInv ==
  /\ TypeOK
  /\ slots = Cardinality(Holding)
  /\ slots <= MaxConcurrent
  /\ \A c \in Calls : CallInv(c, handler[c], child[c], fact[c], call[c])

-----------------------------------------------------------------------------
(* The two parts that every step must keep. *)

\* A step of one call leaves the others alone.
OnlyCall(c) ==
  \A d \in Calls \ {c} :
    /\ handler'[d] = handler[d] /\ child'[d] = child[d]
    /\ fact'[d] = fact[d] /\ call'[d] = call[d]

\* A step that neither takes nor gives back a slot.
LEMMA SlotsKept ==
  ASSUME NEW c \in Calls, OnlyCall(c), slots = Cardinality(Holding), slots' = slots,
         c \in Holding' <=> c \in Holding
  PROVE  slots' = Cardinality(Holding')
<1>1. \A d \in Calls : d \in Holding' <=> d \in Holding
  BY DEF OnlyCall, Holding, TookSlot
<1>2. Holding' = Holding
  BY <1>1 DEF Holding
<1> QED BY <1>2

\* A step of one call keeps what is known of each.
LEMMA CallsKept ==
  ASSUME NEW c \in Calls, OnlyCall(c),
         \A d \in Calls : CallInv(d, handler[d], child[d], fact[d], call[d]),
         CallInv(c, handler'[c], child'[c], fact'[c], call'[c])
  PROVE  \A d \in Calls : CallInv(d, handler'[d], child'[d], fact'[d], call'[d])
<1> SUFFICES ASSUME NEW d \in Calls
    PROVE CallInv(d, handler'[d], child'[d], fact'[d], call'[d])
  OBVIOUS
<1>1. CASE d = c BY <1>1
<1>2. CASE d # c BY <1>2 DEF OnlyCall
<1> QED BY <1>1, <1>2

\* A handler that goes on, and one that has an answer.
LEMMA MoveType ==
  ASSUME handler \in [Calls -> Handlers], NEW c \in Calls, NEW pc \in Phases, Goto(c, pc)
  PROVE  /\ handler' \in [Calls -> Handlers]
         /\ handler'[c] = [handler[c] EXCEPT !.pc = pc]
         /\ \A d \in Calls \ {c} : handler'[d] = handler[d]
<1>1. handler' = [handler EXCEPT ![c] = [handler[c] EXCEPT !.pc = pc]]
  BY DEF Goto
<1>2. [handler[c] EXCEPT !.pc = pc] \in Handlers
  BY DEF Handlers
<1> QED BY <1>1, <1>2

\* A handler that has an answer.
LEMMA FinishType ==
  ASSUME handler \in [Calls -> Handlers], NEW c \in Calls,
         NEW answer \in Answers, Finish(c, answer)
  PROVE  /\ handler' \in [Calls -> Handlers]
         /\ handler'[c] = [handler[c] EXCEPT !.pc = "write", !.dir = FALSE, !.answer = answer]
         /\ \A d \in Calls \ {c} : handler'[d] = handler[d]
<1> DEFINE h == [handler[c] EXCEPT !.pc = "write", !.dir = FALSE, !.answer = answer]
<1>1. handler' = [handler EXCEPT ![c] = h]
  BY DEF Finish
<1>2. h \in Handlers
  BY DEF Handlers, Phases
<1> QED BY <1>1, <1>2

\* The set of those who hold a slot is finite.
LEMMA HoldingFinite == IsFiniteSet(Holding)
  BY ServiceAssumption, FS_Subset DEF ServiceAssumption, Holding

\* A reply without a result, and what the processor makes of it.
LEMMA ReplyType ==
  ASSUME NEW s \in Nat
  PROVE  Reply(s) \in Answers /\ Reply(s).status = s
  BY DEF Reply, Answers

\* What the processor makes of an answer that is no result.
LEMMA RefusedOutcome ==
  ASSUME NEW a, a.status # 200 PROVE Outcome(a) \in {"retry", "error"}
  BY DEF Outcome

\* It holds at first.
LEMMA InitInv == Init => IInv
<1> SUFFICES ASSUME Init PROVE IInv
  OBVIOUS
<1>1. TypeOK
  BY ServiceAssumption DEF ServiceAssumption, Init, TypeOK, NoHandler, NoChild, NoFact, Nothing,
     Handlers, Answers, Children, Facts, Phases, Requests
<1>2. Holding = {}
  BY DEF Init, Holding, NoHandler
<1>3. slots = Cardinality(Holding) /\ slots <= MaxConcurrent
  BY <1>2, FS_EmptySet, ServiceAssumption DEF ServiceAssumption, Init
<1>4. \A c \in Calls : CallInv(c, handler[c], child[c], fact[c], call[c])
  BY DEF Init, CallInv, PhaseInv, TrueOutcome, NoHandler, NoChild, NoFact, BeforePhases
<1> QED BY <1>1, <1>3, <1>4 DEF IInv

-----------------------------------------------------------------------------
(* The client and the handler. *)

\* A call is sent, or refused by a server that is not up.
LEMMA CallKeeps == ASSUME IInv, NEW c \in Calls, Call(c) PROVE IInv'
<1>0. TypeOK /\ handler[c] \in Handlers /\ handler[c].pc = "none" /\ CallInv(c, handler[c], child[c], fact[c], call[c])
  BY DEF IInv, Call, TypeOK
<1>1. TypeOK'
  <2>1. handler' \in [Calls -> Handlers]
    <3>1. NoHandler \in Handlers
      BY DEF NoHandler, Nothing, Handlers, Answers, Phases, Requests
    <3>2. \A r \in Requests : [NoHandler EXCEPT !.pc = "admit", !.request = r] \in Handlers
      BY <3>1 DEF Handlers, Phases
    <3> QED BY <1>0, <3>2 DEF Call, TypeOK
  <2> QED BY <1>0, <2>1 DEF Call, TypeOK, NoFact, Facts
<1>2. OnlyCall(c)
  BY <1>0 DEF Call, OnlyCall, TypeOK
<1>3. slots' = slots /\ c \notin Holding' /\ c \notin Holding
  <2>1. handler'[c].pc \in {"none", "admit"}
    BY <1>0 DEF Call, TypeOK, NoHandler
  <2> QED BY <1>0, <2>1 DEF Call, Holding
<1>4. CallInv(c, handler'[c], child'[c], fact'[c], call'[c])
  <2>1. child'[c].state = "none" /\ fact'[c] = NoFact /\ call'[c] \in {"sent", "error"}
    BY <1>0 DEF Call, TypeOK, CallInv, PhaseInv, Children
  <2>2. handler'[c] = handler[c] \/ \E r \in Requests : handler'[c] = [NoHandler EXCEPT !.pc = "admit", !.request = r]
    BY <1>0 DEF Call, TypeOK
  <2>3. CASE handler'[c] = handler[c]
    BY <1>0, <2>1, <2>3 DEF CallInv, PhaseInv, TrueOutcome, BeforePhases, NoFact
  <2>4. CASE \E r \in Requests : handler'[c] = [NoHandler EXCEPT !.pc = "admit", !.request = r]
    BY <2>1, <2>4 DEF CallInv, PhaseInv, TrueOutcome, BeforePhases, NoHandler, NoFact
  <2> QED BY <2>2, <2>3, <2>4
<1> QED BY <1>1, <1>2, <1>3, <1>4, SlotsKept, CallsKept DEF IInv

\* A request takes a free slot or is refused at the door.
LEMMA AdmitKeeps == ASSUME IInv, NEW c \in Calls, Admit(c) PROVE IInv'
<1>0. /\ TypeOK /\ handler[c] \in Handlers /\ handler[c].pc = "admit"
      /\ CallInv(c, handler[c], child[c], fact[c], call[c])
      /\ UNCHANGED <<server, call, child, fact, cuts>>
  BY DEF IInv, Admit, At, TypeOK
<1>1. CASE slots < MaxConcurrent /\ slots' = slots + 1 /\ Goto(c, "parse")
  <2>1. /\ handler' \in [Calls -> Handlers]
        /\ handler'[c] = [handler[c] EXCEPT !.pc = "parse"]
        /\ OnlyCall(c)
    BY <1>0, <1>1, MoveType DEF TypeOK, Phases, OnlyCall
  <2>2. TypeOK'
    BY <1>0, <1>1, <2>1 DEF TypeOK
  <2>3. handler'[c].pc = "parse" /\ handler'[c].answer.status \notin {401, 503}
    BY <1>0, <2>1 DEF CallInv, PhaseInv, Nothing, Phases, Handlers
  <2>4. Holding' = Holding \cup {c} /\ c \notin Holding
    <3>1. c \in Holding' /\ c \notin Holding
      BY <1>0, <2>3 DEF Holding, TookSlot
    <3>2. \A d \in Calls \ {c} : d \in Holding' <=> d \in Holding
      BY <2>1 DEF OnlyCall, Holding, TookSlot
    <3>3. Holding \subseteq Calls /\ Holding' \subseteq Calls
      BY DEF Holding
    <3> QED BY <3>1, <3>2, <3>3
  <2>5. Cardinality(Holding \cup {c}) = Cardinality(Holding) + 1
    BY <2>4, HoldingFinite, FS_AddElement
  <2>6. slots' = Cardinality(Holding') /\ slots' <= MaxConcurrent
    BY <1>0, <1>1, <2>4, <2>5, ServiceAssumption DEF ServiceAssumption, IInv, TypeOK
  <2>7. CallInv(c, handler'[c], child'[c], fact'[c], call'[c])
    BY <1>0, <2>1 DEF CallInv, PhaseInv, BeforePhases, Phases, Handlers
  <2> QED BY <2>1, <2>2, <2>6, <2>7, CallsKept DEF IInv
<1>2. CASE slots' = slots /\ \E s \in {401, 503} : Finish(c, Reply(s))
  <2>1. PICK s \in {401, 503} : Finish(c, Reply(s))
    BY <1>2
  <2>2. Reply(s) \in Answers /\ Reply(s).status = s
    BY ReplyType
  <2>3. /\ handler' \in [Calls -> Handlers]
        /\ handler'[c] = [handler[c] EXCEPT !.pc = "write", !.dir = FALSE, !.answer = Reply(s)]
        /\ OnlyCall(c)
    BY <1>0, <2>1, <2>2, FinishType DEF TypeOK, OnlyCall
  <2>4. TypeOK'
    BY <1>0, <1>2, <2>3 DEF TypeOK
  <2>5. handler'[c].answer.status = s /\ handler'[c].pc = "write" /\ ~ handler'[c].dir
    BY <1>0, <2>2, <2>3 DEF Handlers
  <2>6. c \notin Holding' /\ c \notin Holding
    BY <1>0, <2>5 DEF Holding, TookSlot
  <2>7. Outcome(handler'[c].answer) \in {"retry", "error"}
    BY <2>5, RefusedOutcome
  <2>8. CallInv(c, handler'[c], child'[c], fact'[c], call'[c])
    BY <1>0, <2>5, <2>7 DEF CallInv, PhaseInv, TrueOutcome, BeforePhases
  <2> QED BY <1>2, <2>3, <2>4, <2>6, <2>8, SlotsKept, CallsKept DEF IInv
<1> QED BY <1>0, <1>1, <1>2 DEF Admit

\* What a step of an admitted handler has to show.
LEMMA StepKeeps ==
  ASSUME IInv, NEW c \in Calls, TypeOK', OnlyCall(c), slots' = slots,
         c \in Holding' <=> c \in Holding,
         CallInv(c, handler'[c], child'[c], fact'[c], call'[c])
  PROVE  IInv'
  BY SlotsKept, CallsKept DEF IInv

\* A handler on its way has its slot and no answer.
Way == {"parse", "mkdir", "files", "build", "run"}
LEMMA OnWay ==
  ASSUME IInv, NEW c \in Calls, handler[c].pc \in Way
  PROVE  /\ c \in Holding /\ handler[c].answer = Nothing /\ Nothing \in Answers
         /\ handler[c] \in Handlers /\ child[c] \in Children /\ fact[c] \in Facts
         /\ CallInv(c, handler[c], child[c], fact[c], call[c])
<1>1. CallInv(c, handler[c], child[c], fact[c], call[c]) /\ TypeOK
  BY DEF IInv
<1>2. handler[c] \in Handlers /\ child[c] \in Children /\ fact[c] \in Facts
  BY <1>1 DEF TypeOK
<1>3. handler[c].answer = Nothing /\ Nothing \in Answers
  BY <1>1, <1>2 DEF CallInv, PhaseInv, Way, Phases, Nothing, Answers
<1>4. c \in Holding
  BY <1>3 DEF Holding, TookSlot, Way, Nothing
<1> QED BY <1>1, <1>2, <1>3, <1>4

\* It keeps the slot while it goes on, and when its answer is not a refusal at
\* the door.
LEMMA GoKeeps ==
  ASSUME IInv, NEW c \in Calls, handler[c].pc \in Way, NEW pc \in Way, Goto(c, pc),
         UNCHANGED <<server, slots, call, fact, cuts>>,
         child' = child, PhaseInv([handler[c] EXCEPT !.pc = pc], child[c], fact[c])
  PROVE  IInv'
<1>1. /\ handler' \in [Calls -> Handlers]
      /\ handler'[c] = [handler[c] EXCEPT !.pc = pc] /\ OnlyCall(c)
  BY MoveType DEF IInv, TypeOK, OnlyCall, Way, Phases
<1>2. handler'[c].pc = pc /\ handler'[c].answer = Nothing
  BY <1>1, OnWay DEF Handlers
<1>3. c \in Holding' /\ c \in Holding
  BY <1>2, OnWay DEF Holding, TookSlot, Nothing, Way
<1>4. TypeOK'
  BY <1>1 DEF IInv, TypeOK
<1>5. CallInv(c, handler'[c], child'[c], fact'[c], call'[c])
  BY <1>1, <1>2, OnWay DEF CallInv, Way
<1> QED BY <1>1, <1>3, <1>4, <1>5, StepKeeps

\* An answer that is true of the program, with the phase cleared away.
LEMMA FinishKeeps ==
  ASSUME IInv, NEW c \in Calls, handler[c].pc \in Way,
         NEW answer \in Answers, answer.status \notin {401, 503}, Finish(c, answer),
         UNCHANGED <<server, slots, call, fact, cuts>>,
         child' \in [Calls -> Children], \A d \in Calls \ {c} : child'[d] = child[d],
         child'[c].state = "none", TrueOutcome(Outcome(answer), fact[c])
  PROVE  IInv'
<1>1. /\ handler' \in [Calls -> Handlers]
      /\ handler'[c] = [handler[c] EXCEPT !.pc = "write", !.dir = FALSE, !.answer = answer]
      /\ \A d \in Calls \ {c} : handler'[d] = handler[d]
  BY FinishType DEF IInv, TypeOK
<1>2. handler'[c].pc = "write" /\ handler'[c].answer = answer /\ ~ handler'[c].dir
  BY <1>1, OnWay DEF Handlers
<1>3. c \in Holding' /\ c \in Holding
  BY <1>2, OnWay DEF Holding, TookSlot
<1>5. TypeOK' /\ OnlyCall(c)
  BY <1>1 DEF IInv, TypeOK, OnlyCall
<1>6. CallInv(c, handler'[c], child'[c], fact'[c], call'[c])
  BY <1>1, <1>2, OnWay DEF CallInv, PhaseInv, Way, BeforePhases
<1> QED BY <1>3, <1>5, <1>6, StepKeeps

\* The same before a process has been started.
LEMMA FinishEarly ==
  ASSUME IInv, NEW c \in Calls, handler[c].pc \in Way,
         NEW answer \in Answers, answer.status \notin {401, 503}, Finish(c, answer),
         UNCHANGED <<server, slots, call, fact, cuts>>, UNCHANGED child,
         child[c].state = "none", TrueOutcome(Outcome(answer), fact[c])
  PROVE  IInv'
<1>1. child' \in [Calls -> Children] /\ child'[c].state = "none"
  BY DEF IInv, TypeOK
<1> QED BY <1>1, FinishKeeps

\* A result is an answer with status 200.
LEMMA ResultType ==
  ASSUME NEW exit \in Int, NEW timedOut \in BOOLEAN
  PROVE  Result(exit, timedOut) \in Answers /\ Result(exit, timedOut).status = 200
  BY DEF Result, Answers

\* A result that is not late, and one that is.
LEMMA ResultOutcome ==
  ASSUME NEW exit \in Int
  PROVE  /\ Outcome(Result(exit, TRUE)) = "timeout"
         /\ Outcome(Result(exit, FALSE)) =
              IF exit = 0 THEN "success"
              ELSE IF exit = 2 THEN "compileError" ELSE "runtimeError"
<1>1. Outcome(Result(exit, TRUE)) = "timeout"
  BY DEF Outcome, Result
<1>2. CASE exit = 0
  BY <1>1, <1>2 DEF Outcome, Result
<1>3. CASE exit = 2
  BY <1>1, <1>3 DEF Outcome, Result
<1>4. CASE exit \notin {0, 2}
  BY <1>1, <1>4 DEF Outcome, Result
<1> QED BY <1>2, <1>3, <1>4

\* The process is forgotten with the phase.
LEMMA Forgotten ==
  ASSUME NEW c \in Calls, child \in [Calls -> Children], child' = [child EXCEPT ![c] = NoChild]
  PROVE  /\ child' \in [Calls -> Children] /\ child'[c].state = "none"
         /\ \A d \in Calls \ {c} : child'[d] = child[d]
<1>1. NoChild \in Children /\ NoChild.state = "none"
  BY DEF NoChild, Children
<1> QED BY <1>1

\* A phase starts with a process that runs or has failed to.
LEMMA StartType ==
  ASSUME NEW c \in Calls, child \in [Calls -> Children], Start(c)
  PROVE  /\ child' \in [Calls -> Children]
         /\ \A d \in Calls \ {c} : child'[d] = child[d]
         /\ child'[c].state \in {"running", "ended"}
         /\ child'[c].state = "ended" => child'[c].exit = -1
         /\ child'[c].state = "running" => child'[c].exit = 0
         /\ ~ child'[c].held /\ ~ child'[c].left
<1>1. Ended(Killed, FALSE, FALSE) \in Children /\ Started \in Children
  BY DEF Ended, Started, Killed, Children
<1>2. CASE child' = [child EXCEPT ![c] = Ended(Killed, FALSE, FALSE)]
  <2>1. /\ child'[c].state = "ended" /\ child'[c].exit = -1
        /\ ~ child'[c].held /\ ~ child'[c].left
    BY <1>2 DEF Ended, Killed
  <2> QED BY <1>1, <1>2, <2>1
<1>3. CASE child' = [child EXCEPT ![c] = Started]
  <2>1. /\ child'[c].state = "running" /\ child'[c].exit = 0
        /\ ~ child'[c].held /\ ~ child'[c].left
    BY <1>3 DEF Started
  <2> QED BY <1>1, <1>3, <2>1
<1> QED BY <1>2, <1>3 DEF Start

\* The body is read, or refused with the slot held.
LEMMA ParseKeeps == ASSUME IInv, NEW c \in Calls, Parse(c) PROVE IInv'
<1>1. handler[c].pc = "parse" /\ UNCHANGED <<server, slots, call, child, fact, cuts>>
  BY DEF Parse, At
<1>2. CallInv(c, handler[c], child[c], fact[c], call[c]) /\ handler[c] \in Handlers
  BY <1>1, OnWay DEF Way
<1>3. CASE Goto(c, "mkdir")
  <2>1. PhaseInv([handler[c] EXCEPT !.pc = "mkdir"], child[c], fact[c])
    BY <1>1, <1>2 DEF CallInv, PhaseInv, Handlers, BeforePhases, Phases
  <2> QED BY <1>1, <1>3, <2>1, GoKeeps DEF Way
<1>4. CASE Finish(c, Reply(400))
  <2>1. Reply(400) \in Answers /\ Reply(400).status = 400
    BY ReplyType
  <2>2. TrueOutcome(Outcome(Reply(400)), fact[c])
    BY <2>1, RefusedOutcome DEF TrueOutcome
  <2>3. child[c].state = "none"
    BY <1>1, <1>2, OnWay DEF CallInv, PhaseInv, Way, Children
  <2> QED BY <1>1, <1>4, <2>1, <2>2, <2>3, FinishEarly DEF Way
<1> QED BY <1>3, <1>4 DEF Parse

\* Before anything has run, an answer that says so is true.
LEMMA FailedBefore ==
  ASSUME IInv, NEW c \in Calls, handler[c].pc \in {"mkdir", "files"}
  PROVE  /\ child[c].state = "none" /\ Result(1, FALSE) \in Answers
         /\ Result(1, FALSE).status = 200
         /\ TrueOutcome(Outcome(Result(1, FALSE)), fact[c])
<1>1. fact[c] = NoFact /\ child[c].state = "none"
  BY OnWay DEF Way, CallInv, PhaseInv, BeforePhases, Children
<1>2. Outcome(Result(1, FALSE)) = "runtimeError"
  BY DEF Outcome, Result
<1>3. Result(1, FALSE) \in Answers /\ Result(1, FALSE).status = 200
  <2>1. 1 \in Int /\ FALSE \in BOOLEAN
    OBVIOUS
  <2> QED BY <2>1, ResultType, Zenon
<1>4. fact[c].end = "none"
  BY <1>1 DEF NoFact
<1> QED BY <1>1, <1>2, <1>3, <1>4 DEF TrueOutcome

\* The work directory is made, or the request is answered without one.
LEMMA MakeDirKeeps == ASSUME IInv, NEW c \in Calls, MakeDir(c) PROVE IInv'
<1>1. handler[c].pc = "mkdir" /\ UNCHANGED <<server, slots, call, child, fact, cuts>>
  BY DEF MakeDir, At
<1>2. CallInv(c, handler[c], child[c], fact[c], call[c]) /\ handler[c] \in Handlers
  BY <1>1, OnWay DEF Way
<1>3. CASE handler' = [handler EXCEPT ![c].pc = "files", ![c].dir = TRUE]
  <2>1. [handler[c] EXCEPT !.pc = "files", !.dir = TRUE] \in Handlers
    BY <1>2 DEF Handlers, Phases
  <2>2. /\ handler' \in [Calls -> Handlers]
        /\ handler'[c] = [handler[c] EXCEPT !.pc = "files", !.dir = TRUE] /\ OnlyCall(c)
    BY <1>1, <1>3, <2>1 DEF IInv, TypeOK, OnlyCall
  <2>3. handler'[c].pc = "files" /\ handler'[c].answer = Nothing /\ handler'[c].ctx = handler[c].ctx
    BY <1>1, <2>2, OnWay DEF Way, Handlers
  <2>4. c \in Holding' /\ c \in Holding
    BY <1>1, <2>3, OnWay DEF Way, Holding, TookSlot, Nothing
  <2>5. CallInv(c, handler'[c], child'[c], fact'[c], call'[c])
    BY <1>1, <1>2, <2>3 DEF CallInv, PhaseInv, BeforePhases, Phases
  <2>6. TypeOK'
    BY <1>1, <2>2 DEF IInv, TypeOK
  <2> QED BY <1>1, <2>2, <2>4, <2>5, <2>6, StepKeeps
<1>4. CASE Finish(c, Result(1, FALSE))
  <2> DEFINE answer == Result(1, FALSE)
  <2>1. /\ child[c].state = "none" /\ answer \in Answers
        /\ answer.status = 200 /\ TrueOutcome(Outcome(answer), fact[c])
    BY <1>1, FailedBefore
  <2>2. Finish(c, answer)
    BY <1>4
  <2> HIDE DEF answer
  <2> QED BY <1>1, <2>1, <2>2, FinishEarly DEF Way
<1> QED BY <1>3, <1>4 DEF MakeDir

\* A phase that begins: a context that is not over, a process of its own.
LEMMA BeginKeeps ==
  ASSUME IInv, NEW c \in Calls, handler[c].pc \in Way, NEW pc \in {"build", "run"},
         handler' = [handler EXCEPT ![c].pc = pc, ![c].ctx = Context(c)], Start(c),
         UNCHANGED <<server, slots, call, fact, cuts>>,
         fact[c].end = "none", fact[c].late # "run"
  PROVE  IInv'
<1> DEFINE h == [handler[c] EXCEPT !.pc = pc, !.ctx = Context(c)]
<1>1. Context(c) \in {"live", "cancelled"}
  BY DEF Context
<1>2. h \in Handlers
  BY <1>1, OnWay DEF Handlers, Phases
<1>3. handler' = [handler EXCEPT ![c] = h]
  OBVIOUS
<1>4. /\ handler' \in [Calls -> Handlers] /\ handler'[c] = h
      /\ \A d \in Calls \ {c} : handler'[d] = handler[d]
  BY <1>2, <1>3 DEF IInv, TypeOK
<1>5. handler'[c].pc = pc /\ handler'[c].answer = Nothing /\ handler'[c].ctx # "expired"
  BY <1>1, <1>4, OnWay DEF Handlers
<1> HIDE DEF h
<1>6. c \in Holding' /\ c \in Holding
  BY <1>5, OnWay DEF Holding, TookSlot, Nothing
<1>7. /\ child' \in [Calls -> Children]
      /\ \A d \in Calls \ {c} : child'[d] = child[d]
      /\ child'[c].state \in {"running", "ended"}
      /\ child'[c].state = "ended" => child'[c].exit = -1
      /\ child'[c].state = "running" => child'[c].exit = 0
      /\ ~ child'[c].held /\ ~ child'[c].left
  BY StartType DEF IInv, TypeOK
<1>8. TypeOK' /\ OnlyCall(c)
  BY <1>4, <1>7 DEF IInv, TypeOK, OnlyCall
<1>9. CallInv(c, handler'[c], child'[c], fact'[c], call'[c])
  <2>1. TrueOutcome(call[c], fact[c]) /\ call[c] \in {"sent", "error"}
    BY OnWay DEF CallInv, Way
  <2>2. PhaseInv(handler'[c], child'[c], fact[c])
    BY <1>5, <1>7 DEF PhaseInv, BeforePhases
  <2> QED BY <1>5, <2>1, <2>2 DEF CallInv
<1> QED BY <1>6, <1>8, <1>9, StepKeeps

\* The files are written and the compiler starts, or neither.
LEMMA WriteFilesKeeps == ASSUME IInv, NEW c \in Calls, WriteFiles(c) PROVE IInv'
<1>1. handler[c].pc = "files" /\ UNCHANGED <<server, slots, call, fact, cuts>>
  BY DEF WriteFiles, At
<1>2. fact[c] = NoFact /\ child[c].state = "none"
  BY <1>1, OnWay DEF Way, CallInv, PhaseInv, BeforePhases, Children
<1>3. CASE Finish(c, Reply(400)) /\ UNCHANGED child
  <2>1. Reply(400) \in Answers /\ Reply(400).status = 400
    BY ReplyType
  <2>2. TrueOutcome(Outcome(Reply(400)), fact[c])
    BY <2>1, RefusedOutcome DEF TrueOutcome
  <2> QED BY <1>1, <1>2, <1>3, <2>1, <2>2, FinishEarly DEF Way
<1>4. CASE Finish(c, Result(1, FALSE)) /\ UNCHANGED child
  <2> DEFINE answer == Result(1, FALSE)
  <2>1. /\ child[c].state = "none" /\ answer \in Answers
        /\ answer.status = 200 /\ TrueOutcome(Outcome(answer), fact[c])
    BY <1>1, FailedBefore
  <2>2. Finish(c, answer)
    BY <1>4
  <2> HIDE DEF answer
  <2> QED BY <1>1, <1>4, <2>1, <2>2, FinishEarly DEF Way
<1>5. CASE /\ handler' = [handler EXCEPT ![c].pc = "build", ![c].ctx = Context(c)]
           /\ Start(c)
  <2>1. fact[c].end = "none" /\ fact[c].late # "run"
    BY <1>2 DEF NoFact
  <2> QED BY <1>1, <1>5, <2>1, BeginKeeps DEF Way
<1> QED BY <1>3, <1>4, <1>5 DEF WriteFiles

\* The compiler is done: the program starts, or the answer is there.
LEMMA BuildDoneKeeps == ASSUME IInv, NEW c \in Calls, BuildDone(c) PROVE IInv'
<1>1. /\ handler[c].pc = "build" /\ child[c].state = "ended"
      /\ UNCHANGED <<server, slots, call, fact, cuts>>
  BY DEF BuildDone, Done, At
<1>2. /\ fact[c].late # "run" /\ (handler[c].ctx = "expired" => fact[c].late = "build")
      /\ (child[c].exit = 0 => fact[c].end = "none")
  BY <1>1, OnWay DEF Way, CallInv, PhaseInv
<1>3. CASE child[c].exit = 0
  BY <1>1, <1>2, <1>3, BeginKeeps DEF BuildDone, Way
<1>4. CASE child[c].exit # 0
  <2>1. child' = [child EXCEPT ![c] = NoChild]
    BY <1>4 DEF BuildDone
  <2>2. /\ child' \in [Calls -> Children] /\ child'[c].state = "none"
        /\ \A d \in Calls \ {c} : child'[d] = child[d]
    BY <2>1, Forgotten DEF IInv, TypeOK
  <2>3. PICK answer \in Answers :
          /\ Finish(c, answer) /\ answer.status \notin {401, 503}
          /\ TrueOutcome(Outcome(answer), fact[c])
    <3>1. CASE handler[c].ctx = "expired"
      <4> DEFINE answer == Result(1, TRUE)
      <4>1. Finish(c, answer)
        BY <1>4, <3>1 DEF BuildDone
      <4>2. answer \in Answers /\ answer.status = 200
        BY DEF Result, Answers
      <4>3. Outcome(answer) = "timeout"
        BY DEF Outcome, Result
      <4> HIDE DEF answer
      <4> QED BY <1>2, <3>1, <4>1, <4>2, <4>3 DEF TrueOutcome
    <3>2. CASE handler[c].ctx # "expired"
      <4> DEFINE answer == Result(2, FALSE)
      <4>1. Finish(c, answer)
        BY <1>4, <3>2 DEF BuildDone
      <4>2. answer \in Answers /\ answer.status = 200
        BY DEF Result, Answers
      <4>3. Outcome(answer) = "compileError"
        BY DEF Outcome, Result
      <4> HIDE DEF answer
      <4> QED BY <4>1, <4>2, <4>3 DEF TrueOutcome
    <3> QED BY <3>1, <3>2
  <2> QED BY <1>1, <2>2, <2>3, FinishKeeps DEF Way
<1> QED BY <1>3, <1>4

\* The program is done: the answer tells how it ended.
LEMMA RunDoneKeeps == ASSUME IInv, NEW c \in Calls, RunDone(c) PROVE IInv'
<1>1. /\ handler[c].pc = "run" /\ child[c].state = "ended"
      /\ UNCHANGED <<server, slots, call, fact, cuts>>
      /\ Finish(c, Result(child[c].exit, handler[c].ctx = "expired"))
      /\ child' = [child EXCEPT ![c] = NoChild]
  BY DEF RunDone, Done, At
<1>2. /\ (handler[c].ctx = "expired" => fact[c].late = "run")
      /\ (handler[c].ctx # "expired" => fact[c].late # "run")
      /\ (child[c].exit = 0 => fact[c].end = "exit0")
      /\ (child[c].exit \notin {0, 2} => fact[c].end \in {"none", "exit1"})
      /\ child[c].exit \in Int
  BY <1>1, OnWay DEF Way, CallInv, PhaseInv, Children
<1>3. /\ child' \in [Calls -> Children] /\ child'[c].state = "none"
      /\ \A d \in Calls \ {c} : child'[d] = child[d]
  BY <1>1, Forgotten DEF IInv, TypeOK
<1>4. PICK answer \in Answers :
        /\ Finish(c, answer) /\ answer.status \notin {401, 503}
        /\ TrueOutcome(Outcome(answer), fact[c])
  <2>1. CASE handler[c].ctx = "expired"
    <3> DEFINE answer == Result(child[c].exit, TRUE)
    <3>1. Finish(c, answer)
      BY <1>1, <2>1
    <3>2. answer \in Answers /\ answer.status = 200
      BY <1>2 DEF Result, Answers
    <3>3. Outcome(answer) = "timeout"
      BY <1>2, ResultOutcome
    <3> HIDE DEF answer
    <3> QED BY <1>2, <2>1, <3>1, <3>2, <3>3 DEF TrueOutcome
  <2>2. CASE handler[c].ctx # "expired"
    <3> DEFINE answer == Result(child[c].exit, FALSE)
    <3>1. Finish(c, answer)
      BY <1>1, <2>2
    <3>2. answer \in Answers /\ answer.status = 200
      BY <1>2 DEF Result, Answers
    <3>3. Outcome(answer) = IF child[c].exit = 0 THEN "success"
                            ELSE IF child[c].exit = 2 THEN "compileError" ELSE "runtimeError"
      BY <1>2, ResultOutcome
    <3> HIDE DEF answer
    <3> QED BY <1>2, <2>2, <3>1, <3>2, <3>3 DEF TrueOutcome
  <2> QED BY <2>1, <2>2
<1> QED BY <1>1, <1>3, <1>4, FinishKeeps DEF Way

\* The answer reaches the client, unless it has gone; the slot is still held.
LEMMA WriteKeeps == ASSUME IInv, NEW c \in Calls, Write(c) PROVE IInv'
<1>1. /\ handler[c].pc = "write" /\ Goto(c, "return")
      /\ UNCHANGED <<server, slots, child, fact, cuts>>
      /\ handler[c] \in Handlers /\ CallInv(c, handler[c], child[c], fact[c], call[c])
  BY DEF IInv, TypeOK, Write, At
<1>2. /\ handler' \in [Calls -> Handlers]
      /\ handler'[c] = [handler[c] EXCEPT !.pc = "return"]
      /\ \A d \in Calls \ {c} : handler'[d] = handler[d]
  BY <1>1, MoveType DEF IInv, TypeOK, Phases
<1>3. /\ handler'[c].pc = "return" /\ handler'[c].answer = handler[c].answer
      /\ handler'[c].dir = handler[c].dir
  BY <1>1, <1>2 DEF Handlers
<1>4. c \in Holding' <=> c \in Holding
  BY <1>1, <1>3 DEF Holding, TookSlot
<1>5. Outcome(handler[c].answer) \in
        {"retry", "error", "timeout", "success", "compileError", "runtimeError"}
  <2>1. handler[c].answer.exit \in Int /\ handler[c].answer.timedOut \in BOOLEAN
    BY <1>1 DEF Handlers, Answers
  <2>2. CASE handler[c].answer.status # 200
    BY <2>2, RefusedOutcome
  <2>3. CASE handler[c].answer.status = 200
    <3> DEFINE e == handler[c].answer.exit
    <3>1. CASE e = 0 BY <2>3, <3>1 DEF Outcome
    <3>2. CASE e = 2 BY <2>3, <3>2 DEF Outcome
    <3>3. CASE e \notin {0, 2} BY <2>3, <3>3 DEF Outcome
    <3> QED BY <3>1, <3>2, <3>3
  <2> QED BY <2>2, <2>3
<1>6. /\ call' \in [Calls -> {"idle", "sent", "retry", "error", "timeout",
                             "success", "compileError", "runtimeError"}]
      /\ call'[c] \in {call[c], Outcome(handler[c].answer)}
      /\ \A d \in Calls \ {c} : call'[d] = call[d]
  BY <1>5 DEF IInv, TypeOK, Write
<1>7. TypeOK' /\ OnlyCall(c)
  BY <1>1, <1>2, <1>6 DEF IInv, TypeOK, OnlyCall
<1>8. CallInv(c, handler'[c], child'[c], fact'[c], call'[c])
  <2>1. TrueOutcome(call'[c], fact[c])
    BY <1>1, <1>6 DEF CallInv
  <2>2. PhaseInv(handler'[c], child[c], fact[c])
    BY <1>1, <1>3 DEF CallInv, PhaseInv, BeforePhases
  <2> QED BY <1>1, <1>3, <2>1, <2>2 DEF CallInv
<1> QED BY <1>1, <1>4, <1>7, <1>8, StepKeeps

\* The handler returns and gives back the slot if it has one.
LEMMA ReturnKeeps == ASSUME IInv, NEW c \in Calls, Return(c) PROVE IInv'
<1>1. /\ handler[c].pc = "return" /\ handler' = [handler EXCEPT ![c] = NoHandler]
      /\ UNCHANGED <<server, call, child, fact, cuts>>
      /\ handler[c] \in Handlers /\ CallInv(c, handler[c], child[c], fact[c], call[c])
  BY DEF IInv, TypeOK, Return, At
<1>2. NoHandler \in Handlers /\ NoHandler.pc = "none" /\ NoHandler.answer = Nothing
      /\ ~ NoHandler.dir
  BY DEF NoHandler, Nothing, Handlers, Answers, Phases, Requests
<1>3. /\ handler' \in [Calls -> Handlers] /\ handler'[c] = NoHandler
      /\ \A d \in Calls \ {c} : handler'[d] = handler[d]
  BY <1>1, <1>2 DEF IInv, TypeOK
<1>4. OnlyCall(c)
  BY <1>1, <1>3 DEF OnlyCall
<1>5. CallInv(c, handler'[c], child'[c], fact'[c], call'[c])
  BY <1>1, <1>2, <1>3 DEF CallInv, PhaseInv, BeforePhases
<1>6. Holding' = Holding \ {c} /\ (c \in Holding <=> TookSlot(c))
  <2>1. c \notin Holding' /\ (c \in Holding <=> TookSlot(c))
    BY <1>1, <1>2, <1>3 DEF Holding
  <2>2. \A d \in Calls \ {c} : d \in Holding' <=> d \in Holding
    BY <1>3 DEF Holding, TookSlot
  <2>3. Holding \subseteq Calls /\ Holding' \subseteq Calls
    BY DEF Holding
  <2> QED BY <2>1, <2>2, <2>3
<1>7. slots' = Cardinality(Holding') /\ slots' \in Nat /\ slots' <= MaxConcurrent
  <2>1. slots \in Nat /\ slots = Cardinality(Holding) /\ slots <= MaxConcurrent
    BY DEF IInv, TypeOK
  <2>2. CASE c \in Holding
    <3>1. Cardinality(Holding \ {c}) = Cardinality(Holding) - 1
      BY <2>2, HoldingFinite, FS_RemoveElement
    <3>2. Cardinality(Holding \ {c}) \in Nat
      BY HoldingFinite, FS_RemoveElement, FS_CardinalityType
    <3>3. slots' = slots - 1
      BY <1>6, <2>2 DEF Return
    <3> QED BY <1>6, <2>1, <3>1, <3>2, <3>3, ServiceAssumption DEF ServiceAssumption
  <2>3. CASE c \notin Holding
    <3>1. slots' = slots /\ Holding' = Holding
      BY <1>6, <2>3 DEF Return
    <3> QED BY <2>1, <3>1
  <2> QED BY <2>2, <2>3
<1>8. TypeOK'
  BY <1>1, <1>3, <1>7 DEF IInv, TypeOK
<1> QED BY <1>4, <1>5, <1>7, <1>8, CallsKept DEF IInv

-----------------------------------------------------------------------------
(* Processes, time and what is cut. *)

\* A process ends by itself, with an exit code that tells what became of it.
LEMMA ProcessEndsKeeps == ASSUME IInv, NEW c \in Calls, ProcessEnds(c) PROVE IInv'
<1>1. /\ child[c].state = "running" /\ UNCHANGED <<server, slots, call, handler, cuts>>
      /\ handler[c] \in Handlers /\ fact[c] \in Facts /\ child[c] \in Children
      /\ CallInv(c, handler[c], child[c], fact[c], call[c])
  BY DEF IInv, TypeOK, ProcessEnds, Running
<1>2. PICK exit \in {0, 1, 2}, held \in BOOLEAN, left \in BOOLEAN :
        /\ handler[c].pc = "build" => exit # 2
        /\ child' = [child EXCEPT ![c] = Ended(exit, held, left)]
        /\ fact' = [fact EXCEPT ![c].end = End(handler[c].pc, exit)]
  <2> DEFINE Ends(e, k, l) ==
        /\ child' = [child EXCEPT ![c] = Ended(e, k, l)]
        /\ fact' = [fact EXCEPT ![c].end = End(handler[c].pc, e)]
  <2>1. CASE handler[c].pc = "build"
    <3>1. \E e \in {0, 1}, k \in {FALSE}, l \in BOOLEAN : Ends(e, k, l)
      BY <2>1 DEF ProcessEnds
    <3>2. \E l \in BOOLEAN : Ends(0, FALSE, l) \/ Ends(1, FALSE, l)
      BY <3>1, Zenon
    <3>3. \E e \in {0, 1, 2}, k \in BOOLEAN, l \in BOOLEAN :
            (handler[c].pc = "build" => e # 2) /\ Ends(e, k, l)
      <4> HIDE DEF Ends
      <4>1. 0 # 2 /\ 1 # 2
        OBVIOUS
      <4> QED BY <3>2, <4>1, Zenon
    <3> QED BY <3>3, Zenon
  <2>2. CASE handler[c].pc # "build"
    <3>1. \E e \in {0, 1, 2}, k \in BOOLEAN, l \in BOOLEAN : Ends(e, k, l)
      BY <2>2 DEF ProcessEnds
    <3> QED BY <2>2, <3>1, Zenon
  <2> QED BY <2>1, <2>2
<1>3. handler[c].pc \in {"build", "run"} /\ c \in Holding
  BY <1>1, OnWay DEF CallInv, PhaseInv, Way
<1> DEFINE p == Ended(exit, held, left)
           f == [fact[c] EXCEPT !.end = End(handler[c].pc, exit)]
<1>4. /\ handler[c].pc = "build" => End(handler[c].pc, exit) \in {"none", "notCompiled"}
      /\ handler[c].pc = "build" /\ exit = 0 => End(handler[c].pc, exit) = "none"
      /\ handler[c].pc = "run" =>
           /\ End(handler[c].pc, exit) \in {"exit0", "exit1", "exit2"}
           /\ exit = 0 => End(handler[c].pc, exit) = "exit0"
           /\ exit \notin {0, 2} => End(handler[c].pc, exit) = "exit1"
  <2>1. CASE handler[c].pc = "build"
    BY <2>1 DEF End
  <2>2. CASE handler[c].pc = "run"
    <3>1. CASE exit = 0 BY <2>2, <3>1 DEF End
    <3>2. CASE exit = 1 BY <2>2, <3>2 DEF End
    <3>3. CASE exit = 2 BY <2>2, <3>3 DEF End
    <3> QED BY <2>2, <3>1, <3>2, <3>3
  <2> QED BY <1>3, <2>1, <2>2
<1>5. p \in Children /\ f \in Facts
  BY <1>1, <1>3, <1>4 DEF Ended, Children, Facts
<1>6. /\ child' \in [Calls -> Children] /\ child'[c] = p
      /\ fact' \in [Calls -> Facts] /\ fact'[c] = f
      /\ \A d \in Calls \ {c} : child'[d] = child[d] /\ fact'[d] = fact[d]
  <2>1. fact' = [fact EXCEPT ![c] = f]
    BY <1>2
  <2> QED BY <1>2, <1>5, <2>1 DEF IInv, TypeOK
<1>7. /\ f.end = End(handler[c].pc, exit) /\ f.late = fact[c].late
      /\ p.state = "ended" /\ p.exit = exit /\ p.exit # -1
  BY <1>1 DEF Ended, Facts
<1> HIDE DEF p, f
<1>8. TypeOK' /\ OnlyCall(c)
  BY <1>1, <1>6 DEF IInv, TypeOK, OnlyCall
<1>9. PhaseInv(handler[c], p, f)
  <2>1. CASE handler[c].pc = "build"
    BY <1>1, <1>4, <1>7, <2>1 DEF CallInv, PhaseInv, BeforePhases
  <2>2. CASE handler[c].pc = "run"
    BY <1>1, <1>4, <1>7, <2>2 DEF CallInv, PhaseInv, BeforePhases
  <2> QED BY <1>3, <2>1, <2>2
<1>10. CallInv(c, handler'[c], child'[c], fact'[c], call'[c])
  <2>1. call[c] \in {"sent", "error"}
    BY <1>1, <1>3 DEF CallInv
  <2> QED BY <1>1, <1>3, <1>6, <1>9, <2>1 DEF CallInv, TrueOutcome
<1>11. c \in Holding' <=> c \in Holding
  BY <1>1 DEF Holding, TookSlot
<1> QED BY <1>1, <1>8, <1>10, <1>11, StepKeeps

\* What is left of a process that is told to die.
LEMMA KilledType ==
  ASSUME NEW c \in Calls, child \in [Calls -> Children], KilledNow(c)
  PROVE  /\ child' \in [Calls -> Children]
         /\ \A d \in Calls \ {c} : child'[d] = child[d]
         /\ child[c].state = "running" => child'[c].state = "ended" /\ child'[c].exit = -1
         /\ child[c].state # "running" => child'[c] = child[c]
<1>1. CASE child[c].state = "running"
  <2>1. PICK held \in BOOLEAN, left \in BOOLEAN :
          child' = [child EXCEPT ![c] = Ended(Killed, held, left)]
    BY <1>1 DEF KilledNow
  <2>2. Ended(Killed, held, left) \in Children
    BY DEF Ended, Killed, Children
  <2>3. Ended(Killed, held, left).state = "ended" /\ Ended(Killed, held, left).exit = -1
    BY DEF Ended, Killed
  <2> QED BY <1>1, <2>1, <2>2, <2>3
<1>2. CASE child[c].state # "running"
  BY <1>2 DEF KilledNow
<1> QED BY <1>1, <1>2

\* The time limit of a phase comes, at whatever moment of it.
LEMMA DeadlineKeeps == ASSUME IInv, NEW c \in Calls, Deadline(c) PROVE IInv'
<1> DEFINE h == [handler[c] EXCEPT !.ctx = "expired"]
           f == [fact[c] EXCEPT !.late = handler[c].pc]
<1>1. /\ handler[c].pc \in {"build", "run"} /\ handler[c].ctx = "live"
      /\ handler' = [handler EXCEPT ![c] = h] /\ fact' = [fact EXCEPT ![c] = f]
      /\ KilledNow(c) /\ UNCHANGED <<server, slots, call, cuts>>
  BY DEF Deadline
<1>2. /\ c \in Holding /\ handler[c] \in Handlers /\ fact[c] \in Facts
      /\ child[c] \in Children
      /\ handler[c].answer = Nothing
      /\ CallInv(c, handler[c], child[c], fact[c], call[c])
  BY <1>1, OnWay DEF Way
<1>3. h \in Handlers /\ f \in Facts
  BY <1>1, <1>2 DEF Handlers, Facts
<1>4. /\ h.pc = handler[c].pc /\ h.answer = Nothing /\ h.ctx = "expired" /\ h.dir = handler[c].dir
      /\ f.end = fact[c].end /\ f.late = handler[c].pc
  BY <1>2 DEF Handlers, Facts
<1> HIDE DEF h, f
<1>5. /\ handler' \in [Calls -> Handlers] /\ handler'[c] = h
      /\ fact' \in [Calls -> Facts] /\ fact'[c] = f
      /\ \A d \in Calls \ {c} : handler'[d] = handler[d] /\ fact'[d] = fact[d]
  BY <1>1, <1>3 DEF IInv, TypeOK
<1>6. /\ child' \in [Calls -> Children]
      /\ \A d \in Calls \ {c} : child'[d] = child[d]
      /\ child[c].state = "running" => child'[c].state = "ended" /\ child'[c].exit = -1
      /\ child[c].state # "running" => child'[c] = child[c]
  BY <1>1, KilledType DEF IInv, TypeOK
<1>7. TypeOK' /\ OnlyCall(c)
  BY <1>1, <1>5, <1>6 DEF IInv, TypeOK, OnlyCall
<1>8. c \in Holding' /\ c \in Holding
  BY <1>1, <1>2, <1>4, <1>5 DEF Holding, TookSlot, Nothing
<1>9. PhaseInv(h, child'[c], f)
  <2>1. PhaseInv(handler[c], child[c], fact[c])
    BY <1>2 DEF CallInv
  <2>2. CASE child[c].state = "running"
    BY <1>1, <1>4, <1>6, <2>1, <2>2 DEF PhaseInv, BeforePhases
  <2>3. CASE child[c].state # "running"
    BY <1>1, <1>4, <1>6, <2>1, <2>3 DEF PhaseInv, BeforePhases
  <2> QED BY <2>2, <2>3
<1>10. CallInv(c, handler'[c], child'[c], fact'[c], call'[c])
  <2>1. call[c] \in {"sent", "error"}
    BY <1>1, <1>2 DEF CallInv
  <2> QED BY <1>1, <1>4, <1>5, <1>9, <2>1 DEF CallInv, TrueOutcome
<1> QED BY <1>1, <1>7, <1>8, <1>10, StepKeeps

\* A process left behind lets go of the output.
LEMMA OutputClosesKeeps == ASSUME IInv, NEW c \in Calls, OutputCloses(c) PROVE IInv'
<1>0. PICK left \in {child[c].left, TRUE} :
        child' = [child EXCEPT ![c].held = FALSE, ![c].left = left]
  BY DEF OutputCloses
<1> DEFINE p == [child[c] EXCEPT !.held = FALSE, !.left = left]
<1>1. /\ child' = [child EXCEPT ![c] = p] /\ UNCHANGED <<server, slots, call, handler, fact, cuts>>
      /\ child[c] \in Children /\ CallInv(c, handler[c], child[c], fact[c], call[c])
      /\ child[c].held
  BY <1>0 DEF OutputCloses, IInv, TypeOK
<1>2. p \in Children /\ p.state = child[c].state /\ p.exit = child[c].exit
  BY <1>1 DEF Children
<1> HIDE DEF p
<1>3. /\ child' \in [Calls -> Children] /\ child'[c] = p
      /\ \A d \in Calls \ {c} : child'[d] = child[d]
  BY <1>1, <1>2 DEF IInv, TypeOK
<1>4. TypeOK' /\ OnlyCall(c) /\ (c \in Holding' <=> c \in Holding)
  BY <1>1, <1>3 DEF IInv, TypeOK, OnlyCall, Holding, TookSlot
<1>5. CallInv(c, handler'[c], child'[c], fact'[c], call'[c])
  BY <1>1, <1>2, <1>3 DEF CallInv, PhaseInv
<1> QED BY <1>1, <1>4, <1>5, StepKeeps

\* The client goes away, at whatever step of the handler.
LEMMA DisconnectKeeps == ASSUME IInv, NEW c \in Calls, Disconnect(c) PROVE IInv'
<1> DEFINE ctx == IF handler[c].ctx = "live" THEN "cancelled" ELSE handler[c].ctx
           h == [handler[c] EXCEPT !.gone = TRUE, !.ctx = ctx]
<1>1. /\ call[c] = "sent" /\ call' = [call EXCEPT ![c] = "error"]
      /\ handler' = [handler EXCEPT ![c] = h]
      /\ KilledNow(c) /\ cuts' = cuts - 1 /\ cuts > 0 /\ UNCHANGED <<server, slots, fact>>
  BY DEF Disconnect, CutNow
<1>2. handler[c] \in Handlers /\ child[c] \in Children
      /\ CallInv(c, handler[c], child[c], fact[c], call[c])
  BY DEF IInv, TypeOK
<1>3. ctx \in {"expired", "cancelled"} /\ (ctx = "expired" <=> handler[c].ctx = "expired")
  BY <1>2 DEF Handlers
<1> HIDE DEF ctx
<1>4. /\ h \in Handlers /\ h.pc = handler[c].pc /\ h.answer = handler[c].answer
      /\ h.ctx = ctx /\ h.dir = handler[c].dir
  BY <1>2, <1>3 DEF Handlers
<1> HIDE DEF h
<1>5. /\ handler' \in [Calls -> Handlers] /\ handler'[c] = h
      /\ call'[c] = "error" /\ cuts' \in Nat
      /\ \A d \in Calls \ {c} : handler'[d] = handler[d] /\ call'[d] = call[d]
  BY <1>1, <1>4 DEF IInv, TypeOK
<1>6. /\ child' \in [Calls -> Children]
      /\ \A d \in Calls \ {c} : child'[d] = child[d]
      /\ child[c].state = "running" => child'[c].state = "ended" /\ child'[c].exit = -1
      /\ child[c].state # "running" => child'[c] = child[c]
  BY <1>1, KilledType DEF IInv, TypeOK
<1>7. TypeOK' /\ OnlyCall(c)
  BY <1>1, <1>5, <1>6 DEF IInv, TypeOK, OnlyCall
<1>8. c \in Holding' <=> c \in Holding
  BY <1>4, <1>5 DEF Holding, TookSlot
<1>9. PhaseInv(h, child'[c], fact[c])
  <2>1. PhaseInv(handler[c], child[c], fact[c])
    BY <1>2 DEF CallInv
  <2>2. CASE child[c].state = "running"
    <3>1. handler[c].pc \in {"build", "run"}
      BY <2>1, <2>2 DEF PhaseInv
    <3> QED BY <1>3, <1>4, <1>6, <2>1, <2>2, <3>1 DEF PhaseInv, BeforePhases
  <2>3. CASE child[c].state # "running"
    BY <1>3, <1>4, <1>6, <2>1, <2>3 DEF PhaseInv, BeforePhases
  <2> QED BY <2>2, <2>3
<1>10. CallInv(c, handler'[c], child'[c], fact'[c], call'[c])
  BY <1>1, <1>2, <1>4, <1>5, <1>9 DEF CallInv, TrueOutcome
<1> QED BY <1>1, <1>7, <1>8, <1>10, StepKeeps

\* A stop takes handlers, processes and slots with it; calls under way fail.
LEMMA StopKeeps == ASSUME IInv, Stop PROVE IInv'
<1>1. /\ NoHandler \in Handlers /\ NoHandler.pc = "none" /\ NoHandler.answer = Nothing
      /\ ~ NoHandler.dir /\ NoHandler.ctx = "live"
      /\ NoChild \in Children /\ NoChild.state = "none"
  BY DEF NoHandler, Nothing, NoChild, Handlers, Answers, Children, Phases, Requests
<1>2. \A c \in Calls :
        /\ handler'[c] = NoHandler /\ child'[c] = NoChild /\ fact'[c] = fact[c]
        /\ call'[c] = IF call[c] = "sent" THEN "error" ELSE call[c]
  BY DEF Stop
<1>3. TypeOK'
  BY <1>1 DEF Stop, IInv, TypeOK
<1>4. Holding' = {} /\ slots' = 0
  BY <1>1, <1>2 DEF Holding, Stop
<1>5. slots' = Cardinality(Holding') /\ slots' <= MaxConcurrent
  BY <1>4, FS_EmptySet, ServiceAssumption DEF ServiceAssumption
<1>6. ASSUME NEW c \in Calls PROVE CallInv(c, handler'[c], child'[c], fact'[c], call'[c])
  <2>1. PhaseInv(handler'[c], child'[c], fact'[c])
    <3>1. handler'[c].pc = "none" /\ handler'[c].answer = Nothing /\ ~ handler'[c].dir
          /\ child'[c].state = "none"
      BY <1>1, <1>2
    <3> QED BY <3>1 DEF PhaseInv, BeforePhases
  <2>2. CallInv(c, handler[c], child[c], fact[c], call[c])
    BY DEF IInv
  <2>3. TrueOutcome(call'[c], fact'[c])
    BY <1>2, <2>2 DEF CallInv, TrueOutcome
  <2> QED BY <1>1, <1>2, <2>1, <2>3 DEF CallInv
<1> QED BY <1>3, <1>5, <1>6 DEF IInv

\* The server's state alone, or nothing at all.
LEMMA RestKeeps ==
  ASSUME IInv, UNCHANGED <<slots, call, handler, child, fact>>,
         server' \in {"up", "draining", "down"}, cuts' \in Nat
  PROVE  IInv'
<1>1. TypeOK' /\ Holding' = Holding
  BY DEF IInv, TypeOK, Holding, TookSlot
<1> QED BY <1>1 DEF IInv

-----------------------------------------------------------------------------
(* The theorems. *)

\* Every step keeps the invariant.
LEMMA NextInv == IInv /\ [Next]_vars => IInv'
<1> SUFFICES ASSUME IInv, [Next]_vars PROVE IInv'
  OBVIOUS
<1>1. ASSUME NEW c \in Calls,
             \/ Call(c) \/ Handle(c) \/ ProcessEnds(c) \/ Deadline(c)
             \/ OutputCloses(c) \/ Disconnect(c)
      PROVE  IInv'
  <2>1. CASE Handle(c)
    BY <2>1, AdmitKeeps, ParseKeeps, MakeDirKeeps, WriteFilesKeeps, BuildDoneKeeps,
       RunDoneKeeps, WriteKeeps, ReturnKeeps DEF Handle
  <2> QED BY <1>1, <2>1, CallKeeps, ProcessEndsKeeps, DeadlineKeeps, OutputClosesKeeps, DisconnectKeeps
<1>2. CASE Shutdown
  BY <1>2, RestKeeps DEF Shutdown, CutNow, IInv, TypeOK
<1>3. CASE Stop
  BY <1>3, StopKeeps
<1>4. CASE Restart
  BY <1>4, RestKeeps DEF Restart, IInv, TypeOK
<1>5. CASE SurvivorsEnd
  BY <1>5, RestKeeps DEF SurvivorsEnd, IInv, TypeOK
<1>6. CASE UNCHANGED vars
  BY <1>6, RestKeeps DEF vars, IInv, TypeOK
<1> QED BY <1>1, <1>2, <1>3, <1>4, <1>5, <1>6 DEF Next

\* A step that lets a process go on lets go one that has ended by itself: a
\* killed one had a context that is over, and its group is killed.
LEMMA EndedSurvive == IInv /\ OnlyEnded /\ [Next]_vars => OnlyEnded'
<1> SUFFICES ASSUME IInv, OnlyEnded, [Next]_vars PROVE OnlyEnded'
  OBVIOUS
<1>1. ASSUME NEW c \in Calls, Leave(c), child[c].exit # -1 \/ ~ child[c].left
      PROVE  OnlyEnded'
  BY <1>1 DEF Leave, OnlyEnded, Killed
<1>2. ASSUME NEW c \in Calls, KillGroup(c), Done(c), handler[c].pc \in {"build", "run"}
      PROVE  OnlyEnded'
  <2>1. CASE handler[c].ctx = "live"
    <3>1. child[c].exit # -1 \/ ~ child[c].left
      BY <1>2, <2>1, OnWay DEF Done, Way, CallInv, PhaseInv
    <3> QED BY <1>1, <1>2, <2>1, <3>1 DEF KillGroup
  <2>2. CASE handler[c].ctx # "live"
    BY <1>2, <2>2 DEF KillGroup, OnlyEnded
  <2> QED BY <2>1, <2>2
<1>3. ASSUME NEW c \in Calls, BuildDone(c) PROVE OnlyEnded'
  <2>1. handler[c].pc = "build"
    BY <1>3 DEF BuildDone, At
  <2>2. CASE child[c].exit = 0
    BY <1>1, <1>3, <2>2 DEF BuildDone
  <2>3. CASE child[c].exit # 0
    BY <1>2, <1>3, <2>1, <2>3 DEF BuildDone
  <2> QED BY <2>2, <2>3
<1>4. ASSUME NEW c \in Calls, RunDone(c) PROVE OnlyEnded'
  BY <1>2, <1>4 DEF RunDone, At
<1>5. CASE SurvivorsEnd
  BY <1>5 DEF SurvivorsEnd, OnlyEnded
<1>6. CASE Stop
  BY <1>6 DEF Stop, OnlyEnded
<1>7. CASE UNCHANGED survivors
  BY <1>7 DEF OnlyEnded
<1>8. ASSUME NEW c \in Calls,
             \/ Call(c) \/ Admit(c) \/ Parse(c) \/ MakeDir(c) \/ WriteFiles(c) \/ Write(c)
             \/ Return(c) \/ ProcessEnds(c) \/ Deadline(c) \/ OutputCloses(c) \/ Disconnect(c)
      PROVE  UNCHANGED survivors
  BY <1>8 DEF Call, Admit, Parse, MakeDir, WriteFiles, Write, Return, ProcessEnds, Deadline,
     OutputCloses, Disconnect
<1>9. Shutdown \/ Restart \/ UNCHANGED vars => UNCHANGED survivors
  BY DEF Shutdown, Restart, vars
<1> QED BY <1>3, <1>4, <1>5, <1>6, <1>7, <1>8, <1>9 DEF Next, Handle

\* So both always hold.
LEMMA Invariance == Spec => [](IInv /\ OnlyEnded)
<1>1. Init => OnlyEnded
  BY DEF Init, OnlyEnded
<1> QED BY <1>1, InitInv, NextInv, EndedSurvive, PTL DEF Spec

\* A slot is held exactly while an admitted handler is under way, no work
\* directory outlives Execute, and a program that had to be killed leaves no
\* process of its group behind, whether its group is killed for the time limit
\* or for a lost connection: for any number of calls and slots, whatever is
\* refused, fails, is cut off or abandoned (NewHandler, Execute).
THEOREM NothingIsKept == Spec => []NothingKept
<1>1. IInv /\ OnlyEnded => NothingKept
  BY DEF IInv, OnlyEnded, CallInv, PhaseInv, Holding, NothingKept
<1> QED BY <1>1, Invariance, PTL

\* The semaphore of NewHandler: no more handlers are past it at a time, and so
\* no more compile or run a program, than there are slots, after any number of
\* lost connections and restarts.  What programs that have ended by themselves
\* leave running is not counted: nothing limits it.
THEOREM AtMostMaxConcurrent ==
  Spec => [](Cardinality({c \in Calls : handler[c].pc \notin {"none", "admit"}
                                        /\ TookSlot(c)}) <= MaxConcurrent)
<1>1. IInv => Cardinality(Holding) <= MaxConcurrent
  BY DEF IInv
<1> QED BY <1>1, Invariance, PTL DEF Holding

\* A success is a program that has ended well and in time, a timeout a deadline
\* that came, a runtime error neither: for any number of calls, whatever the
\* deadlines and lost connections coincide with (Execute, the processor).
THEOREM AnswersAreTrue == Spec => []AnswersTell
<1>1. IInv => AnswersTell
  BY DEF IInv, CallInv, TrueOutcome, AnswersTell
<1> QED BY <1>1, Invariance, PTL
=============================================================================

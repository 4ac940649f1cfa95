---------------------------- MODULE ExecutionService ----------------------------
(***************************************************************************)
(* The execution service (infra/fly-execution/server) and its client: a Go *)
(* server that compiles and runs the program of a request in a directory   *)
(* of its own, at most MaxConcurrent requests at a time and each within a  *)
(* time limit, refuses the others at once, and drains when it is stopped.  *)
(*                                                                         *)
(* Time is not measured.  A phase's deadline may come at any moment of it; *)
(* a program may run for ever, and may leave a process of its group behind *)
(* that keeps its output open, which exec.Cmd.Run waits for, or one that   *)
(* goes on without it.  Exit code 1 stands for every code of a program but *)
(* 0 and 2.                                                                *)
(***************************************************************************)
EXTENDS Integers, FiniteSets

CONSTANTS
  Calls,          \* execute() calls that may be under way together
  MaxConcurrent,  \* MCC_MAX_CONCURRENT
  MaxCuts         \* bound: connections lost and stops of the server

ASSUME ServiceAssumption ==
  /\ IsFiniteSet(Calls)
  /\ MaxConcurrent \in Nat \ {0}
  /\ MaxCuts \in Nat

VARIABLES
  server,   \* "up", "draining" or "down"
  slots,    \* tokens in the channel sem
  call,     \* execute() of the client: "idle", "sent", or how it ended
  handler,  \* the handler of the call, see NoHandler
  child,    \* the process it has started, see NoChild
  survivors,  \* processes that go on though their Execute is over, see Leave
  fact,     \* history: what became of the program of the call, see NoFact
  cuts      \* what may still be cut

vars == <<server, slots, call, handler, child, survivors, fact, cuts>>

\* What a request may be: its token, its body and its files are looked at in
\* this order.
Requests == {"unauthorized", "malformed", "invalid", "good"}

\* pc: the next step of the handler; dir: its work directory exists; gone: the
\* client has closed the connection; ctx: Err() of the phase's context; answer:
\* what is to be written.
Nothing == [status |-> 0, exit |-> 0, timedOut |-> FALSE]
NoHandler ==
  [pc |-> "none", request |-> "good", dir |-> FALSE, gone |-> FALSE,
   ctx |-> "live", answer |-> Nothing]

\* exit: -1 for a process that was killed or did not start; of those that it has
\* started, held: one keeps its output open; left: one goes on without it.
NoChild == [state |-> "none", exit |-> 0, held |-> FALSE, left |-> FALSE]
Started == [state |-> "running", exit |-> 0, held |-> FALSE, left |-> FALSE]
Ended(exit, held, left) ==
  [state |-> "ended", exit |-> exit, held |-> held, left |-> left]
Killed == -1

\* end: the exit code with which compiler or program ended by itself; late: the
\* phase whose deadline has come last.
NoFact == [end |-> "none", late |-> "no"]

Init ==
  /\ server = "up"
  /\ slots = 0
  /\ call = [c \in Calls |-> "idle"]
  /\ handler = [c \in Calls |-> NoHandler]
  /\ child = [c \in Calls |-> NoChild]
  /\ survivors = {}
  /\ fact = [c \in Calls |-> NoFact]
  /\ cuts = MaxCuts

-----------------------------------------------------------------------------
(* Replies. *)

Reply(status) == [status |-> status, exit |-> 0, timedOut |-> FALSE]
Result(exit, timedOut) == [status |-> 200, exit |-> exit, timedOut |-> timedOut]

\* ExecutionServiceError
IsRetryable(status) == status \in {503, 429}

\* What the processor makes of the answer: the time limit comes first, then the
\* exit code; a busy service is asked again, any other status is an error.
Outcome(answer) ==
  IF answer.status = 200
  THEN IF answer.timedOut THEN "timeout"
       ELSE CASE answer.exit = 0 -> "success"
              [] answer.exit = 2 -> "compileError"
              [] OTHER -> "runtimeError"
  ELSE IF IsRetryable(answer.status) THEN "retry" ELSE "error"

\* The handler of c has its answer; Execute's defers have run.
Finish(c, answer) ==
  handler' = [handler EXCEPT ![c].pc = "write", ![c].dir = FALSE, ![c].answer = answer]

At(c, pc) == server # "down" /\ handler[c].pc = pc
Goto(c, pc) == handler' = [handler EXCEPT ![c].pc = pc]

-----------------------------------------------------------------------------
(* The client. *)

\* fetch: the connection is refused by a server that drains or is down.
Call(c) ==
  /\ call[c] # "sent" /\ handler[c].pc = "none"
  /\ IF server = "up"
     THEN /\ call' = [call EXCEPT ![c] = "sent"]
          /\ \E r \in Requests :
               handler' = [handler EXCEPT ![c] = [NoHandler EXCEPT !.pc = "admit", !.request = r]]
     ELSE call' = [call EXCEPT ![c] = "error"] /\ UNCHANGED handler
  /\ fact' = [fact EXCEPT ![c] = NoFact]
  /\ UNCHANGED <<server, slots, child, survivors, cuts>>

-----------------------------------------------------------------------------
(* The handler. *)

\* The token, then the semaphore, which nobody waits for.
Admit(c) ==
  /\ At(c, "admit")
  /\ \/ /\ handler[c].request = "unauthorized"
        /\ Finish(c, Reply(401)) /\ UNCHANGED slots
     \/ /\ handler[c].request # "unauthorized"
        /\ slots < MaxConcurrent
        /\ slots' = slots + 1 /\ Goto(c, "parse")
     \/ /\ handler[c].request # "unauthorized"
        /\ slots = MaxConcurrent
        /\ Finish(c, Reply(503)) /\ UNCHANGED slots
  /\ UNCHANGED <<server, call, child, survivors, fact, cuts>>

Parse(c) ==
  /\ At(c, "parse")
  /\ IF handler[c].request = "malformed" THEN Finish(c, Reply(400)) ELSE Goto(c, "mkdir")
  /\ UNCHANGED <<server, slots, call, child, survivors, fact, cuts>>

\* A directory that cannot be made, or a file that cannot be written, is
\* answered as a program that failed.
MakeDir(c) ==
  /\ At(c, "mkdir")
  /\ \/ handler' = [handler EXCEPT ![c].pc = "files", ![c].dir = TRUE]
     \/ Finish(c, Result(1, FALSE))
  /\ UNCHANGED <<server, slots, call, child, survivors, fact, cuts>>

\* The context of a phase: that of the request with a time limit.
Context(c) == IF handler[c].gone THEN "cancelled" ELSE "live"

\* cmd.Start: fails for a context that is over, and may fail otherwise.
Start(c) ==
  \/ child' = [child EXCEPT ![c] = Ended(Killed, FALSE, FALSE)]
  \/ ~ handler[c].gone /\ child' = [child EXCEPT ![c] = Started]

\* The files are checked and written one by one, then the compiler starts.
WriteFiles(c) ==
  /\ At(c, "files")
  /\ \/ handler[c].request = "invalid" /\ Finish(c, Reply(400)) /\ UNCHANGED child
     \/ Finish(c, Result(1, FALSE)) /\ UNCHANGED child
     \/ /\ handler[c].request = "good"
        /\ handler' = [handler EXCEPT ![c].pc = "build", ![c].ctx = Context(c)]
        /\ Start(c)
  /\ UNCHANGED <<server, slots, call, survivors, fact, cuts>>

\* cmd.Run has returned: the process has ended and its output is closed.
Done(c) == child[c].state = "ended" /\ ~ child[c].held

\* What else the process has started goes on beside the handlers to come.
Leave(c) ==
  survivors' = survivors \cup
    (IF ~ child[c].left THEN {}
     ELSE IF child[c].exit = Killed THEN {"killed"} ELSE {"ended"})

\* Mutant: the group is killed when the time is over, not when the client has gone.
KillGroupWhenLate(c) ==
  IF handler[c].ctx # "expired" THEN Leave(c) ELSE UNCHANGED survivors

\* The process group is killed if the phase's context is over, and only then.
KillGroup(c) == IF handler[c].ctx = "live" THEN Leave(c) ELSE UNCHANGED survivors

\* Whatever a build that succeeds has left of the time limit, the run phase has
\* some, and nothing of the build is killed.
BuildDone(c) ==
  /\ At(c, "build") /\ Done(c)
  /\ \/ /\ child[c].exit = 0
        /\ handler' = [handler EXCEPT ![c].pc = "run", ![c].ctx = Context(c)]
        /\ Start(c) /\ Leave(c)
     \/ /\ child[c].exit # 0
        /\ LET late == handler[c].ctx = "expired" IN
             Finish(c, Result(IF late THEN 1 ELSE 2, late))
        /\ child' = [child EXCEPT ![c] = NoChild] /\ KillGroup(c)
  /\ UNCHANGED <<server, slots, call, fact, cuts>>

\* Mutant: whatever was killed counts as timed out.
RunDoneByExit(c) ==
  /\ At(c, "run") /\ Done(c)
  /\ Finish(c, Result(child[c].exit, child[c].exit = Killed))
  /\ child' = [child EXCEPT ![c] = NoChild] /\ KillGroup(c)
  /\ UNCHANGED <<server, slots, call, fact, cuts>>

RunDone(c) ==
  /\ At(c, "run") /\ Done(c)
  /\ Finish(c, Result(child[c].exit, handler[c].ctx = "expired"))
  /\ child' = [child EXCEPT ![c] = NoChild] /\ KillGroup(c)
  /\ UNCHANGED <<server, slots, call, fact, cuts>>

\* The answer is written; a large one is flushed before the handler returns.
Write(c) ==
  /\ At(c, "write")
  /\ Goto(c, "return")
  /\ call' = IF handler[c].gone THEN call
             ELSE [call EXCEPT ![c] = Outcome(handler[c].answer)]
  /\ UNCHANGED <<server, slots, child, survivors, fact, cuts>>

\* The deferred release, in a handler that has taken a slot.
TookSlot(c) == handler[c].answer.status \notin {401, 503}

\* Mutant: a request that is refused after it was admitted keeps its slot.
ReturnKeepingSlot(c) ==
  /\ At(c, "return")
  /\ slots' = IF handler[c].answer.status = 200 THEN slots - 1 ELSE slots
  /\ handler' = [handler EXCEPT ![c] = NoHandler]
  /\ UNCHANGED <<server, call, child, survivors, fact, cuts>>

Return(c) ==
  /\ At(c, "return")
  /\ slots' = IF TookSlot(c) THEN slots - 1 ELSE slots
  /\ handler' = [handler EXCEPT ![c] = NoHandler]
  /\ UNCHANGED <<server, call, child, survivors, fact, cuts>>

-----------------------------------------------------------------------------
(* Processes and time. *)

Running(c) == server # "down" /\ child[c].state = "running"

End(pc, exit) ==
  IF pc = "build"
  THEN IF exit = 0 THEN "none" ELSE "notCompiled"
  ELSE CASE exit = 0 -> "exit0" [] exit = 2 -> "exit2" [] OTHER -> "exit1"

\* The process ends by itself: a compiler with 0 or 1, a program with anything,
\* a Go program that panics with 2.  A compiler waits for those that write to
\* its output.
ProcessEnds(c) ==
  /\ Running(c)
  /\ \E exit \in (IF handler[c].pc = "build" THEN {0, 1} ELSE {0, 1, 2}),
        held \in (IF handler[c].pc = "build" THEN {FALSE} ELSE BOOLEAN),
        left \in BOOLEAN :
       /\ child' = [child EXCEPT ![c] = Ended(exit, held, left)]
       /\ fact' = [fact EXCEPT ![c].end = End(handler[c].pc, exit)]
  /\ UNCHANGED <<server, slots, call, handler, survivors, cuts>>

\* exec.CommandContext kills the process, not those that it has started.
KilledNow(c) ==
  IF child[c].state = "running"
  THEN \E held, left \in BOOLEAN : child' = [child EXCEPT ![c] = Ended(Killed, held, left)]
  ELSE UNCHANGED child

\* Mutant: exec.Command, which knows no context.
DeadlineKillsNothing(c) ==
  /\ server # "down" /\ handler[c].pc \in {"build", "run"} /\ handler[c].ctx = "live"
  /\ handler' = [handler EXCEPT ![c].ctx = "expired"]
  /\ fact' = [fact EXCEPT ![c].late = handler[c].pc]
  /\ UNCHANGED <<server, slots, call, child, survivors, cuts>>

\* The time limit of a phase, which may be that of a process that has ended.
Deadline(c) ==
  /\ server # "down" /\ handler[c].pc \in {"build", "run"} /\ handler[c].ctx = "live"
  /\ handler' = [handler EXCEPT ![c].ctx = "expired"]
  /\ fact' = [fact EXCEPT ![c].late = handler[c].pc]
  /\ KilledNow(c)
  /\ UNCHANGED <<server, slots, call, survivors, cuts>>

\* The process that kept the output open ends or closes it, if it ever does.
OutputCloses(c) ==
  /\ child[c].held
  /\ \E left \in {child[c].left, TRUE} :
       child' = [child EXCEPT ![c].held = FALSE, ![c].left = left]
  /\ UNCHANGED <<server, slots, call, handler, survivors, fact, cuts>>

SurvivorsEnd ==
  /\ \E kind \in survivors : survivors' = survivors \ {kind}
  /\ UNCHANGED <<server, slots, call, handler, child, fact, cuts>>

-----------------------------------------------------------------------------
(* What is cut. *)

CutNow == cuts > 0 /\ cuts' = cuts - 1

\* The client's process dies or the connection breaks: the request's context is
\* cancelled, and with it that of the phase.
Disconnect(c) ==
  /\ call[c] = "sent" /\ CutNow
  /\ call' = [call EXCEPT ![c] = "error"]
  /\ LET ctx == handler[c].ctx IN
     /\ handler' = [handler EXCEPT ![c].gone = TRUE,
                                   ![c].ctx = IF ctx = "live" THEN "cancelled" ELSE ctx]
     /\ KilledNow(c)
  /\ UNCHANGED <<server, slots, survivors, fact>>

\* SIGTERM: no new connections, and half a minute for those there are.
Shutdown ==
  /\ server = "up" /\ CutNow
  /\ server' = "draining"
  /\ UNCHANGED <<slots, call, handler, child, survivors, fact>>

\* Shutdown returns when the handlers have, or when its time is over: what is
\* under way goes down with the process and its machine.
Stop ==
  /\ server = "draining"
  /\ server' = "down"
  /\ slots' = 0
  /\ call' = [c \in Calls |-> IF call[c] = "sent" THEN "error" ELSE call[c]]
  /\ handler' = [c \in Calls |-> NoHandler]
  /\ child' = [c \in Calls |-> NoChild]
  /\ survivors' = {}
  /\ UNCHANGED <<fact, cuts>>

Restart ==
  /\ server = "down"
  /\ server' = "up"
  /\ UNCHANGED <<slots, call, handler, child, survivors, fact, cuts>>

-----------------------------------------------------------------------------
Handle(c) ==
  \/ Admit(c) \/ Parse(c) \/ MakeDir(c) \/ WriteFiles(c)
  \/ BuildDone(c) \/ RunDone(c) \/ Write(c) \/ Return(c)

Next ==
  \/ \E c \in Calls :
       \/ Call(c) \/ Handle(c) \/ ProcessEnds(c) \/ Deadline(c)
       \/ OutputCloses(c) \/ Disconnect(c)
  \/ SurvivorsEnd \/ Shutdown \/ Stop \/ Restart

\* Handlers go on and timers fire.
Fairness == \A c \in Calls : WF_vars(Handle(c)) /\ WF_vars(Deadline(c))

Spec == Init /\ [][Next]_vars /\ Fairness

-----------------------------------------------------------------------------
(* Properties. *)

\* On every path through the handler, with whatever is refused, fails, is cut
\* off or abandoned on it, a slot is held exactly while the handler is under
\* way, no directory outlives Execute, and a program that had to be killed leaves
\* no process of its group.  One that ends by itself may leave some.
NothingKept ==
  /\ slots = Cardinality({c \in Calls : handler[c].pc \notin {"none", "admit"} /\ TookSlot(c)})
  /\ \A c \in Calls : handler[c].dir => handler[c].pc \in {"files", "build", "run"}
  /\ "killed" \notin survivors

\* The learner is told what happened: a success is a program that has ended well
\* and in time, a timeout a deadline that came, a runtime error neither of them
\* nor a program that does not compile.
AnswersTell ==
  \A c \in Calls :
    /\ call[c] = "success" => fact[c].end = "exit0" /\ fact[c].late # "run"
    /\ call[c] = "timeout" => fact[c].late # "no"
    /\ call[c] = "runtimeError" => fact[c].end \in {"none", "exit1"}

\* Every call is answered or fails, unless a process that the program has left
\* behind keeps its output open: the time limit does not end that.
EveryCallEnds ==
  \A c \in Calls : ([]<>(~ child[c].held)) => (call[c] = "sent" ~> call[c] # "sent")

-----------------------------------------------------------------------------
(* A statement of the story documents that the code does not keep. *)

\* Story 11.2: exit code 2 is a compilation failure, any other but 0 a runtime
\* failure.
CompileErrorsDoNotCompile ==
  \A c \in Calls : call[c] = "compileError" => fact[c].end \in {"none", "notCompiled"}
=============================================================================

---------------------------- MODULE StuckDetection ----------------------------
(***************************************************************************)
(* Stuck detection in the workspace: the inactivity timer and its two      *)
(* stages (useStuckDetection), the two effects of Workspace.tsx that react *)
(* to them, the tutor panel they expand, and the request for help          *)
(* (useStuckIntervention).                                                 *)
(*                                                                         *)
(* React renders a moment after a state changed, and runs the effects of   *)
(* a render a moment after it, always before the next one.   An effect     *)
(* runs when one of its dependencies differs from the render before, with  *)
(* the values of the render it belongs to; refs and the store hold the     *)
(* values of now.  The interval callback may run late (a throttled or      *)
(* sleeping tab), so stage 2 can come without stage 1.                     *)
(***************************************************************************)
EXTENDS Integers

CONSTANTS
  Threshold,     \* thresholdMinutes, in units of time
  Stage2Offset   \* stage2OffsetSeconds

ASSUME StuckAssumption == {Threshold, Stage2Offset} \subseteq Nat \ {0}

Stage2At == Threshold + Stage2Offset

VARIABLES
  idle,       \* time since lastActivityRef, counted up to Stage2At
  ui,         \* state and store: stage1, stage2, stamped, expanded, available, session
  rendered,   \* the values of the last render
  before,     \* the values of the render whose effects ran last
  triggered,  \* stage2TriggeredRef
  asking,     \* isStreamingRef of the intervention hook
  sinceHelp   \* history: time since help was asked for, up to Stage2At

vars == <<idle, ui, rendered, before, triggered, asking, sinceHelp>>

\* stamped: stage1Timestamp is set.  session: sessionId is known.
UIStates ==
  [stage1 : BOOLEAN, stage2 : BOOLEAN, stamped : BOOLEAN,
   expanded : BOOLEAN, available : BOOLEAN, session : BOOLEAN]

Mounted == [stage1 |-> FALSE, stage2 |-> FALSE, stamped |-> FALSE,
            expanded |-> TRUE, available |-> TRUE, session |-> FALSE]

Init ==
  /\ idle = 0
  /\ ui = Mounted
  /\ rendered = Mounted
  /\ before = Mounted
  /\ triggered = FALSE
  /\ asking = FALSE
  /\ sinceHelp = Stage2At

-----------------------------------------------------------------------------
(* The timer. *)

Later(age) == IF age < Stage2At THEN age + 1 ELSE age

\* A unit of time is long compared with a render and its effects.
Elapse ==
  /\ ui = rendered /\ rendered = before
  /\ idle' = Later(idle)
  /\ sinceHelp' = Later(sinceHelp)
  /\ UNCHANGED <<ui, rendered, before, triggered, asking>>

\* The interval callback.
Check ==
  /\ \/ /\ idle >= Stage2At
        /\ ui' = [ui EXCEPT !.stage1 = TRUE, !.stage2 = TRUE]
     \/ /\ Threshold <= idle /\ idle < Stage2At
        /\ ui' = [ui EXCEPT !.stage1 = TRUE, !.stamped = @ \/ ~ui.stage1]
  /\ UNCHANGED <<idle, rendered, before, triggered, asking, sinceHelp>>

Calm(u) == [u EXCEPT !.stage1 = FALSE, !.stage2 = FALSE, !.stamped = FALSE]

\* An edit, a run or a benchmark: resetTimer().
Act ==
  /\ idle' = 0
  /\ ui' = Calm(ui)
  /\ UNCHANGED <<rendered, before, triggered, asking, sinceHelp>>

-----------------------------------------------------------------------------
(* The store. *)

SetUI(u) ==
  ui' = u /\ UNCHANGED <<idle, rendered, before, triggered, asking, sinceHelp>>

\* The learner expands or collapses the panel.
ToggleTutor == SetUI([ui EXCEPT !.expanded = ~@])

\* The session request answers; nothing retries it when it fails.
SessionCreated == SetUI([ui EXCEPT !.session = TRUE])

\* A request meets TUTOR_UNAVAILABLE (TutorPanel says when).
TutorDown == SetUI([ui EXCEPT !.available = FALSE])

\* The retry button of the panel, or the answer of a recovery probe: only a
\* mounted panel sends probes, but none is aborted when the panel collapses, so
\* an answer is let in at any time.
TutorBack == ~ui.available /\ SetUI([ui EXCEPT !.available = TRUE])

-----------------------------------------------------------------------------
(* Rendering and the two effects. *)

Render ==
  /\ rendered = before
  /\ ui # rendered
  /\ rendered' = ui
  /\ UNCHANGED <<idle, ui, before, triggered, asking, sinceHelp>>

Changed(fields) == \E f \in fields : rendered[f] # before[f]

\* Mutant: the effect does not depend on tutorAvailable.
ExpandsOnStage2Only ==
  Changed({"stage2", "stamped", "session"}) /\ rendered.stage2 /\ rendered.available /\ ~triggered

\* The first effect's condition; triggerIntervention, one of its dependencies,
\* changes with the session id.
Expands ==
  /\ Changed({"stage2", "available", "stamped", "session"})
  /\ rendered.stage2 /\ rendered.available /\ ~triggered

\* The second effect's condition.
Dismisses ==
  /\ Changed({"expanded", "stage1", "stage2"})
  /\ ~rendered.expanded /\ (rendered.stage1 \/ rendered.stage2)

\* triggerIntervention: three early returns, then the request.
Asks == rendered.session /\ ~asking /\ ui.available

\* Mutant: resetTimer clears the stages and keeps lastActivityRef.
DismissWithoutRestart(u) ==
  /\ triggered' = FALSE
  /\ UNCHANGED idle
  /\ ui' = Calm(u)

\* The second effect's body, after the first one left the store at u.
Dismiss(u) ==
  /\ triggered' = FALSE
  /\ idle' = 0
  /\ ui' = Calm(u)

\* Both effects, in the order of the source.
RunEffects ==
  LET u == IF Expands THEN [ui EXCEPT !.expanded = TRUE] ELSE ui IN
  /\ rendered # before
  /\ before' = rendered
  /\ IF Dismisses
     THEN Dismiss(u)
     ELSE triggered' = (triggered \/ Expands) /\ ui' = u /\ UNCHANGED idle
  /\ IF Expands /\ Asks
     THEN asking' = TRUE /\ sinceHelp' = 0
     ELSE UNCHANGED <<asking, sinceHelp>>
  /\ UNCHANGED rendered

\* The intervention's stream ends: message_complete, a failure, or an error event
\* with TUTOR_UNAVAILABLE.  A refusal that comes as a reply says so later: TutorDown.
InterventionEnds ==
  /\ asking
  /\ asking' = FALSE
  /\ ui' \in {ui, [ui EXCEPT !.available = FALSE]}
  /\ UNCHANGED <<idle, rendered, before, triggered, sinceHelp>>

Next ==
  \/ Elapse \/ Check \/ Act
  \/ ToggleTutor \/ SessionCreated \/ TutorDown \/ TutorBack
  \/ Render \/ RunEffects \/ InterventionEnds

Spec == Init /\ [][Next]_vars

-----------------------------------------------------------------------------
(* Properties. *)

\* The state, the store, the renders and the timers have their types.
TypeOK ==
  /\ {idle, sinceHelp} \subseteq 0 .. Stage2At
  /\ {ui, rendered, before} \subseteq UIStates
  /\ {triggered, asking} \subseteq BOOLEAN

\* The tutor does not nag: two requests for help are at least the threshold
\* and the offset apart, whatever the learner toggles, the tutor's
\* availability does or the renders delay in between (stage2TriggeredRef is
\* only cleared together with the timer).
NoNagging == [][sinceHelp' = 0 /\ sinceHelp # 0 => sinceHelp >= Stage2At]_vars

LearnerStops == <>[][~Act /\ ~ToggleTutor]_vars

\* With the panel open and the tutor available from some moment on, a learner
\* who stops working gets stage 2 handled, also when it was reached while the
\* tutor was unavailable (the first effect depends on tutorAvailable).
HelpWhenOpen ==
  LearnerStops /\ <>[](ui.expanded /\ ui.available) => <>[]triggered
=============================================================================

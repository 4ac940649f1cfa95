------------------------------ MODULE TutorPanel ------------------------------
(***************************************************************************)
(* The tutor in the workspace: the stuck detection of StuckDetection with  *)
(* the panel it expands, the learner's chat in that panel (useTutorStream),*)
(* the intervention's request (useStuckIntervention), and the probes that  *)
(* bring an unavailable tutor back (useTutorRecovery, the retry button).   *)
(*                                                                         *)
(* The chat's hook and the probes belong to the panel, which is unmounted  *)
(* when it is collapsed: the effects' cleanups abort the chat and stop the *)
(* interval.  The intervention's hook belongs to the workspace and goes on.*)
(* What a stream says and the messages of the conversation are left out.   *)
(***************************************************************************)
EXTENDS StuckDetection

VARIABLES
  chat,     \* the chat's request: see Requests
  help,     \* the intervention's request
  shown,    \* isInterventionStreaming of the last render
  healthy,  \* what GET /health says: the circuit is not OPEN
  news,     \* a health reply that says "available" is on its way
  refusal   \* a 503 is here, and its body, yet to be read, says "unavailable"

panelVars == <<chat, help, shown, healthy, news, refusal>>
allVars == <<vars, panelVars>>

\* "token": waiting for getIdToken.  "sent": the request or its stream.
\* "lost": isStreamingRef is set and nothing is left that would clear it.
RequestStates == {"none", "token", "sent", "lost"}

PanelInit ==
  /\ Init
  /\ chat = "none"
  /\ help = "none"
  /\ shown = FALSE
  /\ healthy \in BOOLEAN
  /\ news = FALSE
  /\ refusal = FALSE

-----------------------------------------------------------------------------
(* The workspace's own steps, with what they do to the panel. *)

Unmounts == before.expanded /\ ~rendered.expanded

\* Clock, timer, clicks and the session.
WorkspaceStep ==
  /\ Elapse \/ Check \/ Act \/ ToggleTutor \/ SessionCreated
  /\ UNCHANGED panelVars

\* Mutant: only the ref is cleared when an intervention ends, not the state.
RenderKeepsShown ==
  /\ \/ Render
     \/ rendered = before /\ ui = rendered /\ shown # asking /\ UNCHANGED vars
  /\ shown' = (shown \/ asking)
  /\ UNCHANGED <<chat, help, healthy, news, refusal>>

\* React renders for a change of state, or of the intervention's alone.
PanelRender ==
  /\ \/ Render
     \/ rendered = before /\ ui = rendered /\ shown # asking /\ UNCHANGED vars
  /\ shown' = asking
  /\ UNCHANGED <<chat, help, healthy, news, refusal>>

\* The effects of a render: the workspace's two, whose request begins, and the
\* panel's cleanup when it goes: its chat is aborted.
PanelEffects ==
  /\ RunEffects
  /\ help' = IF asking' /\ ~asking THEN "token" ELSE help
  /\ chat' = IF Unmounts THEN "none" ELSE chat
  /\ UNCHANGED <<shown, healthy, news, refusal>>

-----------------------------------------------------------------------------
(* The chat. *)

\* The panel shows the input, and it is not disabled.
InputEnabled ==
  /\ rendered.expanded /\ rendered.available
  /\ chat = "none" /\ ~shown

SendMessage ==
  /\ InputEnabled /\ rendered.session
  /\ chat' = "token"
  /\ UNCHANGED <<vars, help, shown, healthy, news, refusal>>

\* getIdToken answers, or rejects, which nobody handles; without a user the
\* page is left for the sign-in.
ChatToken ==
  /\ chat = "token"
  /\ chat' \in {"sent", "lost"}
  /\ UNCHANGED <<vars, help, shown, healthy, news, refusal>>

\* message_complete, which also says the tutor is available; TUTOR_UNAVAILABLE
\* in the stream; another error, a limit reached or the end of a stream that said
\* nothing; or a refusal, which ends the chat before its body is read.
ChatEnds ==
  /\ chat = "sent"
  /\ chat' = "none"
  /\ \/ (TutorBack \/ TutorDown \/ UNCHANGED vars) /\ UNCHANGED refusal
     \/ refusal' = TRUE /\ UNCHANGED vars
  /\ UNCHANGED <<help, shown, healthy, news>>

-----------------------------------------------------------------------------
(* The intervention's request. *)

HelpToken ==
  /\ help = "token"
  /\ help' \in {"sent", "lost"}
  /\ UNCHANGED <<vars, chat, shown, healthy, news, refusal>>

HelpEnds ==
  /\ help = "sent"
  /\ help' = "none"
  /\ InterventionEnds
  /\ UNCHANGED refusal \/ (refusal' = TRUE /\ UNCHANGED ui)
  /\ UNCHANGED <<chat, shown, healthy, news>>

-----------------------------------------------------------------------------
(* The tutor's health. *)

\* The body of a refusal has been read, or was broken off, which the chat takes
\* for the same.
RefusalRead ==
  /\ refusal
  /\ refusal' \in BOOLEAN  \* another refusal's may still be read
  /\ TutorDown \/ (~ui.available /\ ~refusal' /\ UNCHANGED vars)
  /\ UNCHANGED <<chat, help, shown, healthy, news>>

\* The circuit opens, closes or becomes half-open, for whatever reason.
HealthChanges ==
  /\ healthy' = ~healthy
  /\ UNCHANGED <<vars, chat, help, shown, news, refusal>>

\* Mutant: only the first probe of an outage is sent.
ProbeOnce ==
  /\ rendered # before
  /\ rendered.expanded /\ ~rendered.available
  /\ healthy
  /\ news' = TRUE
  /\ UNCHANGED <<vars, chat, help, shown, healthy, refusal>>

\* A probe of the mounted panel, by its interval or by the learner, is answered
\* with good news.  Other answers, and failures, change nothing.
Probe ==
  /\ before.expanded /\ ~before.available
  /\ healthy
  /\ news' = TRUE
  /\ UNCHANGED <<vars, chat, help, shown, healthy, refusal>>

\* The reply arrives, whatever has happened since: nothing aborts a probe.
NewsArrives ==
  /\ news
  /\ news' \in BOOLEAN  \* another reply may be on its way
  /\ TutorBack \/ (ui.available /\ ~news' /\ UNCHANGED vars)
  /\ UNCHANGED <<chat, help, shown, healthy, refusal>>

PanelNext ==
  \/ WorkspaceStep \/ PanelRender \/ PanelEffects
  \/ SendMessage \/ ChatToken \/ ChatEnds
  \/ HelpToken \/ HelpEnds
  \/ RefusalRead \/ HealthChanges \/ Probe \/ NewsArrives

\* The clock, the interval, React; tokens, requests and streams end (the routes'
\* own timers), the probe's interval goes on.
PanelFairness ==
  /\ WF_allVars(Elapse /\ UNCHANGED panelVars)
  /\ WF_allVars(Check /\ UNCHANGED panelVars)
  /\ WF_allVars(PanelRender) /\ WF_allVars(PanelEffects)
  /\ WF_allVars(ChatToken) /\ WF_allVars(ChatEnds)
  /\ WF_allVars(HelpToken) /\ WF_allVars(HelpEnds)
  /\ WF_allVars(RefusalRead) /\ WF_allVars(Probe) /\ WF_allVars(NewsArrives)

PanelSpec == PanelInit /\ [][PanelNext]_allVars /\ PanelFairness

-----------------------------------------------------------------------------
(* Properties. *)

\* The panel's state has its types; a chat lives in a mounted panel, and the
\* intervention's request is under way exactly while its hook says so.
PanelTypeOK ==
  /\ TypeOK
  /\ {chat, help} \subseteq RequestStates
  /\ {shown, healthy, news, refusal} \subseteq BOOLEAN
  /\ chat # "none" => before.expanded \/ rendered.expanded
  /\ asking <=> help # "none"

\* What the learner's premises exclude: an answer, or a reply, that says the
\* tutor is unavailable.
Fails == ui.available /\ ~ui'.available

\* An unavailable tutor comes back: with the panel open and the service healthy
\* from some moment on, and no request that fails, the panel offers the chat
\* again for good, however the outage began and whatever old replies say
\* (useTutorRecovery).
BackWhenHealthy ==
  (<>[](ui.expanded /\ healthy) /\ <>[][~Fails]_allVars) => <>[](ui.available)

\* No stream shuts the learner out: the panel lets the learner write again and
\* again while it shows the chat, whatever ends the chat and the interventions
\* and wherever the panel is collapsed in between.  Only a token that was not to
\* be had can stop that: for the chat until the panel is collapsed, for an
\* intervention as long as the workspace is open (isStreamingRef).
InputReturns ==
  \/ []<>(InputEnabled \/ ~rendered.expanded \/ ~rendered.available)
  \/ <>[](chat = "lost") \/ <>[](help = "lost")
=============================================================================

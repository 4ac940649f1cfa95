--------------------------- MODULE TutorPanel_proofs ---------------------------
(***************************************************************************)
(* The panel, the chat, the intervention's request and the probes leave    *)
(* stuck detection as StuckDetection specifies it, so NoNagging holds of   *)
(* the whole; and the types of the panel.                                  *)
(***************************************************************************)
EXTENDS TutorPanel, TLAPS

-----------------------------------------------------------------------------
(* Stuck detection. *)

\* While stage2TriggeredRef is false, the last request for help is at least as
\* old as the learner's last activity.
ClearedWithTimer == ~triggered => sinceHelp >= idle

\* So a stage 2 that could still trigger a request, in the state or in a
\* render whose effects have not run, is a full wait after the last request.
Stage2IsFresh ==
  (~triggered /\ (ui.stage2 \/ (rendered # before /\ rendered.stage2)))
    => sinceHelp >= Stage2At

\* The inductive invariant.
IInv == TypeOK /\ ClearedWithTimer /\ Stage2IsFresh

-----------------------------------------------------------------------------

\* The assumption on the constants, in the form the proofs use.
LEMMA Constants == Stage2At \in Nat /\ Threshold \in Nat /\ Stage2At >= 1
  BY StuckAssumption DEF StuckAssumption, Stage2At

\* Ages stay ages, and keep their order.
LEMMA LaterAges ==
  ASSUME NEW a \in 0 .. Stage2At, NEW b \in 0 .. Stage2At
  PROVE  /\ Later(a) \in 0 .. Stage2At
         /\ Later(a) >= a
         /\ a >= b => Later(a) >= Later(b)
  BY Constants DEF Later

\* resetTimer clears the stages and nothing else.
LEMMA CalmType ==
  ASSUME NEW u \in UIStates
  PROVE  Calm(u) \in UIStates /\ ~Calm(u).stage2
  BY DEF Calm, UIStates

\* The initial state satisfies the invariant.
LEMMA InitIInv == Init => IInv
<1>1. Mounted \in UIStates /\ ~Mounted.stage2
  BY DEF Mounted, UIStates
<1> SUFFICES ASSUME Init PROVE IInv
  OBVIOUS
<1>2. idle = 0 /\ sinceHelp = Stage2At /\ ~triggered /\ ~asking
  BY DEF Init
<1>3. ui = Mounted /\ rendered = Mounted /\ before = Mounted
  BY DEF Init
<1>4. triggered \in BOOLEAN /\ asking \in BOOLEAN
  BY DEF Init
<1>5. TypeOK
  BY <1>1, <1>2, <1>3, <1>4, Constants DEF TypeOK
<1>6. ClearedWithTimer /\ Stage2IsFresh
  BY <1>1, <1>2, <1>3, Constants DEF ClearedWithTimer, Stage2IsFresh
<1> QED
  BY <1>5, <1>6 DEF IInv

\* Every step preserves the types.
LEMMA NextType == TypeOK /\ [Next]_vars => TypeOK'
<1> SUFFICES ASSUME TypeOK, [Next]_vars PROVE TypeOK'
  OBVIOUS
<1> USE DEF TypeOK
<1>1. CASE Elapse
  BY <1>1, LaterAges DEF Elapse
<1>2. CASE Check
  <2> DEFINE stamp == ui.stamped \/ ~ui.stage1
  <2>1. stamp \in BOOLEAN
    OBVIOUS
  <2>2. ui' \in {[ui EXCEPT !.stage1 = TRUE, !.stage2 = TRUE],
                [ui EXCEPT !.stage1 = TRUE, !.stamped = stamp]}
    BY <1>2 DEF Check
  <2> HIDE DEF stamp
  <2>3. ui' \in UIStates
    BY <2>1, <2>2 DEF UIStates
  <2> QED BY <1>2, <2>3 DEF Check
<1>3. CASE Act
  BY <1>3, Constants, CalmType DEF Act
<1>4. CASE ToggleTutor
  BY <1>4 DEF ToggleTutor, SetUI, UIStates
<1>5. CASE SessionCreated
  BY <1>5 DEF SessionCreated, SetUI, UIStates
<1>6. CASE TutorDown
  BY <1>6 DEF TutorDown, SetUI, UIStates
<1>7. CASE TutorBack
  BY <1>7 DEF TutorBack, SetUI, UIStates
<1>8. CASE Render
  BY <1>8 DEF Render
<1>9. CASE RunEffects
  <2> DEFINE u == IF Expands THEN [ui EXCEPT !.expanded = TRUE] ELSE ui
  <2>1. u \in UIStates BY DEF UIStates
  <2>2. ui' \in {Calm(u), u} /\ idle' \in {0, idle}
    BY <1>9 DEF RunEffects, Dismiss
  <2>3. Calm(u) \in UIStates /\ 0 \in 0 .. Stage2At
    BY <2>1, CalmType, Constants
  <2>31. ui' \in UIStates /\ idle' \in 0 .. Stage2At
    BY <2>1, <2>2, <2>3
  <2>4. rendered' \in UIStates /\ before' \in UIStates
    BY <1>9 DEF RunEffects
  <2>5. sinceHelp' \in 0 .. Stage2At
    BY <1>9, Constants DEF RunEffects
  <2>6. triggered' \in BOOLEAN
    <3>1. CASE Dismisses BY <1>9, <3>1 DEF RunEffects, Dismiss
    <3>2. CASE ~Dismisses BY <1>9, <3>2 DEF RunEffects
    <3> QED BY <3>1, <3>2
  <2>7. asking' \in BOOLEAN
    BY <1>9 DEF RunEffects
  <2> QED BY <2>31, <2>4, <2>5, <2>6, <2>7
<1>10. CASE InterventionEnds
  BY <1>10 DEF InterventionEnds, UIStates
<1>11. CASE UNCHANGED vars
  BY <1>11 DEF vars
<1> QED
  BY <1>1, <1>2, <1>3, <1>4, <1>5, <1>6, <1>7, <1>8, <1>9, <1>10, <1>11 DEF Next

\* Every step preserves the rest of the invariant.
LEMMA NextIInv == IInv /\ [Next]_vars => IInv'
<1> SUFFICES ASSUME IInv, [Next]_vars
             PROVE  ClearedWithTimer' /\ Stage2IsFresh'
  BY NextType DEF IInv
<1>0. TypeOK /\ ClearedWithTimer /\ Stage2IsFresh
  BY DEF IInv
<1> USE DEF ClearedWithTimer, Stage2IsFresh
<1>1. CASE Elapse
  <2>1. /\ {idle, sinceHelp} \subseteq 0 .. Stage2At
        /\ idle' = Later(idle) /\ sinceHelp' = Later(sinceHelp)
    BY <1>0, <1>1 DEF Elapse, TypeOK
  <2>2. sinceHelp' >= sinceHelp /\ (sinceHelp >= idle => sinceHelp' >= idle')
    BY <2>1, LaterAges
  <2>3. sinceHelp' \in 0 .. Stage2At
    BY <2>1, LaterAges
  <2>4. sinceHelp >= Stage2At => sinceHelp' >= Stage2At
    BY <2>1, <2>2, <2>3, Constants
  <2>5. UNCHANGED <<ui, rendered, before, triggered>>
    BY <1>1 DEF Elapse
  <2> QED BY <1>0, <2>2, <2>4, <2>5
<1>2. CASE Check
  <2>1. UNCHANGED <<idle, rendered, before, triggered, sinceHelp>>
    BY <1>2 DEF Check
  <2>2. idle >= Stage2At \/ ui'.stage2 = ui.stage2
    BY <1>0, <1>2 DEF Check, TypeOK, UIStates
  <2>3. ~triggered /\ idle >= Stage2At => sinceHelp >= Stage2At
    BY <1>0, Constants DEF TypeOK
  <2> QED BY <1>0, <2>1, <2>2, <2>3
<1>3. CASE Act
  <2>1. UNCHANGED <<rendered, before, triggered, sinceHelp>> /\ idle' = 0 /\ ~ui'.stage2
    BY <1>0, <1>3, CalmType DEF Act, TypeOK
  <2>2. sinceHelp >= 0 BY <1>0, Constants DEF TypeOK
  <2> QED BY <1>0, <2>1, <2>2
<1>4. CASE ToggleTutor \/ SessionCreated \/ TutorDown \/ TutorBack
  <2>1. UNCHANGED <<idle, rendered, before, triggered, sinceHelp>>
    BY <1>4 DEF ToggleTutor, SessionCreated, TutorDown, TutorBack, SetUI
  <2>2. ui'.stage2 = ui.stage2
    BY <1>0, <1>4
    DEF ToggleTutor, SessionCreated, TutorDown, TutorBack, SetUI, TypeOK, UIStates
  <2> QED BY <1>0, <2>1, <2>2
<1>5. CASE Render
  BY <1>0, <1>5 DEF Render
<1>6. CASE RunEffects
  <2>1. rendered' = before'
    BY <1>6 DEF RunEffects
  <2>2. CASE Dismisses
    <3>1. idle' = 0
      BY <1>6, <2>2 DEF RunEffects, Dismiss
    <3>2. ~ui'.stage2
      <4> DEFINE u == IF Expands THEN [ui EXCEPT !.expanded = TRUE] ELSE ui
      <4>1. u \in UIStates BY <1>0 DEF TypeOK, UIStates
      <4>2. ui' = Calm(u) BY <1>6, <2>2 DEF RunEffects, Dismiss
      <4> QED BY <4>1, <4>2, CalmType
    <3>3. sinceHelp' >= 0
      BY <1>0, <1>6, NextType DEF TypeOK
    <3> QED BY <2>1, <3>1, <3>2, <3>3
  <2>3. CASE ~Dismisses /\ Expands
    <3>1. triggered'
      BY <1>6, <2>3 DEF RunEffects
    <3> QED BY <3>1
  <2>4. CASE ~Dismisses /\ ~Expands
    <3>1. triggered' = triggered
      BY <1>0, <1>6, <2>4 DEF RunEffects, TypeOK
    <3>2. UNCHANGED <<idle, ui, sinceHelp>>
      BY <1>6, <2>4 DEF RunEffects
    <3> QED BY <1>0, <2>1, <3>1, <3>2
  <2> QED BY <2>2, <2>3, <2>4
<1>7. CASE InterventionEnds
  <2>1. UNCHANGED <<idle, rendered, before, triggered, sinceHelp>>
    BY <1>7 DEF InterventionEnds
  <2>2. ui'.stage2 = ui.stage2
    BY <1>0, <1>7 DEF InterventionEnds, TypeOK, UIStates
  <2> QED BY <1>0, <2>1, <2>2
<1>8. CASE UNCHANGED vars
  BY <1>0, <1>8 DEF vars
<1> QED
  BY <1>1, <1>2, <1>3, <1>4, <1>5, <1>6, <1>7, <1>8 DEF Next

-----------------------------------------------------------------------------
(* The theorems. *)

\* IInv holds in every reachable state.
THEOREM Invariant == Spec => []IInv
  BY InitIInv, NextIInv, PTL DEF Spec

\* Two requests for help are at least the threshold and the offset apart.
THEOREM Patient == Spec => NoNagging
<1>1. IInv /\ [Next]_vars => [sinceHelp' = 0 /\ sinceHelp # 0 => sinceHelp >= Stage2At]_vars
  <2> SUFFICES ASSUME IInv, Next, sinceHelp' = 0, sinceHelp # 0
               PROVE  sinceHelp >= Stage2At
    OBVIOUS
  <2>0. TypeOK /\ Stage2IsFresh BY DEF IInv
  <2>1. CASE RunEffects
    <3>1. Expands BY <2>1 DEF RunEffects
    <3>2. rendered # before /\ rendered.stage2 /\ ~triggered
      BY <2>1, <3>1 DEF RunEffects, Expands
    <3> QED BY <2>0, <3>2 DEF Stage2IsFresh
  <2>2. CASE Elapse
    <3>1. sinceHelp' >= sinceHelp /\ sinceHelp \in 0 .. Stage2At
      BY <2>0, <2>2, LaterAges DEF Elapse, TypeOK
    <3> QED BY <3>1, Constants
  <2>3. sinceHelp' = sinceHelp \/ Elapse \/ RunEffects
    BY DEF Next, Check, Act, ToggleTutor, SessionCreated, TutorDown, TutorBack, SetUI,
           Render, InterventionEnds
  <2> QED BY <2>1, <2>2, <2>3
<1> QED
  BY <1>1, Invariant, PTL DEF Spec, NoNagging

-----------------------------------------------------------------------------
(* The panel. *)

\* Every step of the panel is a step of stuck detection, or changes nothing
\* of its state.
LEMMA PanelStep == [PanelNext]_allVars => [Next]_vars
<1> SUFFICES ASSUME [PanelNext]_allVars PROVE [Next]_vars
  OBVIOUS
<1>1. WorkspaceStep \/ PanelRender \/ PanelEffects => [Next]_vars
  BY DEF WorkspaceStep, PanelRender, PanelEffects, Next
<1>2. SendMessage \/ ChatToken \/ ChatEnds => [Next]_vars
  BY DEF SendMessage, ChatToken, ChatEnds, Next
<1>3. HelpToken \/ HelpEnds => [Next]_vars
  BY DEF HelpToken, HelpEnds, Next
<1>4. RefusalRead \/ HealthChanges \/ Probe \/ NewsArrives => [Next]_vars
  BY DEF RefusalRead, HealthChanges, Probe, NewsArrives, Next
<1>5. UNCHANGED allVars => UNCHANGED vars
  BY DEF allVars
<1> QED
  BY <1>1, <1>2, <1>3, <1>4, <1>5 DEF PanelNext

\* The whole implements stuck detection.
THEOREM ImplementsDetection == PanelSpec => Spec
<1>1. PanelInit => Init
  BY DEF PanelInit
<1> QED
  BY <1>1, PanelStep, PTL DEF PanelSpec, Spec

\* The tutor does not nag, whatever the chat, the outages and the probes do.
THEOREM PanelPatient == PanelSpec => NoNagging
  BY ImplementsDetection, Patient, PTL

-----------------------------------------------------------------------------

\* Every step keeps the panel's types: a chat dies with its panel, and the
\* intervention's hook and its request agree.
LEMMA NextPanelType == PanelTypeOK /\ [PanelNext]_allVars => PanelTypeOK'
<1> SUFFICES ASSUME PanelTypeOK, [PanelNext]_allVars PROVE PanelTypeOK'
  OBVIOUS
<1>1. TypeOK'
  BY PanelStep, NextType DEF PanelTypeOK
<1> USE DEF PanelTypeOK, RequestStates
<1>2. CASE WorkspaceStep
  BY <1>1, <1>2 DEF WorkspaceStep, panelVars, Elapse, Check, Act, ToggleTutor, SessionCreated, SetUI
<1>3. CASE PanelRender
  <2>1. rendered = before /\ before' = before /\ asking' = asking
    BY <1>3 DEF PanelRender, Render, vars
  <2>2. asking \in BOOLEAN BY DEF TypeOK
  <2> QED BY <1>1, <1>3, <2>1, <2>2 DEF PanelRender
<1>4. CASE PanelEffects
  <2>1. RunEffects /\ help' = IF asking' /\ ~asking THEN "token" ELSE help
    BY <1>4 DEF PanelEffects
  <2>2. before' = rendered /\ rendered' = rendered /\ (asking => asking')
    BY <2>1 DEF RunEffects
  <2>3. asking' \in BOOLEAN /\ asking \in BOOLEAN BY <1>1 DEF TypeOK
  <2>4. asking' <=> help' # "none" BY <2>1, <2>2, <2>3
  <2>5. {chat', help'} \subseteq RequestStates BY <1>4, <2>1 DEF PanelEffects
  <2>6. chat' # "none" => before'.expanded
    BY <1>4, <2>2 DEF PanelEffects, Unmounts
  <2> QED BY <1>1, <1>4, <2>4, <2>5, <2>6 DEF PanelEffects
<1>5. CASE SendMessage \/ ChatToken \/ ChatEnds
  <2>1. CASE SendMessage \/ ChatToken
    BY <1>1, <2>1 DEF SendMessage, ChatToken, InputEnabled, vars
  <2>2. CASE ChatEnds
    <3>1. chat' = "none" /\ refusal' \in BOOLEAN /\ UNCHANGED <<help, shown, healthy, news>>
      BY <2>2 DEF ChatEnds
    <3>2. UNCHANGED <<asking, rendered, before>>
      BY <2>2 DEF ChatEnds, TutorBack, TutorDown, SetUI, vars
    <3> QED BY <1>1, <3>1, <3>2
  <2> QED BY <1>5, <2>1, <2>2
<1>6. CASE HelpToken
  BY <1>1, <1>6 DEF HelpToken, vars
<1>7. CASE HelpEnds
  BY <1>1, <1>7 DEF HelpEnds, InterventionEnds
<1>8. CASE RefusalRead \/ HealthChanges \/ Probe \/ NewsArrives
  <2>1. UNCHANGED <<chat, help, shown>> /\ {healthy', news', refusal'} \subseteq BOOLEAN
    BY <1>8 DEF RefusalRead, HealthChanges, Probe, NewsArrives
  <2>2. UNCHANGED <<asking, rendered, before>>
    BY <1>8 DEF RefusalRead, HealthChanges, Probe, NewsArrives, TutorBack, TutorDown, SetUI, vars
  <2> QED BY <1>1, <2>1, <2>2
<1>9. CASE UNCHANGED allVars
  BY <1>1, <1>9 DEF allVars, panelVars, vars
<1> QED
  BY <1>2, <1>3, <1>4, <1>5, <1>6, <1>7, <1>8, <1>9 DEF PanelNext

\* The types of the panel, for every threshold and offset.
THEOREM PanelTypeCorrect == PanelSpec => []PanelTypeOK
<1>1. PanelInit => PanelTypeOK
  <2> SUFFICES ASSUME PanelInit PROVE PanelTypeOK
    OBVIOUS
  <2>1. TypeOK /\ asking = FALSE
    BY InitIInv DEF PanelInit, IInv, Init
  <2>2. chat = "none" /\ help = "none" /\ shown = FALSE /\ healthy \in BOOLEAN
        /\ news = FALSE /\ refusal = FALSE
    BY DEF PanelInit
  <2>3. "none" \in RequestStates /\ FALSE \in BOOLEAN
    BY DEF RequestStates
  <2> QED BY <2>1, <2>2, <2>3 DEF PanelTypeOK
<1> QED
  BY <1>1, NextPanelType, PTL DEF PanelSpec
=============================================================================

-------------------------- MODULE CodeAutoSave_proofs --------------------------
(***************************************************************************)
(* Proofs of the types of CodeAutoSave and of RestIsSaved, for every set   *)
(* of saves, every set of texts and every number of retries.               *)
(*                                                                         *)
(* RestIsSaved speaks of a moment when nothing is under way.  What makes   *)
(* it inductive is what holds of the one save that may be under way while  *)
(* alone is true: it belongs to this view, it carries what the editor      *)
(* showed when the timer fired, and once stored it is the newest snapshot. *)
(***************************************************************************)
EXTENDS CodeAutoSave, TLAPS

Phases == {"idle", "sent", "stored", "waiting", "blind"}

\* While alone, at most one save is under way; it has a reply to wait for and
\* belongs to this view.
OneSave ==
  alone => /\ \A s, t \in UnderWay : s = t
           /\ \A s \in UnderWay : save[s].mine /\ save[s].phase # "blind"

\* A save that is stored is the newest snapshot.
StoredIsNewest ==
  alone => \A s \in Saves : save[s].phase = "stored" => newest = save[s].code

\* After the timer fired the save carries what the editor shows.
CarriesContent ==
  (alone /\ timer = "fired") => \A s \in UnderWay : save[s].code = content

\* With no save under way the hook's hash is the newest snapshot's.
HashIsNewest ==
  (alone /\ UnderWay = {} /\ lastSaved # None) => newest = lastSaved

\* With no save under way a fired timer has left nothing to save.
FiredIsSaved ==
  (alone /\ timer = "fired" /\ UnderWay = {}) => lastSaved = content

\* A workspace without an editor has not saved.
LoadingIsUnarmed == view # "editing" => timer = "unarmed"

IInv ==
  /\ TypeOK
  /\ OneSave /\ StoredIsNewest /\ CarriesContent
  /\ HashIsNewest /\ FiredIsSaved /\ LoadingIsUnarmed

-----------------------------------------------------------------------------

\* The codes the program handles are none of them None.
LEMMA CodesNotNone == None \notin Codes
  BY AutoSaveAssumption DEF Codes, AutoSaveAssumption

\* The snapshot or starter code a workspace is filled with is a code.
LEMMA RestoredType == ASSUME TypeOK PROVE Restored \in Codes
  BY DEF TypeOK, Restored, Codes

\* Beginning a save changes the record of one idle id.
LEMMA BeginType ==
  ASSUME TypeOK, NEW s \in Saves, NEW phase \in {"sent", "blind"}, NEW code \in Codes,
         Begin(s, phase, code)
  PROVE  /\ save' \in [Saves -> [phase : Phases, code : Codes \cup {None}, mine : BOOLEAN]]
         /\ save'[s] = [phase |-> phase, code |-> code, mine |-> (phase = "sent")]
         /\ \A t \in Saves \ {s} : save'[t] = save[t]
  BY DEF TypeOK, Begin, Phases

\* A free id has the type of a save.
LEMMA IdleType == Idle \in [phase : Phases, code : Codes \cup {None}, mine : BOOLEAN]
  BY DEF Idle, Phases

-----------------------------------------------------------------------------

\* The count a view begins with.
LEMMA NoRetryYet == 0 \in 0 .. MaxRetries
  BY AutoSaveAssumption DEF AutoSaveAssumption

\* The initial state has its types.
LEMMA TypeInit == Init => TypeOK
<1> SUFFICES ASSUME Init PROVE TypeOK
  OBVIOUS
<1>1. save \in [Saves -> [phase : Phases, code : Codes \cup {None}, mine : BOOLEAN]]
  BY IdleType DEF Init
<1> QED
  BY <1>1, NoRetryYet DEF Init, TypeOK, Codes, Phases

\* Every step keeps the types.
LEMMA TypeStep == TypeOK /\ [Next]_vars => TypeOK'
<1> SUFFICES ASSUME TypeOK, [Next]_vars PROVE TypeOK'
  OBVIOUS
<1> USE IdleType DEF Phases
<1>1. CASE Open
  <2>1. save' \in [Saves -> [phase : Phases, code : Codes \cup {None}, mine : BOOLEAN]]
    BY <1>1 DEF TypeOK, Open
  <2> QED
    BY <1>1, <2>1, NoRetryYet DEF TypeOK, Open
<1>2. CASE Fetch
  BY <1>2, RestoredType DEF TypeOK, Fetch, hook
<1>3. CASE GoStale \/ Evict
  BY <1>3 DEF TypeOK, GoStale, Evict, hook
<1>4. CASE EditorMounts
  BY <1>4 DEF TypeOK, EditorMounts
<1>5. ASSUME NEW code \in Written \cup {Starter}, Edit(code) PROVE TypeOK'
  BY <1>5 DEF TypeOK, Edit, Codes
<1>6. CASE Fire
  <2>1. CASE content = lastSaved
    BY <1>6, <2>1 DEF TypeOK, Fire
  <2>2. CASE content # lastSaved
    <3>1. PICK s \in Saves : Begin(s, "sent", content)
      BY <1>6, <2>2 DEF Fire
    <3>2. content \in Codes
      BY DEF TypeOK
    <3>3. save' \in [Saves -> [phase : Phases, code : Codes \cup {None}, mine : BOOLEAN]]
      BY <3>1, <3>2, BeginType
    <3> QED
      BY <1>6, <2>2, <3>3, AutoSaveAssumption DEF TypeOK, Fire, AutoSaveAssumption
  <2> QED
    BY <2>1, <2>2
<1>7. CASE Run
  <2>1. PICK s \in Saves : Begin(s, "blind", content)
    BY <1>7 DEF Run
  <2>2. content \in Codes
    BY DEF TypeOK
  <2>3. save' \in [Saves -> [phase : Phases, code : Codes \cup {None}, mine : BOOLEAN]]
    BY <2>1, <2>2, BeginType
  <2> QED
    BY <1>7, <2>3 DEF TypeOK, Run, hook
<1>8. ASSUME NEW s \in Saves, Request(s) PROVE TypeOK'
  <2>1. CASE Store(s)
    BY <2>1 DEF TypeOK, Store, hook
  <2>2. CASE Succeed(s)
    <3>1. save' \in [Saves -> [phase : Phases, code : Codes \cup {None}, mine : BOOLEAN]]
      BY <2>2 DEF TypeOK, Succeed
    <3>2. lastSaved' \in Codes \cup {None} /\ retries' \in 0 .. MaxRetries
      BY <2>2, NoRetryYet DEF TypeOK, Succeed
    <3> QED
      BY <2>2, <3>1, <3>2 DEF TypeOK, Succeed
  <2>3. CASE Fail(s)
    <3>1. save' \in [Saves -> [phase : Phases, code : Codes \cup {None}, mine : BOOLEAN]]
      BY <2>3 DEF TypeOK, Fail, RetryLater, GiveUp
    <3>2. retries' \in 0 .. MaxRetries
      BY <2>3, AutoSaveAssumption DEF TypeOK, Fail, RetryLater, GiveUp, AutoSaveAssumption
    <3>3. armed' \in Saves \cup {None} /\ alone' \in BOOLEAN
      BY <2>3 DEF TypeOK, Fail, RetryLater, GiveUp
    <3> QED
      BY <2>3, <3>1, <3>2, <3>3 DEF TypeOK, Fail
  <2>4. CASE Vanish(s) \/ Resend(s)
    BY <2>4 DEF TypeOK, Vanish, Resend, hook
  <2> QED
    BY <1>8, <2>1, <2>2, <2>3, <2>4 DEF Request
<1>9. CASE Close
  BY <1>9 DEF TypeOK, Close
<1>10. CASE WorkElsewhere
  BY <1>10 DEF TypeOK, WorkElsewhere, Codes, hook
<1>11. ASSUME NEW saves \in [Saves -> [phase : Phases, code : Codes \cup {None}, mine : BOOLEAN]],
              PageGone(saves)
       PROVE  TypeOK'
  <2>1. save' \in [Saves -> [phase : Phases, code : Codes \cup {None}, mine : BOOLEAN]]
    BY <1>11 DEF PageGone
  <2> QED
    BY <1>11, <2>1, NoRetryYet DEF TypeOK, PageGone, Codes
<1>12. CASE Crash
  BY <1>12, <1>11 DEF Crash, TypeOK
<1>13. CASE Leave
  <2>1. CASE content = lastSaved
    BY <1>13, <2>1, <1>11 DEF Leave, TypeOK
  <2>2. CASE content # lastSaved
    <3>1. PICK s \in Saves :
            PageGone([save EXCEPT ![s] = [phase |-> "sent", code |-> content, mine |-> TRUE]])
      BY <1>13, <2>2 DEF Leave
    <3>2. [save EXCEPT ![s] = [phase |-> "sent", code |-> content, mine |-> TRUE]]
            \in [Saves -> [phase : Phases, code : Codes \cup {None}, mine : BOOLEAN]]
      BY DEF TypeOK
    <3> QED
      BY <3>1, <3>2, <1>11
  <2> QED
    BY <2>1, <2>2
<1>14. CASE UNCHANGED vars
  BY <1>14 DEF TypeOK, vars, hook
<1> QED
  BY <1>1, <1>2, <1>3, <1>4, <1>5, <1>6, <1>7, <1>8, <1>9, <1>10, <1>12, <1>13, <1>14
  DEF Next

\* The variables keep their types.
THEOREM TypeCorrect == Spec => []TypeOK
  BY TypeInit, TypeStep, PTL DEF Spec

-----------------------------------------------------------------------------

Others == OneSave /\ StoredIsNewest /\ CarriesContent /\ HashIsNewest /\ FiredIsSaved
            /\ LoadingIsUnarmed

\* Before the first workspace is opened nothing is claimed.
LEMMA InvInit == Init => IInv
<1> SUFFICES ASSUME Init PROVE IInv
  OBVIOUS
<1>1. TypeOK
  BY TypeInit
<1>2. Others
  BY DEF Init, Others, OneSave, StoredIsNewest, CarriesContent, HashIsNewest,
         FiredIsSaved, LoadingIsUnarmed
<1> QED
  BY <1>1, <1>2 DEF IInv, Others

\* A step that ends the view, or the orderly saving, leaves nothing to keep.
LEMMA NotAlone ==
  ASSUME ~alone', LoadingIsUnarmed' PROVE Others'
  BY DEF Others, OneSave, StoredIsNewest, CarriesContent, HashIsNewest, FiredIsSaved

\* A step that touches neither the saves nor what they are compared with.
LEMMA Unrelated ==
  ASSUME IInv, UNCHANGED <<content, view, timer, save, lastSaved, newest, alone>>
  PROVE  Others'
  BY DEF IInv, Others, OneSave, StoredIsNewest, CarriesContent, HashIsNewest,
         FiredIsSaved, LoadingIsUnarmed, UnderWay

\* Every step keeps the parts of the invariant that speak of saves.
LEMMA OthersStep == IInv /\ [Next]_vars => Others'
<1> SUFFICES ASSUME IInv, [Next]_vars PROVE Others'
  OBVIOUS
<1> USE DEF Others
<1>a. TypeOK /\ OneSave /\ StoredIsNewest /\ CarriesContent
        /\ HashIsNewest /\ FiredIsSaved /\ LoadingIsUnarmed
  BY DEF IInv
<1>1. CASE Open
  <2>0. \A s \in Saves : save'[s].phase = save[s].phase
    BY <1>1, <1>a DEF Open, TypeOK
  <2>1. alone' => UnderWay' = {} /\ UnderWay = {}
    <3>1. alone' => UnderWay = {}
      BY <1>1 DEF Open
    <3> QED
      BY <2>0, <3>1 DEF UnderWay
  <2>2. alone' => \A s \in Saves : save'[s].phase # "stored"
    BY <1>1, <2>1 DEF Open, UnderWay
  <2>3. timer' = "unarmed" /\ lastSaved' = None
    BY <1>1 DEF Open
  <2> QED
    BY <2>1, <2>2, <2>3 DEF OneSave, StoredIsNewest, CarriesContent, HashIsNewest,
                            FiredIsSaved, LoadingIsUnarmed
<1>2. CASE Fetch \/ GoStale \/ Evict
  BY <1>2, Unrelated DEF Fetch, GoStale, Evict, hook
<1>3. CASE EditorMounts
  <2>1. timer' # "fired" /\ view' = "editing"
    BY <1>3, <1>a DEF EditorMounts, LoadingIsUnarmed
  <2> QED
    BY <1>3, <1>a, <2>1 DEF EditorMounts, OneSave, StoredIsNewest, CarriesContent,
       HashIsNewest, FiredIsSaved, LoadingIsUnarmed, UnderWay
<1>4. ASSUME NEW code \in Written \cup {Starter}, Edit(code) PROVE Others'
  BY <1>4, <1>a DEF Edit, OneSave, StoredIsNewest, CarriesContent,
     HashIsNewest, FiredIsSaved, LoadingIsUnarmed, UnderWay
<1>5. CASE Fire
  <2>0. view' = "editing"
    BY <1>5, <1>a DEF Fire, DebounceEnded, LoadingIsUnarmed
  <2>1. CASE content = lastSaved
    <3>1. alone' => alone /\ UnderWay = {} /\ UnderWay' = {}
      BY <1>5, <2>1 DEF Fire, UnderWay
    <3> QED
      BY <1>5, <1>a, <2>0, <2>1, <3>1 DEF Fire, OneSave, StoredIsNewest, CarriesContent,
         HashIsNewest, FiredIsSaved, LoadingIsUnarmed, UnderWay
  <2>2. CASE content # lastSaved
    <3>1. PICK s \in Saves : Begin(s, "sent", content)
      BY <1>5, <2>2 DEF Fire
    <3>2. content \in Codes
      BY <1>a DEF TypeOK
    <3>3. /\ save'[s] = [phase |-> "sent", code |-> content, mine |-> TRUE]
          /\ \A t \in Saves \ {s} : save'[t] = save[t]
      BY <1>a, <3>1, <3>2, BeginType
    <3>4. alone' => UnderWay' = {s}
      <4>1. alone' => UnderWay = {}
        BY <1>5, <2>2 DEF Fire
      <4>2. save'[s].phase = "sent"
        BY <3>3
      <4> QED
        BY <3>3, <4>1, <4>2 DEF UnderWay
    <3>5. content' = content
      BY <1>5 DEF Fire
    <3>6. alone' => \A t \in Saves : save'[t].phase # "stored"
      BY <3>3, <3>4 DEF UnderWay
    <3> QED
      BY <2>0, <3>3, <3>4, <3>5, <3>6 DEF OneSave, StoredIsNewest, CarriesContent,
         HashIsNewest, FiredIsSaved, LoadingIsUnarmed
  <2> QED
    BY <2>1, <2>2
<1>6. CASE Run
  BY <1>6, <1>a, NotAlone DEF Run, hook, LoadingIsUnarmed
<1>7. ASSUME NEW s \in Saves, Request(s) PROVE Others'
  <2>0. LoadingIsUnarmed'
    BY <1>7, <1>a DEF Request, Store, Succeed, Fail, Vanish, Resend, hook, LoadingIsUnarmed
  <2>1. SUFFICES ASSUME alone' PROVE Others'
    BY <2>0, NotAlone
  <2>2. alone
    BY <1>7, <2>1 DEF Request, Store, Succeed, Fail, RetryLater, GiveUp, Vanish, Resend
  <2>3. s \in UnderWay /\ save[s].mine /\ save[s].phase # "blind" /\ UnderWay = {s}
    <3>1. s \in UnderWay
      BY <1>7 DEF Request, Store, Succeed, Fail, Vanish, Resend, UnderWay
    <3> QED
      BY <3>1, <2>2, <1>a DEF OneSave
  <2>4. \A t \in Saves \ {s} : save'[t] = save[t] /\ save[t].phase = "idle"
    <3>1. \A t \in Saves \ {s} : save[t].phase = "idle"
      BY <2>3 DEF UnderWay
    <3>2. \A t \in Saves \ {s} : save'[t] = save[t]
      BY <1>7, <1>a DEF Request, Store, Succeed, Fail, RetryLater, GiveUp, Vanish, Resend, TypeOK
    <3> QED
      BY <3>1, <3>2
  <2>5. content' = content /\ timer' = timer
    BY <1>7 DEF Request, Store, Succeed, Fail, Vanish, Resend, hook
  <2>6. CASE save'[s] = [save[s] EXCEPT !.phase = "sent"] \/ save'[s] = [save[s] EXCEPT !.phase = "waiting"]
    <3>1. save'[s].phase \in {"sent", "waiting"} /\ save'[s].mine = save[s].mine
            /\ save'[s].code = save[s].code
      BY <2>6, <1>a DEF TypeOK
    <3>2. UnderWay' = {s}
      BY <2>4, <3>1 DEF UnderWay
    <3> QED
      BY <1>a, <2>0, <2>2, <2>3, <2>4, <2>5, <3>1, <3>2 DEF OneSave, StoredIsNewest,
         CarriesContent, HashIsNewest, FiredIsSaved
  <2>7. CASE Store(s)
    <3>1. save'[s] = [save[s] EXCEPT !.phase = "stored"] /\ newest' = save[s].code
      BY <2>7, <2>3, <1>a DEF Store, TypeOK
    <3>2. save'[s].phase = "stored" /\ save'[s].mine = save[s].mine /\ save'[s].code = save[s].code
      BY <3>1, <1>a DEF TypeOK
    <3>3. UnderWay' = {s}
      BY <2>4, <3>2 DEF UnderWay
    <3> QED
      BY <1>a, <2>0, <2>2, <2>3, <2>4, <2>5, <3>1, <3>2, <3>3 DEF OneSave, StoredIsNewest,
         CarriesContent, HashIsNewest, FiredIsSaved
  <2>8. CASE Succeed(s)
    <3>1. save'[s].phase = "idle"
      BY <2>8, <1>a DEF Succeed, TypeOK, Idle
    <3>2. UnderWay' = {}
      BY <2>4, <3>1 DEF UnderWay
    <3>3. lastSaved' = save[s].code /\ newest' = newest /\ newest = save[s].code
      BY <2>8, <2>2, <2>3, <1>a DEF Succeed, StoredIsNewest
    <3>4. timer = "fired" => save[s].code = content
      BY <2>2, <2>3, <1>a DEF CarriesContent
    <3> QED
      BY <2>0, <2>4, <2>5, <3>1, <3>2, <3>3, <3>4 DEF OneSave, StoredIsNewest,
         CarriesContent, HashIsNewest, FiredIsSaved
  <2>9. CASE Fail(s)
    <3>1. RetryLater(s)
      BY <2>9, <2>3, <2>1 DEF Fail, GiveUp
    <3> QED
      BY <3>1, <2>6, <1>a DEF RetryLater, TypeOK
  <2>10. CASE Vanish(s)
    BY <2>10, <2>3 DEF Vanish
  <2>11. CASE Resend(s)
    BY <2>11, <2>6, <1>a DEF Resend, TypeOK
  <2> QED
    BY <1>7, <2>7, <2>8, <2>9, <2>10, <2>11 DEF Request
<1>8. CASE Close \/ Crash \/ Leave
  <2>1. ~alone' /\ timer' = "unarmed"
    BY <1>8 DEF Close, Crash, Leave, PageGone
  <2> QED
    BY <2>1, NotAlone DEF LoadingIsUnarmed
<1>9. CASE WorkElsewhere
  <2>1. timer' = "unarmed"
    BY <1>9, <1>a DEF WorkElsewhere, LoadingIsUnarmed, hook
  <2> QED
    BY <1>9, <1>a, <2>1 DEF WorkElsewhere, OneSave, StoredIsNewest, CarriesContent,
       HashIsNewest, FiredIsSaved, LoadingIsUnarmed, UnderWay, hook
<1>10. CASE UNCHANGED vars
  BY <1>10, Unrelated DEF vars, hook
<1> QED
  BY <1>1, <1>2, <1>3, <1>4, <1>5, <1>6, <1>7, <1>8, <1>9, <1>10 DEF Next

\* The inductive invariant holds.
THEOREM Invariant == Spec => []IInv
<1>1. IInv /\ [Next]_vars => IInv'
  BY OthersStep, TypeStep DEF IInv, Others
<1> QED
  BY <1>1, InvInit, PTL DEF Spec

\* Once saving has come to rest in an orderly view, the newest snapshot is what
\* the editor shows (RestIsSaved).
THEOREM RestSaved == Spec => []RestIsSaved
<1>1. IInv => RestIsSaved
  <2> SUFFICES ASSUME IInv, view = "editing", timer = "fired", UnderWay = {}, alone
               PROVE  lastSaved = content /\ newest = content
    BY DEF RestIsSaved
  <2>1. lastSaved = content
    BY DEF IInv, FiredIsSaved
  <2>2. lastSaved # None
    BY <2>1, CodesNotNone DEF IInv, TypeOK
  <2> QED
    BY <2>1, <2>2 DEF IInv, HashIsNewest
<1> QED
  BY <1>1, Invariant, PTL
=============================================================================

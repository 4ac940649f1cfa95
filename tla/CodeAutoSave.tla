----------------------------- MODULE CodeAutoSave -----------------------------
(***************************************************************************)
(* What becomes of a learner's code in one milestone's workspace: the      *)
(* editor store, the debounced auto-save with its retries (useAutoSave),   *)
(* the snapshots the server keeps (POST /save and the save point of a      *)
(* submission), and how a workspace that is opened again is filled: from   *)
(* the query cache (useWorkspaceData), into an editor that mounts later    *)
(* than the workspace.  A single-file milestone; of the snapshots only the *)
(* newest is kept, the one a workspace is restored from.                   *)
(*                                                                         *)
(* A save is one payload with all its retries.  Its phase:                 *)
(*   idle     the id is free                                               *)
(*   sent     the request is on its way                                    *)
(*   stored   the snapshot is inserted, the reply is on its way            *)
(*   waiting  the request failed and a retry timer is armed                *)
(*   blind    nobody waits for the reply: the save point of a submission,  *)
(*            or a request whose page is gone                              *)
(***************************************************************************)
EXTENDS Integers

CONSTANTS
  Saves,       \* ids of the saves under way together: a bound
  Written,     \* what the learner may write
  Starter,     \* the milestone's starter code
  Blank,       \* the editor store's initial content
  Foreign,     \* code of another milestone
  None,        \* no snapshot, no cache entry, nothing saved yet
  MaxRetries

ASSUME AutoSaveAssumption ==
  /\ MaxRetries \in Nat
  /\ {Starter, Blank, Foreign, None} \cap Written = {}
  /\ Starter \notin {Blank, Foreign, None}
  /\ None \notin {Blank, Foreign}

VARIABLES
  content,    \* the editor store's content, which outlives the workspace
  view,       \* "closed", "loading" or "editing": no editor before "editing"
  timer,      \* of the debounce: "unarmed", "armed" or "fired" in this view
  cache,      \* the code in the query cache, or None
  stale,      \* the cache entry is older than staleTime
  save,       \* each save: phase, code, and mine: begun in this view
  armed,      \* retryTimerRef: the save whose retry timer was set last
  retries,    \* retryCountRef
  lastSaved,  \* lastSavedHashRef
  newest,     \* the newest snapshot's code, or None
  alone       \* history: nothing else was being stored when the last save of
              \* this view began, nor when the timer fired, and it went well

hook == <<timer, armed, retries, lastSaved>>
vars == <<content, view, cache, stale, save, newest, alone, hook>>

Codes == Written \cup {Starter, Blank, Foreign}
Idle == [phase |-> "idle", code |-> None, mine |-> FALSE]

UnderWay == {s \in Saves : save[s].phase # "idle"}

Init ==
  /\ content = Blank /\ view = "closed"
  /\ timer = "unarmed" /\ armed = None /\ retries = 0 /\ lastSaved = None
  /\ cache = None /\ stale = FALSE
  /\ save = [s \in Saves |-> Idle]
  /\ newest = None
  /\ alone = FALSE

Begin(s, phase, code) ==
  /\ save[s].phase = "idle"
  /\ save' = [save EXCEPT ![s] = [phase |-> phase, code |-> code,
                                  mine |-> (phase = "sent")]]

-----------------------------------------------------------------------------
(* Opening a workspace. *)

\* A hook of its own; what earlier ones began goes on without it.
Open ==
  /\ view = "closed"
  /\ view' = "loading"
  /\ timer' = "unarmed" /\ armed' = None /\ retries' = 0 /\ lastSaved' = None
  /\ save' = [s \in Saves |-> [save[s] EXCEPT !.mine = FALSE]]
  /\ alone' = (UnderWay = {})
  /\ UNCHANGED <<content, cache, stale, newest>>

\* What the learner is to find: the newest snapshot, or the starter code.
Restored == IF newest = None THEN Starter ELSE newest

\* The query runs when there is no entry, or a stale one.
Fetch ==
  /\ view # "closed"
  /\ cache = None \/ stale
  /\ cache' = Restored
  /\ stale' = FALSE
  /\ UNCHANGED <<content, view, save, newest, alone, hook>>

GoStale ==
  /\ cache # None /\ ~stale
  /\ stale' = TRUE
  /\ UNCHANGED <<content, view, cache, save, newest, alone, hook>>

\* gcTime after the last view closed.
Evict ==
  /\ view = "closed" /\ cache # None
  /\ cache' = None /\ stale' = FALSE
  /\ UNCHANGED <<content, view, save, newest, alone, hook>>

\* handleMount puts the entry, stale or not, into the store; the workspace is
\* subscribed to changes of the store.
EditorMounts ==
  /\ view = "loading" /\ cache # None
  /\ view' = "editing"
  /\ content' = cache
  /\ timer' = IF content = cache THEN timer ELSE "armed"
  /\ UNCHANGED <<cache, stale, save, newest, alone, armed, retries, lastSaved>>

-----------------------------------------------------------------------------
(* Editing and saving. *)

\* Mutant: nothing is sent before a first save has succeeded.
DebounceEndedAfterSave == timer = "armed" /\ lastSaved # None

DebounceEnded == timer = "armed"

Edit(code) ==
  /\ view = "editing" /\ code # content
  /\ content' = code
  /\ timer' = "armed"
  /\ UNCHANGED <<view, cache, stale, save, newest, alone, armed, retries, lastSaved>>

\* The debounce timer: nothing is sent for what was saved last.
Fire ==
  /\ DebounceEnded
  /\ timer' = "fired"
  /\ IF content = lastSaved
     THEN alone' = (alone /\ UnderWay = {}) /\ UNCHANGED <<save, retries>>
     ELSE /\ \E s \in Saves : Begin(s, "sent", content)
          /\ retries' = 0
          /\ alone' = (UnderWay = {})
  /\ UNCHANGED <<content, view, cache, stale, newest, armed, lastSaved>>

\* A submission's save point, which the hook does not know of.
Run ==
  /\ view = "editing"
  /\ \E s \in Saves : Begin(s, "blind", content)
  /\ alone' = FALSE
  /\ UNCHANGED <<content, view, cache, stale, newest, hook>>

\* The server inserts the snapshot.
Store(s) ==
  /\ save[s].phase \in {"sent", "blind"}
  /\ newest' = save[s].code
  /\ save' = IF save[s].phase = "sent"
             THEN [save EXCEPT ![s].phase = "stored"]
             ELSE [save EXCEPT ![s] = Idle]
  /\ UNCHANGED <<content, view, cache, stale, alone, hook>>

\* Mutant: what the editor shows now is taken for what was saved.
SucceedWithCurrent(s) ==
  /\ save[s].phase = "stored"
  /\ save' = [save EXCEPT ![s] = Idle]
  /\ IF save[s].mine
     THEN lastSaved' = content /\ retries' = 0
     ELSE UNCHANGED <<lastSaved, retries>>
  /\ UNCHANGED <<content, view, timer, cache, stale, armed, newest, alone>>

Succeed(s) ==
  /\ save[s].phase = "stored"
  /\ save' = [save EXCEPT ![s] = Idle]
  /\ IF save[s].mine
     THEN lastSaved' = save[s].code /\ retries' = 0
     ELSE UNCHANGED <<lastSaved, retries>>
  /\ UNCHANGED <<content, view, timer, cache, stale, armed, newest, alone>>

\* onError: the timer of the retry replaces the one remembered, which stays
\* armed all the same.
RetryLater(s) ==
  /\ retries < MaxRetries
  /\ retries' = retries + 1
  /\ armed' = s
  /\ save' = [save EXCEPT ![s].phase = "waiting"]
  /\ UNCHANGED alone

GiveUp(s) ==
  /\ retries >= MaxRetries
  /\ save' = [save EXCEPT ![s] = Idle]
  /\ alone' = FALSE
  /\ UNCHANGED <<retries, armed>>

\* The request fails before or after the insert.  What an earlier hook counts
\* is not kept: its save is retried or given up.
Fail(s) ==
  /\ save[s].phase \in {"sent", "stored"}
  /\ IF save[s].mine
     THEN RetryLater(s) \/ GiveUp(s)
     ELSE /\ \/ save' = [save EXCEPT ![s].phase = "waiting"]
             \/ save' = [save EXCEPT ![s] = Idle]
          /\ UNCHANGED <<retries, armed, alone>>
  /\ UNCHANGED <<content, view, timer, cache, stale, lastSaved, newest>>

\* A blind save never reaches the server, or finds no session.
Vanish(s) ==
  /\ save[s].phase = "blind"
  /\ save' = [save EXCEPT ![s] = Idle]
  /\ UNCHANGED <<content, view, cache, stale, newest, alone, hook>>

\* The retry sends the payload it failed with.
Resend(s) ==
  /\ save[s].phase = "waiting"
  /\ save' = [save EXCEPT ![s].phase = "sent"]
  /\ UNCHANGED <<content, view, cache, stale, newest, alone, hook>>

-----------------------------------------------------------------------------
(* Leaving the workspace. *)

\* Another route: the effects' cleanup clears the two timers it knows.
Close ==
  /\ view # "closed"
  /\ view' = "closed"
  /\ timer' = "unarmed"
  /\ save' = [s \in Saves |->
               IF s = armed /\ save[s].phase = "waiting" THEN Idle ELSE save[s]]
  /\ alone' = FALSE
  /\ UNCHANGED <<content, cache, stale, armed, retries, lastSaved, newest>>

\* The store is shared with the other milestones' workspaces.
WorkElsewhere ==
  /\ view = "closed"
  /\ content' = Foreign
  /\ UNCHANGED <<view, cache, stale, save, newest, alone, hook>>

\* The page and all it holds are gone, requests on their way excepted.
PageGone(saves) ==
  /\ content' = Blank /\ view' = "closed"
  /\ timer' = "unarmed" /\ armed' = None /\ retries' = 0 /\ lastSaved' = None
  /\ cache' = None /\ stale' = FALSE
  /\ save' = [s \in Saves |->
               IF saves[s].phase \in {"sent", "blind"}
               THEN [saves[s] EXCEPT !.phase = "blind", !.mine = FALSE]
               ELSE Idle]
  /\ alone' = FALSE
  /\ UNCHANGED newest

Crash == PageGone(save)

\* The tab is closed or reloaded: beforeunload saves the store's content.
Leave ==
  /\ view # "closed"
  /\ IF content = lastSaved
     THEN PageGone(save)
     ELSE \E s \in Saves :
            /\ save[s].phase = "idle"
            /\ PageGone([save EXCEPT ![s] = [phase |-> "sent", code |-> content,
                                             mine |-> TRUE]])

Request(s) == Store(s) \/ Succeed(s) \/ Fail(s) \/ Vanish(s) \/ Resend(s)

Next ==
  \/ Open \/ Fetch \/ GoStale \/ Evict \/ EditorMounts
  \/ \E code \in Written \cup {Starter} : Edit(code)
  \/ Fire \/ Run
  \/ \E s \in Saves : Request(s)
  \/ Close \/ WorkElsewhere \/ Crash \/ Leave

\* Timers fire and requests end.
Fairness == WF_vars(Fire) /\ \A s \in Saves : WF_vars(Request(s))

Spec == Init /\ [][Next]_vars /\ Fairness

-----------------------------------------------------------------------------
(* Properties. *)

\* The store, the cache, the hook, the saves and the snapshots have their types.
TypeOK ==
  /\ content \in Codes
  /\ view \in {"closed", "loading", "editing"}
  /\ timer \in {"unarmed", "armed", "fired"}
  /\ {cache, lastSaved, newest} \subseteq Codes \cup {None}
  /\ {stale, alone} \subseteq BOOLEAN
  /\ save \in [Saves -> [phase : {"idle", "sent", "stored", "waiting", "blind"},
                         code : Codes \cup {None}, mine : BOOLEAN]]
  /\ armed \in Saves \cup {None}
  /\ retries \in 0 .. MaxRetries

\* When nothing is pending any more the newest snapshot is what the editor
\* shows, whatever was edited, undone, lost or retried on the way, as long as
\* saves did not overlap (scheduleAutoSave, onSuccess, onError).
RestIsSaved ==
  (view = "editing" /\ timer = "fired" /\ UnderWay = {} /\ alone)
    => lastSaved = content /\ newest = content

LearnerStops ==
  <>[][~\E code \in Written \cup {Starter} : Edit(code)]_vars /\ <>[](view = "editing")

\* A learner who stops editing, and whose requests stop failing, is saved.
EventuallySaved ==
  ( /\ LearnerStops
    /\ <>[][\A s \in Saves : ~Fail(s)]_vars
    /\ <>[](alone /\ timer # "unarmed") )
  => <>[](lastSaved = content /\ newest = content)

-----------------------------------------------------------------------------
(* Statements of the story documents that the code does not keep. *)

\* Story 5.1: a learner never loses work due to tab closes.  Before the editor
\* mounts, beforeunload saves the initial content of the store.
NeverBlanked == [][(newest \in Written) => (newest' # Blank)]_vars
=============================================================================

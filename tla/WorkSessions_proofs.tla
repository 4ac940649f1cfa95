-------------------------- MODULE WorkSessions_proofs --------------------------
(***************************************************************************)
(* Proofs about WorkSessions for every set of milestones, any number of    *)
(* requests under way and any number of sessions: the types, that only     *)
(* ended sessions are summarised, that orderly use leaves one active       *)
(* session, and that a workspace opened cleanly knows an active session.   *)
(*                                                                         *)
(* OneActive and KnownIsActive are made inductive by what holds of the     *)
(* requests under way: which milestone they are for, what an open          *)
(* transaction has locked, and which of them may still end a session.      *)
(***************************************************************************)
EXTENDS WorkSessions, TLAPS

\* What is summarised, or collected to be, has ended, or at least a row.
SummarisedIsOver ==
  \A r \in Requests : request[r].at \in {"read", "write"} =>
    session[request[r].target].state = "ended"

CollectedExist ==
  \A r \in Requests : request[r].at \in {"reap", "read", "write"} =>
    \A s \in request[r].rows : session[s].state # "none"

\* Orderly: one request at a time may insert a session, and waits for no other.
OneInserter ==
  orderly => /\ \A r, q \in Inserters : r = q
             /\ \A r \in Requests : request[r].at # "wait"

\* It is one of the open workspace, if there is one.
InserterOfView ==
  (orderly /\ view # Overview) => \A r \in Inserters : request[r].milestone = view

\* The UPDATE of a create gets hold of every active session.
AllLocked ==
  orderly => \A r \in Requests : request[r].at \in {"lock", "insert"} => Active \subseteq request[r].rows

\* A save, and a reply to the workspace, finds no session of another milestone.
OwnMilestone ==
  orderly => \A r \in Requests : request[r].at \in {"saveFind", "saveInsert", "reply"} =>
    \A s \in Active : session[s].milestone = request[r].milestone

\* Nor is there one once the workspace's request is answered.
ViewIsActive ==
  (orderly /\ view # Overview /\ \A r \in Requests : request[r].at \notin CreatePoints \ {"reply"})
    => \A s \in Active : session[s].milestone = view

\* Clean: only the workspace's own requests are under way, one of them asks.
OwnRequests ==
  (clean /\ view # Overview) =>
    \A r \in UnderWay : r \in Inserters /\ request[r].milestone = view

OneAsks ==
  (clean /\ view # Overview) =>
    /\ \A r \in Requests : request[r].at \in CreatePoints => r = asked
    /\ \A r \in Requests : request[r].at # "wait"
    /\ asked # None => known = NoSession

RepliedIsActive ==
  (clean /\ view # Overview) =>
    \A r \in Requests : At(r, "reply") => request[r].target \in ActiveOf(view)

SummaryInv == TypeOK /\ SummaryOfEnded /\ SummarisedIsOver /\ CollectedExist

OrderInv ==
  /\ TypeOK /\ OneActive
  /\ OneInserter /\ InserterOfView /\ AllLocked /\ OwnMilestone /\ ViewIsActive

CleanInv == TypeOK /\ KnownIsActive /\ OwnRequests /\ OneAsks /\ RepliedIsActive

-----------------------------------------------------------------------------
(* Types. *)

Rows ==
  [milestone : Milestones \cup {None}, state : {"none", "active", "ended"},
   worked : BOOLEAN, quiet : BOOLEAN]

Handlers ==
  [at : Points, milestone : Milestones \cup {None}, target : Sessions \cup {NoSession},
   rows : SUBSET Sessions, then : {"idle", "reap"}]

\* A session is not the id that stands for none.
LEMMA SessionIds == NoSession \notin Sessions
  BY SessionsAssumption DEF Sessions, NoSession, SessionsAssumption

\* The initial state has its types.
LEMMA TypeInit == Init => TypeOK
  BY SessionsAssumption DEF Init, TypeOK, NoRow, Free, Points, InserterPoints, TargetPoints, NoSession

\* A handler that is replaced by a handler.
LEMMA RequestType ==
  ASSUME TypeOK, NEW r \in Requests, NEW h \in Handlers,
         h.at \in TargetPoints => h.target \in Sessions,
         request' = [request EXCEPT ![r] = h]
  PROVE  /\ request' \in [Requests -> Handlers]
         /\ \A q \in Requests : request'[q].at \in TargetPoints => request'[q].target \in Sessions
  BY DEF TypeOK, Handlers

\* A handler about to run a statement that needs no session.
LEMMA HandlerType ==
  /\ Free \in Handlers /\ Free.at = "idle"
  /\ \A at \in Points, m \in Milestones \cup {None}, s \in Sessions \cup {NoSession} :
       Handler(at, m, s) \in Handlers /\ Handler(at, m, s).at = at
       /\ Handler(at, m, s).target = s
  BY DEF Free, Handler, Handlers, Points, InserterPoints

RequestsOK ==
  /\ request \in [Requests -> Handlers]
  /\ \A r \in Requests : request[r].at \in TargetPoints => request[r].target \in Sessions

\* The ways a handler goes on.
LEMMA EndType == ASSUME TypeOK, NEW r \in Requests, End(r) PROVE RequestsOK'
  BY HandlerType, RequestType DEF End, RequestsOK, TargetPoints

\* To another statement...
LEMMA GotoType ==
  ASSUME TypeOK, NEW r \in Requests, NEW p \in Points, Goto(r, p),
         p \in TargetPoints => request[r].target \in Sessions
  PROVE  RequestsOK'
  BY DEF TypeOK, Goto, RequestsOK, Handlers

\* ... to the answer...
LEMMA AnswerType ==
  ASSUME TypeOK, NEW r \in Requests, NEW s \in Sessions, AnswerWith(r, s)
  PROVE  RequestsOK'
<1> DEFINE h == [request[r] EXCEPT !.at = "reply", !.target = s, !.rows = {}]
<1>1. request[r] \in Handlers
  BY DEF TypeOK, Handlers
<1>2. h \in Handlers /\ h.target = s
  BY <1>1 DEF Handlers, Points, InserterPoints
<1>3. request' = [request EXCEPT ![r] = h]
  BY DEF AnswerWith
<1> QED
  BY <1>2, <1>3, RequestType DEF RequestsOK

\* ... to a summary...
LEMMA SummariseType ==
  ASSUME TypeOK, NEW r \in Requests, NEW s \in Sessions, NEW rows \in SUBSET Sessions,
         NEW then \in {"idle", "reap"}, Summarise(r, s, rows, then)
  PROVE  RequestsOK'
<1> DEFINE h == [request[r] EXCEPT !.at = "read", !.target = s, !.rows = rows, !.then = then]
<1>1. request[r] \in Handlers
  BY DEF TypeOK, Handlers
<1>2. h \in Handlers /\ h.target = s
  BY <1>1 DEF Handlers, Points
<1>3. request' = [request EXCEPT ![r] = h]
  BY DEF Summarise
<1> QED
  BY <1>2, <1>3, RequestType DEF RequestsOK

\* ... and back from it.
LEMMA ReturnType ==
  ASSUME TypeOK, NEW r \in Requests, Return(r) PROVE RequestsOK'
<1>1. CASE request[r].then = "idle"
  BY <1>1, EndType DEF Return
<1>2. CASE request[r].then # "idle"
  <2>1. request[r].then = "reap"
    BY <1>2 DEF TypeOK
  <2> QED
    BY <1>2, <2>1 DEF TypeOK, Return, RequestsOK, Handlers, Points, TargetPoints
<1> QED
  BY <1>1, <1>2

\* A request that is sent.
LEMMA SendType ==
  ASSUME TypeOK, NEW r \in Requests, NEW at \in Points, NEW m \in Milestones \cup {None},
         NEW s \in Sessions \cup {NoSession}, at \in TargetPoints => s \in Sessions,
         request' = [request EXCEPT ![r] = Handler(at, m, s)]
  PROVE  RequestsOK'
<1>1. Handler(at, m, s) \in Handlers /\ Handler(at, m, s).at = at /\ Handler(at, m, s).target = s
  BY HandlerType
<1> QED
  BY <1>1, RequestType DEF RequestsOK

\* A save that has found, or inserted, its session.
LEMMA SnapshotType ==
  ASSUME TypeOK, NEW r \in Requests, NEW s \in Sessions,
         request' = [request EXCEPT ![r].at = "snapshot", ![r].target = s]
  PROVE  RequestsOK'
<1> DEFINE h == [request[r] EXCEPT !.at = "snapshot", !.target = s]
<1>1. request[r] \in Handlers
  BY DEF TypeOK, Handlers
<1>2. h \in Handlers /\ h.target = s
  BY <1>1 DEF Handlers, Points, InserterPoints
<1>3. request' = [request EXCEPT ![r] = h]
  OBVIOUS
<1> QED
  BY <1>2, <1>3, RequestType DEF RequestsOK

\* The two requests of a tab that is closed.
LEMMA CloseType ==
  ASSUME TypeOK, NEW r \in Requests, NEW m \in Milestones \cup {None},
         Ending([request EXCEPT ![r] = Handler("saveFind", m, NoSession)])
  PROVE  RequestsOK'
<1> DEFINE table == [request EXCEPT ![r] = Handler("saveFind", m, NoSession)]
           end == Handler("endFind", None, known)
<1>1. Handler("saveFind", m, NoSession) \in Handlers /\ Handler("saveFind", m, NoSession).at = "saveFind"
  BY HandlerType DEF Points, InserterPoints
<1>2. table \in [Requests -> Handlers]
      /\ \A q \in Requests : table[q].at \in TargetPoints => table[q].target \in Sessions
  BY <1>1 DEF TypeOK, Handlers, TargetPoints
<1> HIDE DEF table
<1>3. CASE known = NoSession
  BY <1>2, <1>3 DEF Ending, RequestsOK, table
<1>4. CASE known # NoSession
  <2>1. end \in Handlers /\ end.target \in Sessions
    <3>1. "endFind" \in Points /\ None \in Milestones \cup {None}
      BY DEF Points
    <3>2. known \in Sessions \cup {NoSession} /\ known \in Sessions
      BY <1>4 DEF TypeOK
    <3> QED
      BY <3>1, <3>2, HandlerType
  <2>2. PICK q \in Requests : request' = [table EXCEPT ![q] = end]
    BY <1>4 DEF Ending, table
  <2> HIDE DEF end
  <2> QED
    BY <1>2, <2>1, <2>2 DEF RequestsOK
<1> QED
  BY <1>3, <1>4

\* The ways a row changes.
LEMMA EndedType == ASSUME TypeOK, NEW rows PROVE Ended(rows) \in [Sessions -> Rows]
<1>1. \A s \in Sessions : session[s] \in Rows
  BY DEF TypeOK, Rows
<1>2. \A w \in Rows : [w EXCEPT !.state = "ended", !.quiet = FALSE] \in Rows
  BY DEF Rows
<1> QED
  BY <1>1, <1>2 DEF Ended

\* A row that is inserted.
LEMMA InsertedType ==
  ASSUME NEW table \in [Sessions -> Rows], NEW s \in Sessions, NEW m \in Milestones \cup {None}
  PROVE  [table EXCEPT ![s] = Row(m)] \in [Sessions -> Rows]
  BY DEF Row, Rows

\* What TypeOK says, in the parts the actions change.
LEMMA TypeParts ==
  TypeOK <=> /\ session \in [Sessions -> Rows]
             /\ summaries \subseteq Sessions
             /\ RequestsOK
             /\ view \in Milestones \cup {Overview}
             /\ asked \in Requests \cup {None}
             /\ known \in Sessions \cup {NoSession}
             /\ {clean, orderly} \subseteq BOOLEAN
  BY DEF TypeOK, Rows, Handlers, RequestsOK

\* What a transaction's UPDATE leaves.
LEMMA RowsType ==
  ASSUME TypeOK, NEW r \in Requests, NEW p \in Points \ TargetPoints, NEW rows \in SUBSET Sessions,
         request' = [request EXCEPT ![r].at = p, ![r].rows = rows]
  PROVE  RequestsOK'
<1> DEFINE h == [request[r] EXCEPT !.at = p, !.rows = rows]
<1>1. request[r] \in Handlers
  BY DEF TypeOK, Handlers
<1>2. h \in Handlers /\ h.at = p
  BY <1>1 DEF Handlers
<1> HIDE DEF h
<1>3. request' = [request EXCEPT ![r] = h]
  BY DEF h
<1> QED
  BY <1>2, <1>3, RequestType DEF RequestsOK

\* Every step keeps the types.
LEMMA TypeStep == TypeOK /\ [Next]_vars => TypeOK'
<1> SUFFICES ASSUME TypeOK, [Next]_vars PROVE TypeOK'
  OBVIOUS
<1> USE TypeParts
<1> DEFINE Types == /\ session \in [Sessions -> Rows]
                    /\ summaries \subseteq Sessions
                    /\ RequestsOK
                    /\ view \in Milestones \cup {Overview}
                    /\ asked \in Requests \cup {None}
                    /\ known \in Sessions \cup {NoSession}
                    /\ {clean, orderly} \subseteq BOOLEAN
<1>0. Types
  OBVIOUS
<1>a. SUFFICES Types'
  <2>1. TypeOK' <=> Types'
    BY DEF TypeOK, Rows, Handlers, RequestsOK
  <2> QED
    BY <2>1
<1>b. {"find", "saveFind", "scan", "recheck", "wait", "deactivate", "lock", "insert", "winner",
       "saveInsert", "reap", "backfill", "idle", "endFind", "endUpdate", "write", "snapshot"} \subseteq Points
      /\ {"find", "saveFind", "scan", "recheck", "wait", "deactivate", "lock", "insert", "winner",
          "saveInsert", "reap", "backfill", "idle"} \cap TargetPoints = {}
  BY DEF Points, InserterPoints, TargetPoints
<1>1. ASSUME NEW m \in Milestones, Enter(m) PROVE Types'
  <2>1. RequestsOK'
    BY <1>1, <1>b, SendType DEF Enter
  <2> QED
    BY <1>1, <1>0, <2>1 DEF Enter
<1>2. CASE Save
  <2>1. RequestsOK'
    BY <1>2, <1>0, <1>b, SendType DEF Save
  <2> QED
    BY <1>2, <1>0, <2>1 DEF Save, client
<1>3. CASE Leave
  <2>1. RequestsOK'
    BY <1>3, <1>0, <1>b, SendType DEF Leave, Ending, RequestsOK
  <2> QED
    BY <1>3, <1>0, <2>1 DEF Leave, Left
<1>4. CASE CloseTab
  <2>1. RequestsOK'
    BY <1>4, <1>0, CloseType DEF CloseTab, Left
  <2> QED
    BY <1>4, <1>0, <2>1 DEF CloseTab, Left
<1>5. CASE Visit
  <2>1. RequestsOK'
    BY <1>5, <1>0, <1>b, SendType, SessionsAssumption DEF Visit, SessionsAssumption
  <2> QED
    BY <1>5, <1>0, <2>1 DEF Visit, client
<1>6. ASSUME NEW r \in Requests, Find(r) \/ Recheck(r) \/ Waited(r) \/ Deactivate(r) \/ Lock(r) PROVE Types'
  <2>1. Active \subseteq Sessions /\ ActiveOf(request[r].milestone) \subseteq Sessions
        /\ request[r].rows \subseteq Sessions
    BY <1>0 DEF Active, ActiveOf, RequestsOK, Handlers
  <2>2. RequestsOK'
    <3>1. CASE Find(r)
      BY <3>1, <2>1, <1>b, GotoType, AnswerType DEF Find
    <3>2. CASE Recheck(r)
      <4>1. \/ \E s \in ActiveOf(request[r].milestone) :
                  \/ request' = [request EXCEPT ![r].at = "wait", ![r].rows = {s}]
                  \/ AnswerWith(r, s)
            \/ Goto(r, "deactivate")
        BY <3>2 DEF Recheck
      <4>2. \A s \in Sessions : {s} \in SUBSET Sessions
        OBVIOUS
      <4>3. {"wait", "deactivate"} \subseteq Points \ TargetPoints
        BY <1>b
      <4> QED
        BY <4>1, <4>2, <4>3, <2>1, GotoType, AnswerType, RowsType
    <3>5. CASE Waited(r)
      BY <3>5, <2>1, <1>b, AnswerType, RowsType DEF Waited
    <3>3. CASE Deactivate(r)
      BY <3>3, <2>1, <1>b, RowsType DEF Deactivate
    <3>4. CASE Lock(r)
      <4>1. request' = [request EXCEPT ![r].at = "insert", ![r].rows = request[r].rows \cap Active]
        BY <3>4 DEF Lock
      <4>2. request[r].rows \cap Active \in SUBSET Sessions
        BY <2>1
      <4>3. "insert" \in Points \ TargetPoints
        BY <1>b
      <4> QED
        BY <4>1, <4>2, <4>3, RowsType
    <3> QED
      BY <1>6, <3>1, <3>2, <3>3, <3>4, <3>5
  <2> QED
    BY <1>6, <1>0, <2>2 DEF Find, Recheck, Waited, Deactivate, Lock, client
<1>7. ASSUME NEW r \in Requests, Insert(r) PROVE Types'
  <2> DEFINE m == request[r].milestone
  <2>1. m \in Milestones \cup {None}
    BY <1>0 DEF RequestsOK, Handlers
  <2>2. session' \in [Sessions -> Rows] /\ RequestsOK'
    <3>1. ASSUME NEW s \in Sessions,
                 session' = [Ended(request[r].rows) EXCEPT ![s] = Row(m)], AnswerWith(r, s)
          PROVE  session' \in [Sessions -> Rows] /\ RequestsOK'
      <4>1. Ended(request[r].rows) \in [Sessions -> Rows]
        BY EndedType
      <4> QED
        BY <3>1, <4>1, <2>1, InsertedType, AnswerType
    <3>2. ASSUME request' = [request EXCEPT ![r].at = "winner", ![r].rows = {}], UNCHANGED session
          PROVE  session' \in [Sessions -> Rows] /\ RequestsOK'
      <4>1. {} \in SUBSET Sessions /\ "winner" \in Points \ TargetPoints
        BY <1>b
      <4> QED
        BY <3>2, <4>1, <1>0, RowsType
    <3> QED
      BY <1>7, <3>1, <3>2 DEF Insert
  <2> QED
    BY <1>7, <1>0, <2>2 DEF Insert, client
<1>8. ASSUME NEW r \in Requests, Winner(r) PROVE Types'
  <2>1. ActiveOf(request[r].milestone) \subseteq Sessions
    BY DEF ActiveOf, Active
  <2>2. RequestsOK' /\ asked' \in Requests \cup {None}
    BY <1>8, <1>0, <2>1, AnswerType, EndType DEF Winner, NoReply
  <2> QED
    BY <1>8, <1>0, <2>2 DEF Winner
<1>9. ASSUME NEW r \in Requests, Receive(r) PROVE Types'
  <2>1. RequestsOK'
    BY <1>9, EndType DEF Receive, End
  <2>2. known' \in Sessions \cup {NoSession} /\ asked' \in Requests \cup {None}
    BY <1>9, <1>0 DEF Receive, RequestsOK, Handlers
  <2> QED
    BY <1>9, <1>0, <2>1, <2>2 DEF Receive
<1>10. ASSUME NEW r \in Requests, SaveFind(r) PROVE Types'
  <2>1. RequestsOK'
    <3>1. ASSUME NEW s \in ActiveOf(request[r].milestone),
                 request' = [request EXCEPT ![r].at = "snapshot", ![r].target = s]
          PROVE  RequestsOK'
      BY <3>1, SnapshotType DEF ActiveOf, Active
    <3> QED
      BY <1>10, <3>1, <1>b, GotoType DEF SaveFind
  <2> QED
    BY <1>10, <1>0, <2>1 DEF SaveFind, client
<1>11. ASSUME NEW r \in Requests, SaveInsert(r) PROVE Types'
  <2> DEFINE m == request[r].milestone
  <2>1. m \in Milestones \cup {None}
    BY <1>0 DEF RequestsOK, Handlers
  <2>2. session' \in [Sessions -> Rows] /\ RequestsOK'
    BY <1>11, <1>0, <2>1, InsertedType, SnapshotType, EndType DEF SaveInsert
  <2> QED
    BY <1>11, <1>0, <2>2 DEF SaveInsert, client
<1>12. ASSUME NEW r \in Requests, Snapshot(r) PROVE Types'
  <2>1. session' \in [Sessions -> Rows] /\ RequestsOK'
    BY <1>12, <1>0, EndType DEF Snapshot, Rows
  <2> QED
    BY <1>12, <1>0, <2>1 DEF Snapshot, client
<1>13. ASSUME NEW r \in Requests, EndFind(r) \/ EndUpdate(r) PROVE Types'
  <2>1. request[r].target \in Sessions
    BY <1>13, <1>0 DEF EndFind, EndUpdate, RequestsOK, TargetPoints, At
  <2>2. session' \in [Sessions -> Rows]
    BY <1>13, <1>0, EndedType DEF EndFind, EndUpdate
  <2>3. RequestsOK'
    BY <1>13, <2>1, <1>b, EndType, GotoType, SummariseType DEF EndFind, EndUpdate
  <2> QED
    BY <1>13, <1>0, <2>2, <2>3 DEF EndFind, EndUpdate, client
<1>14. ASSUME NEW r \in Requests, Scan(r) PROVE Types'
  <2>1. RequestsOK'
    <3>1. {s \in Active : session[s].quiet} \in SUBSET Sessions /\ "reap" \in Points \ TargetPoints
      BY <1>b DEF Active
    <3>2. request' = [request EXCEPT ![r].at = "reap", ![r].rows = {s \in Active : session[s].quiet}]
      BY <1>14 DEF Scan
    <3> QED
      BY <3>1, <3>2, RowsType
  <2> QED
    BY <1>14, <1>0, <2>1 DEF Scan, client
<1>15. ASSUME NEW r \in Requests, Reap(r) PROVE Types'
  <2>1. request[r].rows \subseteq Sessions
    BY <1>0 DEF RequestsOK, Handlers
  <2>2. session' \in [Sessions -> Rows]
    BY <1>15, <1>0, EndedType DEF Reap
  <2>3. RequestsOK'
    BY <1>15, <2>1, <1>b, GotoType, SummariseType DEF Reap
  <2> QED
    BY <1>15, <1>0, <2>2, <2>3 DEF Reap, client
<1>16. ASSUME NEW r \in Requests, Backfill(r) PROVE Types'
  <2>1. RequestsOK'
    BY <1>16, EndType, SummariseType DEF Backfill
  <2> QED
    BY <1>16, <1>0, <2>1 DEF Backfill, client
<1>17. ASSUME NEW r \in Requests, Read(r) \/ Write(r) \/ SummaryFails(r) PROVE Types'
  <2>1. CASE Read(r)
    <3>1. request[r].target \in Sessions
      BY <2>1, <1>0 DEF Read, RequestsOK, TargetPoints, At
    <3>2. RequestsOK'
      BY <2>1, <3>1, <1>b, ReturnType, GotoType DEF Read
    <3> QED
      BY <2>1, <1>0, <3>2 DEF Read, client
  <2>2. CASE Write(r)
    <3>1. request[r].target \in Sessions
      BY <2>2, <1>0 DEF Write, RequestsOK, TargetPoints, At
    <3> QED
      BY <2>2, <1>0, <3>1, ReturnType DEF Write, client
  <2>3. CASE SummaryFails(r)
    BY <2>3, <1>0, ReturnType DEF SummaryFails, client
  <2> QED
    BY <1>17, <2>1, <2>2, <2>3
<1>18. ASSUME NEW r \in Requests, Lose(r) \/ Rollback(r) PROVE Types'
  <2>1. CASE Lose(r)
    BY <2>1, <1>0, EndType DEF Lose, NoReply
  <2>2. CASE Rollback(r)
    <3>1. {} \in SUBSET Sessions /\ "winner" \in Points \ TargetPoints
      BY <1>b
    <3>2. RequestsOK'
      BY <2>2, <3>1, RowsType DEF Rollback
    <3> QED
      BY <2>2, <1>0, <3>2 DEF Rollback, client
  <2> QED
    BY <1>18, <2>1, <2>2
<1>19. CASE Silence
  <2>1. session' \in [Sessions -> Rows]
    BY <1>19, <1>0 DEF Silence, Rows, IsActive
  <2> QED
    BY <1>19, <1>0, <2>1 DEF Silence, client, RequestsOK
<1>20. CASE UNCHANGED vars
  BY <1>20, <1>0 DEF vars, client, RequestsOK
<1> HIDE DEF Types
<1> QED
  BY <1>1, <1>2, <1>3, <1>4, <1>5, <1>6, <1>7, <1>8, <1>9, <1>10, <1>11, <1>12, <1>13,
     <1>14, <1>15, <1>16, <1>17, <1>18, <1>19, <1>20 DEF Next, Step, Trouble

\* The tables, the handlers and the workspace have their types.
THEOREM TypeCorrect == Spec => []TypeOK
  BY TypeInit, TypeStep, PTL DEF Spec

-----------------------------------------------------------------------------
(* Only ended sessions are summarised. *)

\* A row is never taken back, nor an end.
RowsGoOn ==
  \A s \in Sessions :
    /\ session[s].state = "ended" => session'[s].state = "ended"
    /\ session[s].state # "none" => session'[s].state # "none"

\* No step takes a row, or an end, back.
LEMMA RowsGoOnStep == TypeOK /\ [Next]_vars => RowsGoOn
<1> SUFFICES ASSUME TypeOK, [Next]_vars PROVE RowsGoOn
  OBVIOUS
<1>0. session \in [Sessions -> Rows]
  BY TypeParts
<1>1. \A rows : \A s \in Sessions :
        /\ session[s].state = "ended" => Ended(rows)[s].state = "ended"
        /\ session[s].state # "none" => Ended(rows)[s].state # "none"
  BY <1>0 DEF Ended, Rows
<1>2. CASE UNCHANGED session
  BY <1>2 DEF RowsGoOn
<1>3. ASSUME NEW rows, session' = Ended(rows) PROVE RowsGoOn
  BY <1>1, <1>3 DEF RowsGoOn
<1>4. ASSUME NEW r \in Requests, Insert(r) PROVE RowsGoOn
  <2>1. CASE UNCHANGED session
    BY <2>1, <1>2
  <2>2. CASE ~UNCHANGED session
    <3>1. PICK s \in Sessions : NextId(s) /\ session' = [Ended(request[r].rows) EXCEPT ![s] = Row(request[r].milestone)]
      BY <2>2, <1>4 DEF Insert
    <3>2. session[s].state = "none" /\ session'[s].state = "active"
      BY <3>1 DEF NextId, Unused, Ended, Row
    <3>3. \A t \in Sessions \ {s} : session'[t] = Ended(request[r].rows)[t]
      BY <3>1 DEF Ended
    <3> QED
      BY <3>2, <3>3, <1>1 DEF RowsGoOn
  <2> QED
    BY <2>1, <2>2
<1>5. ASSUME NEW r \in Requests, SaveInsert(r) PROVE RowsGoOn
  BY <1>5, <1>0 DEF SaveInsert, NextId, Unused, Row, RowsGoOn
<1>6. ASSUME NEW r \in Requests, Snapshot(r) PROVE RowsGoOn
  BY <1>6, <1>0 DEF Snapshot, Rows, RowsGoOn
<1>7. CASE Silence
  BY <1>7, <1>0 DEF Silence, Rows, RowsGoOn
<1> QED
  <2>1. ASSUME NEW r \in Requests, Step(r) PROVE RowsGoOn
    BY <2>1, <1>2, <1>3, <1>4, <1>5, <1>6
       DEF Step, Find, Recheck, Waited, Deactivate, Lock, Winner, Receive, SaveFind, EndFind, EndUpdate,
           Scan, Reap, Backfill, Read, Write
  <2>2. ASSUME NEW r \in Requests, Trouble(r) PROVE RowsGoOn
    BY <2>2, <1>2 DEF Trouble, Lose, Rollback, SummaryFails
  <2> QED
    BY <2>1, <2>2, <1>2, <1>7 DEF Next, Enter, Save, Leave, CloseTab, Visit, vars

\* A step at which no handler begins to collect or to summarise.
NoneBegins ==
  /\ summaries' = summaries
  /\ \A r \in Requests : request'[r].at \in {"reap", "read", "write"} => request'[r] = request[r]

\* Such a step keeps what is summarised over.
LEMMA NoneBeginsKeeps ==
  ASSUME SummaryInv, NoneBegins, RowsGoOn
  PROVE  SummaryOfEnded' /\ SummarisedIsOver' /\ CollectedExist'
<1>1. SummaryOfEnded'
  BY DEF SummaryInv, TypeOK, SummaryOfEnded, NoneBegins, RowsGoOn
<1>2. SummarisedIsOver'
  BY DEF SummaryInv, TypeOK, SummarisedIsOver, NoneBegins, RowsGoOn, TargetPoints
<1>3. CollectedExist'
  <2> SUFFICES ASSUME NEW r \in Requests, request'[r].at \in {"reap", "read", "write"},
                      NEW s \in request'[r].rows
               PROVE  session'[s].state # "none"
    BY DEF CollectedExist
  <2>1. request[r] \in Handlers /\ request'[r] = request[r]
    BY TypeParts DEF SummaryInv, NoneBegins, RequestsOK
  <2>2. s \in Sessions /\ session[s].state # "none"
    BY <2>1 DEF SummaryInv, CollectedExist, Handlers
  <2> QED
    BY <2>2 DEF RowsGoOn
<1> QED
  BY <1>1, <1>2, <1>3

\* What becomes of a handler.
LEMMA Moves ==
  ASSUME TypeOK, NEW r \in Requests
  PROVE  /\ \A p : Goto(r, p) =>
              /\ request'[r].at = p /\ request'[r].milestone = request[r].milestone
              /\ request'[r].target = request[r].target /\ request'[r].rows = request[r].rows
         /\ \A s : AnswerWith(r, s) =>
              /\ request'[r].at = "reply" /\ request'[r].milestone = request[r].milestone
              /\ request'[r].target = s
         /\ End(r) => request'[r] = Free
         /\ \A s, rows, then : Summarise(r, s, rows, then) =>
              /\ request'[r].at = "read" /\ request'[r].target = s /\ request'[r].rows = rows
         /\ Return(r) => request'[r].at \in {"idle", "reap"} /\ request'[r].rows \subseteq request[r].rows
         /\ \A p : (\/ Goto(r, p) \/ AnswerWith(r, p) \/ End(r) \/ Return(r)
                    \/ \E s, rows, then : Summarise(r, s, rows, then))
              => \A q \in Requests \ {r} : request'[q] = request[q]
<1>1. request \in [Requests -> Handlers]
  BY TypeParts DEF RequestsOK
<1>2. \A p : Goto(r, p) =>
              /\ request'[r].at = p /\ request'[r].milestone = request[r].milestone
              /\ request'[r].target = request[r].target /\ request'[r].rows = request[r].rows
  BY <1>1 DEF Goto, Handlers
<1>3. \A s : AnswerWith(r, s) =>
              /\ request'[r].at = "reply" /\ request'[r].milestone = request[r].milestone
              /\ request'[r].target = s
  BY <1>1 DEF AnswerWith, Handlers
<1>4. End(r) => request'[r] = Free
  BY <1>1 DEF End
<1>5. \A s, rows, then : Summarise(r, s, rows, then) =>
              /\ request'[r].at = "read" /\ request'[r].target = s /\ request'[r].rows = rows
  BY <1>1 DEF Summarise, Handlers
<1>6. Return(r) => request'[r].at \in {"idle", "reap"} /\ request'[r].rows \subseteq request[r].rows
  BY <1>1, <1>4 DEF Return, Handlers, Free
<1>7. \A p : (\/ Goto(r, p) \/ AnswerWith(r, p) \/ End(r) \/ Return(r)
                    \/ \E s, rows, then : Summarise(r, s, rows, then))
              => \A q \in Requests \ {r} : request'[q] = request[q]
  BY <1>1 DEF Goto, AnswerWith, End, Return, Summarise
<1> QED
  BY <1>2, <1>3, <1>4, <1>5, <1>6, <1>7

\* The steps at which no handler begins to collect or to summarise.
LEMMA NoneBeginsStep ==
  ASSUME TypeOK,
         \/ \E m \in Milestones : Enter(m)
         \/ Save \/ Leave \/ CloseTab \/ Visit \/ Silence \/ UNCHANGED vars
         \/ \E r \in Requests :
              \/ Find(r) \/ Recheck(r) \/ Waited(r) \/ Deactivate(r) \/ Lock(r) \/ Insert(r) \/ Winner(r)
              \/ Receive(r) \/ SaveFind(r) \/ SaveInsert(r) \/ Snapshot(r) \/ EndFind(r)
              \/ Lose(r) \/ Rollback(r)
  PROVE  NoneBegins
<1>1. request \in [Requests -> Handlers]
  BY TypeParts DEF RequestsOK
<1>2. ASSUME NEW m \in Milestones, Enter(m) PROVE NoneBegins
  BY <1>1, <1>2 DEF Enter, NoneBegins, Handler, Free
<1>3. CASE Save \/ Visit
  BY <1>1, <1>3 DEF Save, Visit, NoneBegins, Handler, Free
<1>4. CASE Leave
  BY <1>1, <1>4 DEF Leave, Ending, NoneBegins, Handler, Free
<1>8. CASE CloseTab
  <2>1. PICK r \in Requests \ UnderWay :
          Ending([request EXCEPT ![r] = Handler("saveFind", view, NoSession)])
    BY <1>8 DEF CloseTab
  <2> DEFINE table == [request EXCEPT ![r] = Handler("saveFind", view, NoSession)]
  <2>2. table \in [Requests -> {table[q] : q \in Requests}]
    BY <1>1
  <2>3. \A q \in Requests : table[q].at \in {"reap", "read", "write"} => table[q] = request[q]
    BY <1>1 DEF Handler, Free
  <2> HIDE DEF table
  <2>4. \A q \in Requests : request'[q].at \in {"reap", "read", "write"} => request'[q] = table[q]
    <3>1. \/ request' = table
          \/ \E q \in Requests : request' = [table EXCEPT ![q] = Handler("endFind", None, known)]
      BY <2>1 DEF Ending, table
    <3> QED
      BY <2>2, <3>1 DEF Handler, Free
  <2> QED
    BY <1>8, <2>3, <2>4 DEF CloseTab, NoneBegins
<1>5. CASE Silence \/ UNCHANGED vars
  BY <1>5 DEF Silence, vars, NoneBegins
<1>6. ASSUME NEW r \in Requests,
             Find(r) \/ Recheck(r) \/ Waited(r) \/ Insert(r) \/ Winner(r) \/ Receive(r)
             \/ SaveInsert(r) \/ Snapshot(r) \/ EndFind(r) \/ Lose(r)
      PROVE  NoneBegins
  <2>1. summaries' = summaries
    BY <1>6 DEF Find, Recheck, Waited, Insert, Winner, Receive, SaveInsert, Snapshot, EndFind, Lose
  <2>2. /\ request'[r].at \in {"reply", "recheck", "wait", "deactivate", "winner", "snapshot",
                               "endUpdate", "idle"}
        /\ \A q \in Requests \ {r} : request'[q] = request[q]
    <3>1. CASE Find(r) \/ Winner(r) \/ Receive(r) \/ EndFind(r) \/ Lose(r) \/ Snapshot(r)
      BY <3>1, Moves DEF Find, Winner, Receive, EndFind, Lose, Snapshot, Free, End
    <3>4. CASE Recheck(r) \/ Waited(r)
      <4>1. \/ \E p \in {"wait", "deactivate"} : \E rows :
                  request' = [request EXCEPT ![r].at = p, ![r].rows = rows]
            \/ \E s : AnswerWith(r, s)
            \/ Goto(r, "deactivate")
        BY <3>4 DEF Recheck, Waited
      <4> QED
        BY <1>1, <4>1, Moves DEF Handlers
    <3>2. CASE Insert(r)
      BY <1>1, <3>2, Moves DEF Insert, Handlers
    <3>3. CASE SaveInsert(r)
      BY <1>1, <3>3, Moves DEF SaveInsert, Handlers, Free
    <3> QED
      BY <1>6, <3>1, <3>2, <3>3, <3>4
  <2> QED
    BY <2>1, <2>2 DEF NoneBegins
<1>7. ASSUME NEW r \in Requests,
             Deactivate(r) \/ Lock(r) \/ SaveFind(r) \/ Rollback(r)
      PROVE  NoneBegins
  BY <1>1, <1>7 DEF Deactivate, Lock, SaveFind, Rollback, Goto, NoneBegins, Handlers
<1> QED
  BY <1>2, <1>3, <1>4, <1>5, <1>6, <1>7, <1>8

\* Every step keeps what is summarised over.
LEMMA SummaryStep == SummaryInv /\ [Next]_vars => SummaryInv'
<1> SUFFICES ASSUME SummaryInv, [Next]_vars PROVE SummaryInv'
  OBVIOUS
<1>1. TypeOK /\ TypeOK' /\ RowsGoOn
  BY TypeStep, RowsGoOnStep DEF SummaryInv
<1> DEFINE Kept == SummaryOfEnded' /\ SummarisedIsOver' /\ CollectedExist'
<1>2. ASSUME NoneBegins PROVE Kept
  BY <1>1, <1>2, NoneBeginsKeeps DEF SummaryInv
\* One handler begins or goes on, with a session that is over.
<1>3. ASSUME NEW r \in Requests, \A q \in Requests \ {r} : request'[q] = request[q],
             summaries' = summaries,
             request'[r].at \in {"read", "write"} => session'[request'[r].target].state = "ended",
             request'[r].at \in {"reap", "read", "write"} => \A s \in request'[r].rows : session'[s].state # "none"
      PROVE  Kept
  <2>1. SummaryOfEnded'
    BY <1>1, <1>3 DEF SummaryInv, SummaryOfEnded, TypeOK, RowsGoOn
  <2>2. SummarisedIsOver'
    <3> SUFFICES ASSUME NEW q \in Requests, request'[q].at \in {"read", "write"}
                 PROVE  session'[request'[q].target].state = "ended"
      BY DEF SummarisedIsOver
    <3>1. CASE q # r
      <4>1. request'[q] = request[q] /\ request[q].target \in Sessions
        BY <1>1, <1>3, <3>1 DEF TypeOK, TargetPoints
      <4> QED
        BY <1>1, <4>1 DEF SummaryInv, SummarisedIsOver, RowsGoOn
    <3> QED
      BY <1>3, <3>1
  <2>3. CollectedExist'
    <3> SUFFICES ASSUME NEW q \in Requests, request'[q].at \in {"reap", "read", "write"},
                        NEW s \in request'[q].rows
                 PROVE  session'[s].state # "none"
      BY DEF CollectedExist
    <3>1. CASE q # r
      <4>1. request'[q] = request[q] /\ request[q].rows \subseteq Sessions
        BY <1>1, <1>3, <3>1 DEF TypeOK
      <4> QED
        BY <1>1, <4>1 DEF SummaryInv, CollectedExist, RowsGoOn
    <3> QED
      BY <1>3, <3>1
  <2> QED
    BY <2>1, <2>2, <2>3
<1>4. ASSUME NEW r \in Requests, Scan(r) \/ EndUpdate(r) \/ Backfill(r) PROVE Kept
  <2>1. request[r] \in Handlers
    BY <1>1, TypeParts DEF RequestsOK
  <2>2. CASE Scan(r)
    BY <1>1, <2>1, <2>2, <1>3, TypeParts
       DEF Scan, RequestsOK, Handlers, Active, IsActive
  <2>3. CASE EndUpdate(r)
    <3>1. request[r].target \in Sessions
      BY <1>1, <2>3 DEF TypeOK, EndUpdate, TargetPoints, At
    <3>2. Ended({request[r].target})[request[r].target].state = "ended"
      BY <1>1, <3>1, TypeParts DEF Ended, Rows
    <3> QED
      <4>1. /\ request'[r].at = "read" /\ request'[r].rows = {}
            /\ session'[request'[r].target].state = "ended" /\ summaries' = summaries
            /\ \A q \in Requests \ {r} : request'[q] = request[q]
        <5>1. /\ Summarise(r, request[r].target, {}, "idle") /\ summaries' = summaries
              /\ session' = Ended({request[r].target})
          BY <2>3 DEF EndUpdate
        <5>2. /\ request'[r].at = "read" /\ request'[r].rows = {}
              /\ request'[r].target = request[r].target
          BY <1>1, <5>1, Moves
        <5>3. \A q \in Requests \ {r} : request'[q] = request[q]
          BY <1>1, <5>1, Moves
        <5> QED
          BY <5>1, <5>2, <5>3, <3>2
      <4>2. \A s \in request'[r].rows : session'[s].state # "none"
        BY <4>1
      <4> QED
        BY <4>1, <4>2, <1>3
  <2>4. CASE Backfill(r)
    BY <1>1, <2>4, <1>3, Moves DEF Backfill, IsLatest, EndedOf, Free
  <2> QED
    BY <1>4, <2>2, <2>3, <2>4
<1>5. ASSUME NEW r \in Requests, Reap(r) PROVE Kept
  <2>1. request[r].rows \subseteq Sessions /\ At(r, "reap")
        /\ \A s \in request[r].rows : session[s].state # "none"
    BY <1>1, <1>5 DEF SummaryInv, TypeOK, CollectedExist, Reap, At
  <2>2. ASSUME NEW s \in request[r].rows, session' = Ended({s} \cap Active),
               Summarise(r, s, request[r].rows \ {s}, "reap")
        PROVE  Kept
    <3>1. session[s] \in Rows /\ session'[s].state = "ended"
      <4>1. session[s] \in Rows /\ session[s].state # "none"
        BY <1>1, <2>1, TypeParts
      <4>2. CASE s \in Active
        BY <4>1, <2>1, <2>2, <4>2 DEF Ended, Rows
      <4>3. CASE s \notin Active
        BY <1>1, <2>1, <4>1, <4>3 DEF Active, IsActive, Rows, RowsGoOn
      <4> QED
        BY <4>1, <4>2, <4>3
    <3>2. \A t \in request[r].rows \ {s} : session'[t].state # "none"
      BY <1>1, <2>1 DEF RowsGoOn
    <3> QED
      <4>1. /\ request'[r].at = "read" /\ request'[r].rows = request[r].rows \ {s}
            /\ request'[r].target = s
            /\ \A q \in Requests \ {r} : request'[q] = request[q]
        BY <1>1, <2>2, Moves
      <4>2. summaries' = summaries
        BY <1>5 DEF Reap
      <4> QED
        BY <4>1, <4>2, <3>1, <3>2, <1>3
  <2>3. CASE request[r].rows = {} /\ Goto(r, "backfill")
    BY <1>1, <1>5, <2>3, <1>3, Moves DEF Reap
  <2> QED
    BY <1>5, <2>2, <2>3 DEF Reap
<1>6. ASSUME NEW r \in Requests, Read(r) \/ Write(r) \/ SummaryFails(r) PROVE Kept
  <2>1. /\ request[r].at \in {"read", "write"} /\ request[r].target \in Sessions
        /\ request[r].rows \subseteq Sessions /\ session[request[r].target].state = "ended"
        /\ \A s \in request[r].rows : session[s].state # "none"
    BY <1>1, <1>6 DEF SummaryInv, TypeOK, SummarisedIsOver, CollectedExist,
         Read, Write, SummaryFails, At, TargetPoints
  <2>2. session' = session
    BY <1>6 DEF Read, Write, SummaryFails
  <2>3. CASE Return(r) /\ summaries' = summaries
    BY <1>1, <2>1, <2>2, <2>3, <1>3, Moves
  <2>4. CASE Goto(r, "write") /\ summaries' = summaries
    BY <1>1, <2>1, <2>2, <2>4, <1>3, Moves
  <2>5. CASE Write(r)
    <3>1. SummaryOfEnded'
      BY <2>1, <2>2, <2>5 DEF SummaryInv, SummaryOfEnded, Write
    <3>2. Return(r)
      BY <2>5 DEF Write
    <3>3. \A q \in Requests : request'[q].at \in {"reap", "read", "write"} =>
            \/ request'[q] = request[q]
            \/ q = r /\ request'[q].at = "reap" /\ request'[q].rows \subseteq request[r].rows
      BY <1>1, <3>2, Moves
    <3>4. SummarisedIsOver'
      BY <2>2, <3>3 DEF SummaryInv, SummarisedIsOver
    <3>5. CollectedExist'
      BY <2>1, <2>2, <3>3 DEF SummaryInv, CollectedExist
    <3> QED
      BY <3>1, <3>4, <3>5
  <2> QED
    BY <1>6, <2>3, <2>4, <2>5 DEF Read, SummaryFails
<1> HIDE DEF Kept
<1>7. Kept
  <2>1. ASSUME NEW r \in Requests, Step(r) \/ Trouble(r) PROVE Kept \/ NoneBegins
    BY <1>1, <2>1, <1>4, <1>5, <1>6, NoneBeginsStep DEF Step, Trouble
  <2>2. Kept \/ NoneBegins
    BY <1>1, <2>1, NoneBeginsStep DEF Next
  <2> QED
    BY <1>2, <2>2 DEF Kept
<1> QED
  BY <1>1, <1>7 DEF SummaryInv, Kept

\* In the beginning nothing is summarised.
LEMMA SummaryInit == Init => SummaryInv
  BY TypeInit DEF Init, SummaryInv, SummaryOfEnded, SummarisedIsOver, CollectedExist, Free

\* Only a session that is over is summarised: every one of the three ways to a
\* summary ends the session before generateSessionSummary is called, or finds
\* it ended, and nothing makes it active again.
THEOREM SummariesOver == Spec => []SummaryOfEnded
<1>1. Spec => []SummaryInv
  BY SummaryInit, SummaryStep, PTL DEF Spec
<1>2. SummaryInv => SummaryOfEnded
  BY DEF SummaryInv
<1> QED
  BY <1>1, <1>2, PTL

-----------------------------------------------------------------------------
(* One active session. *)

Opening == CreatePoints \ {"reply"}

Order ==
  OneActive /\ OneInserter /\ InserterOfView /\ AllLocked /\ OwnMilestone /\ ViewIsActive

\* A step of one handler, or of none, that inserts nothing and is not in the
\* way of a create that has yet to answer.
LEMMA AsideKeeps ==
  ASSUME TypeOK, Order, orderly, NEW r,
         \A q \in Requests \ {r} : request'[q] = request[q],
         r \in Requests => /\ request[r].at \notin Opening
                           /\ request'[r].at \notin InserterPoints,
         Active' \subseteq Active,
         \A s \in Active' : session'[s].milestone = session[s].milestone,
         view' \in {view, Overview}
  PROVE  Order'
<1>1. \A q \in Requests : request'[q].at \in InserterPoints => request'[q] = request[q]
  OBVIOUS
<1>2. Opening \subseteq InserterPoints /\ CreatePoints \subseteq InserterPoints
      /\ {"lock", "insert", "saveFind", "saveInsert", "reply", "wait"} \subseteq InserterPoints
  BY DEF Opening, CreatePoints, InserterPoints
<1>3. OneActive'
  BY DEF Order, OneActive
<1>4. OneInserter' /\ InserterOfView'
  BY <1>1, <1>2 DEF Order, OneInserter, InserterOfView, Inserters
<1>5. AllLocked' /\ OwnMilestone'
  BY <1>1, <1>2 DEF Order, AllLocked, OwnMilestone
<1>6. ViewIsActive'
  <2>1. \A q \in Requests : request[q].at \in Opening => request'[q].at \in Opening
    BY <1>1
  <2> QED
    BY <2>1 DEF Order, ViewIsActive, Opening
<1> QED
  BY <1>3, <1>4, <1>5, <1>6 DEF Order

\* The inserting request goes on to another of its statements.
LEMMA InserterKeeps ==
  ASSUME TypeOK, Order, orderly, NEW r \in Requests,
         request[r].at \in InserterPoints, request'[r].at \in InserterPoints \ {"wait"},
         request'[r].milestone = request[r].milestone,
         \A q \in Requests \ {r} : request'[q] = request[q],
         \A s, t \in Active' : s = t,
         request'[r].at \in {"lock", "insert"} => Active' \subseteq request'[r].rows,
         request'[r].at \notin Opening =>
           \A s \in Active' : session'[s].milestone = request[r].milestone,
         view' = view
  PROVE  Order'
<1>1. \A q \in Requests : request[q].at \in InserterPoints => q = r
  BY DEF Order, OneInserter, Inserters
<1>2. \A q \in Requests : request'[q].at \in InserterPoints => q = r
  BY <1>1
<1>3. Opening \subseteq InserterPoints
      /\ {"lock", "insert", "saveFind", "saveInsert", "reply", "wait"} \subseteq InserterPoints
      /\ {"saveFind", "saveInsert", "reply"} \cap Opening = {}
  BY DEF Opening, CreatePoints, InserterPoints
<1>4. OneActive' /\ OneInserter'
  BY <1>2 DEF OneActive, OneInserter, Inserters, Order
<1>5. view # Overview => request[r].milestone = view
  BY DEF Order, InserterOfView, Inserters
<1>6. InserterOfView' /\ AllLocked'
  BY <1>2, <1>3, <1>5 DEF InserterOfView, AllLocked, Inserters
<1>7. OwnMilestone'
  BY <1>2, <1>3 DEF OwnMilestone
<1>8. ViewIsActive'
  BY <1>5 DEF ViewIsActive, Opening
<1> QED
  BY <1>4, <1>6, <1>7, <1>8 DEF Order

\* A request that may insert is sent, alone.
LEMMA BeginsKeeps ==
  ASSUME TypeOK, Order, orderly, Inserters = {}, NEW r \in Requests,
         session' = session,
         \A q \in Requests \ {r} : request'[q].at \notin InserterPoints,
         \/ request'[r].at = "find"
         \/ request'[r].at = "saveFind" /\ view # Overview /\ request'[r].milestone = view,
         view' \in {Overview, request'[r].milestone}
  PROVE  Order'
<1>1. \A q \in Requests : request[q].at \notin InserterPoints
  BY DEF Inserters
<1>2. Opening \subseteq InserterPoints /\ "find" \in Opening
      /\ {"lock", "insert", "saveFind", "saveInsert", "reply", "wait"} \subseteq InserterPoints
  BY DEF Opening, CreatePoints, InserterPoints
<1>3. OneActive'
  BY DEF Order, OneActive, Active, IsActive
<1>4. OneInserter' /\ InserterOfView' /\ AllLocked'
  BY <1>2 DEF OneInserter, InserterOfView, AllLocked, Inserters
<1>5. view # Overview => \A s \in Active : session[s].milestone = view
  BY <1>1, <1>2 DEF Order, ViewIsActive, Opening
<1>6. OwnMilestone'
  BY <1>2, <1>5 DEF OwnMilestone, Active, IsActive
<1>7. ViewIsActive'
  BY <1>2, <1>5 DEF ViewIsActive, Opening, Active, IsActive
<1> QED
  BY <1>3, <1>4, <1>6, <1>7 DEF Order

\* The active sessions after a step that inserts none.
NoneMade ==
  /\ Active' \subseteq Active
  /\ \A s \in Active' : session'[s].milestone = session[s].milestone

\* All steps but two insert none.
LEMMA NoneMadeBy ==
  ASSUME TypeOK,
         \/ session' = session
         \/ \E rows : session' = Ended(rows)
         \/ \E r \in Requests : Snapshot(r)
         \/ Silence
  PROVE  NoneMade
<1>1. session \in [Sessions -> Rows]
  BY TypeParts
<1>2. CASE session' = session
  BY <1>2 DEF NoneMade, Active, IsActive
<1>3. ASSUME NEW rows, session' = Ended(rows) PROVE NoneMade
  BY <1>1, <1>3 DEF NoneMade, Active, IsActive, Ended, Rows
<1>4. ASSUME NEW r \in Requests, Snapshot(r) PROVE NoneMade
  BY <1>1, <1>4 DEF Snapshot, NoneMade, Active, IsActive, Rows
<1>5. CASE Silence
  BY <1>1, <1>5 DEF Silence, NoneMade, Active, IsActive, Rows
<1> QED
  BY <1>2, <1>3, <1>4, <1>5

\* The one session that is active when a transaction has inserted its row.
LEMMA InsertedIsAlone ==
  ASSUME TypeOK, NEW rows, NEW s \in Sessions, Active \subseteq rows, NEW m,
         session' = [Ended(rows) EXCEPT ![s] = Row(m)]
  PROVE  Active' = {s} /\ session'[s].milestone = m
<1>1. session \in [Sessions -> Rows]
  BY TypeParts
<1>2. session'[s] = Row(m) /\ \A t \in Sessions \ {s} : session'[t] = Ended(rows)[t]
  BY DEF Ended
<1>3. \A t \in Sessions : Ended(rows)[t].state # "active"
  BY <1>1 DEF Ended, Active, IsActive, Rows
<1> QED
  BY <1>2, <1>3 DEF Active, IsActive, Row

\* A handler about to insert, or to answer the workspace.
LEMMA PointSets ==
  /\ Opening = {"find", "recheck", "wait", "deactivate", "lock", "insert", "winner"}
  /\ InserterPoints = Opening \cup {"reply", "saveFind", "saveInsert", "snapshot"}
  BY DEF Opening, CreatePoints, InserterPoints

\* Every step keeps the order.
LEMMA OrderStep ==
  ASSUME TypeOK, Order, [Next]_vars, orderly, orderly' PROVE Order'
<1>0. request \in [Requests -> Handlers] /\ session \in [Sessions -> Rows]
  BY TypeParts DEF RequestsOK
<1>1. ASSUME NEW m \in Milestones, Enter(m) PROVE Order'
  <2>1. PICK r \in Requests \ UnderWay : request' = [request EXCEPT ![r] = Handler("find", m, NoSession)]
    BY <1>1 DEF Enter
  <2>2. /\ Inserters = {} /\ session' = session /\ view' = m
        /\ request'[r].at = "find" /\ request'[r].milestone = m
        /\ \A q \in Requests \ {r} : request'[q].at \notin InserterPoints
    BY <1>0, <1>1, <2>1 DEF Enter, Handler, Free, Inserters
  <2> QED
    BY <2>2, BeginsKeeps
<1>2. CASE Save
  <2>1. PICK r \in Requests \ UnderWay : request' = [request EXCEPT ![r] = Handler("saveFind", view, NoSession)]
    BY <1>2 DEF Save
  <2>2. /\ Inserters = {} /\ session' = session /\ view' = view /\ view # Overview
        /\ request'[r].at = "saveFind" /\ request'[r].milestone = view
        /\ \A q \in Requests \ {r} : request'[q].at \notin InserterPoints
    BY <1>0, <1>2, <2>1 DEF Save, Handler, Free, Inserters, client
  <2> QED
    BY <2>2, BeginsKeeps
<1>3. CASE CloseTab
  <2>1. PICK r \in Requests \ UnderWay :
          Ending([request EXCEPT ![r] = Handler("saveFind", view, NoSession)])
    BY <1>3 DEF CloseTab
  <2> DEFINE table == [request EXCEPT ![r] = Handler("saveFind", view, NoSession)]
  <2>2. /\ table[r].at = "saveFind" /\ table[r].milestone = view
        /\ \A q \in Requests \ {r} : table[q] = request[q]
        /\ table \in [Requests -> {table[q] : q \in Requests}]
    BY <1>0 DEF Handler, Free
  <2> HIDE DEF table
  <2>3. \/ request' = table
        \/ \E q \in Requests : table[q] = Free /\ request' = [table EXCEPT ![q] = Handler("endFind", None, known)]
    BY <2>1 DEF Ending, table
  <2>4. /\ request'[r].at = "saveFind" /\ request'[r].milestone = view
        /\ \A q \in Requests \ {r} : request'[q] = request[q] \/ request'[q].at = "endFind"
    <3>1. CASE request' = table
      BY <2>2, <3>1
    <3>2. ASSUME NEW q \in Requests, table[q] = Free,
                 request' = [table EXCEPT ![q] = Handler("endFind", None, known)]
          PROVE  /\ request'[r] = table[r] /\ request'[q].at = "endFind"
                 /\ \A p \in Requests \ {r, q} : request'[p] = request[p]
      <4>1. q # r
        BY <2>2, <3>2 DEF Free
      <4>2. Handler("endFind", None, known).at = "endFind"
        BY DEF Handler, Free
      <4> QED
        BY <2>2, <3>2, <4>1, <4>2
    <3> QED
      BY <2>2, <2>3, <3>1, <3>2
  <2>5. Inserters = {} /\ session' = session /\ view' = Overview /\ view # Overview
    BY <1>3 DEF CloseTab, Left
  <2>6. \A q \in Requests \ {r} : request'[q].at \notin InserterPoints
    BY <2>4, <2>5, PointSets DEF Inserters
  <2> QED
    BY <2>4, <2>5, <2>6, BeginsKeeps
<1>4. CASE Leave
  <2>1. NoneMade /\ view' = Overview
    BY <1>4, NoneMadeBy DEF Leave, Left
  <2>2. CASE request' = request
    BY <2>1, <2>2, AsideKeeps, SessionsAssumption DEF NoneMade, SessionsAssumption
  <2>3. CASE Ending(request) /\ known # NoSession
    <3>1. PICK r \in Requests \ UnderWay : request' = [request EXCEPT ![r] = Handler("endFind", None, known)]
      BY <2>3 DEF Ending
    <3>2. /\ request[r].at = "idle" /\ request'[r].at = "endFind"
          /\ \A q \in Requests \ {r} : request'[q] = request[q]
      BY <1>0, <3>1 DEF Handler, Free, UnderWay, At
    <3>3. request[r].at \notin Opening /\ request'[r].at \notin InserterPoints
      BY <3>2, PointSets
    <3> QED
      BY <2>1, <3>2, <3>3, AsideKeeps DEF NoneMade
  <2> QED
    BY <1>4, <2>2, <2>3 DEF Leave, Ending
<1>5. CASE Visit
  <2>1. PICK r \in Requests \ UnderWay : request' = [request EXCEPT ![r] = Handler("scan", Current, NoSession)]
    BY <1>5 DEF Visit
  <2>2. /\ request[r].at = "idle" /\ request'[r].at = "scan"
        /\ \A q \in Requests \ {r} : request'[q] = request[q]
    BY <1>0, <2>1 DEF Handler, Free, UnderWay, At
  <2>3. request[r].at \notin Opening /\ request'[r].at \notin InserterPoints
    BY <2>2, PointSets
  <2>4. NoneMade /\ view' = view
    BY <1>5, NoneMadeBy DEF Visit, client
  <2> QED
    BY <2>2, <2>3, <2>4, AsideKeeps DEF NoneMade
<1>6. CASE Silence \/ UNCHANGED vars
  <2>1. NoneMade /\ view' = view /\ request' = request
    BY <1>6, NoneMadeBy DEF Silence, vars, client
  <2> QED
    BY <2>1, AsideKeeps, SessionsAssumption DEF NoneMade, SessionsAssumption
\* A handler that is not inserting, and does not begin to.
<1>7. ASSUME NEW r \in Requests, NoneMade, view' = view,
             \A q \in Requests \ {r} : request'[q] = request[q],
             request[r].at \notin Opening, request'[r].at \notin InserterPoints
      PROVE  Order'
  BY <1>7, AsideKeeps DEF NoneMade
\* A handler that is, and has inserted nothing at this step.
<1>8. ASSUME NEW r \in Requests, session' = session, view' = view,
             request[r].at \in InserterPoints,
             request'[r].milestone = request[r].milestone,
             \A q \in Requests \ {r} : request'[q] = request[q],
             \/ request'[r].at \in Opening \ {"lock", "insert", "wait"}
             \/ request'[r].at \in {"lock", "insert"} /\ Active \subseteq request'[r].rows
             \/ /\ request'[r].at \in InserterPoints \ Opening
                /\ \A s \in Active : session[s].milestone = request[r].milestone
      PROVE  Order'
  <2>1. Active' = Active /\ request'[r].at \in InserterPoints \ {"wait"}
    BY <1>8, PointSets DEF Active, IsActive
  <2>2. \A s, t \in Active' : s = t
    BY <2>1 DEF Order, OneActive
  <2>3. request'[r].at \in {"lock", "insert"} => Active' \subseteq request'[r].rows
    BY <1>8, <2>1, PointSets
  <2>4. request'[r].at \notin Opening =>
           \A s \in Active' : session'[s].milestone = request[r].milestone
    BY <1>8, <2>1, PointSets
  <2> QED
    BY <1>8, <2>1, <2>2, <2>3, <2>4, InserterKeeps
\* Having found a session, a handler has found the only one.
<1>9. ASSUME NEW m, ActiveOf(m) # {} PROVE \A s \in Active : session[s].milestone = m
  BY <1>9 DEF Order, OneActive, ActiveOf
<1>10. ASSUME NEW r \in Requests, Find(r) \/ Recheck(r) \/ Waited(r) \/ Winner(r) PROVE Order'
  <2>3. Recheck(r) => \A s \in Sessions : ~Locked(s, r)
    <3>1. Recheck(r) => r \in Inserters
      BY PointSets DEF Recheck, At, Inserters
    <3>2. \A q \in Requests : At(q, "insert") => q \in Inserters
      BY PointSets DEF At, Inserters
    <3> QED
      BY <3>1, <3>2 DEF Order, OneInserter, Locked
  <2>4. ~Waited(r)
    BY DEF Order, OneInserter, Waited, At
  <2>1. /\ request[r].at \in InserterPoints /\ session' = session /\ view' = view
        /\ \/ ActiveOf(request[r].milestone) # {} /\ \E s : AnswerWith(r, s)
           \/ Goto(r, "recheck") \/ Goto(r, "deactivate")
    <3>1. CASE Recheck(r)
      <4>1. ActiveOf(request[r].milestone) \subseteq Sessions
        BY DEF ActiveOf, Active
      <4> QED
        BY <3>1, <4>1, <2>3, PointSets DEF Recheck, At, client
    <3>2. CASE Find(r) \/ Winner(r)
      BY <1>10, <3>2, PointSets DEF Find, Winner, At, client
    <3> QED
      BY <1>10, <2>4, <3>1, <3>2
  <2>2. /\ request'[r].milestone = request[r].milestone
        /\ \A q \in Requests \ {r} : request'[q] = request[q]
        /\ \/ ActiveOf(request[r].milestone) # {} /\ request'[r].at = "reply"
           \/ request'[r].at \in {"recheck", "deactivate"}
    BY <2>1, Moves
  <2> QED
    BY <2>1, <2>2, <1>8, <1>9, PointSets
<1>11. ASSUME NEW r \in Requests, Deactivate(r) \/ Lock(r) \/ Rollback(r) PROVE Order'
  <2>1. /\ request[r].at \in InserterPoints /\ session' = session /\ view' = view
        /\ request'[r].milestone = request[r].milestone
        /\ \A q \in Requests \ {r} : request'[q] = request[q]
    BY <1>0, <1>11, PointSets DEF Deactivate, Lock, Rollback, At, client, Handlers
  <2>2. CASE Deactivate(r)
    BY <1>0, <1>8, <2>1, <2>2 DEF Deactivate, Handlers
  <2>3. CASE Lock(r)
    <3>1. request'[r].at = "insert" /\ request'[r].rows = request[r].rows \cap Active
      BY <1>0, <2>3 DEF Lock, Handlers
    <3>2. Active \subseteq request[r].rows
      BY <2>3 DEF Order, AllLocked, Lock, At
    <3> QED
      BY <2>1, <3>1, <3>2, <1>8
  <2>4. CASE Rollback(r)
    <3>1. request'[r].at = "winner"
      BY <1>0, <2>4 DEF Rollback, Handlers
    <3> QED
      BY <2>1, <3>1, <1>8, PointSets
  <2> QED
    BY <1>11, <2>2, <2>3, <2>4
<1>12. ASSUME NEW r \in Requests, Insert(r) PROVE Order'
  <2> DEFINE m == request[r].milestone
  <2>1. Active \subseteq request[r].rows /\ request[r].at = "insert" /\ view' = view
    BY <1>12 DEF Order, AllLocked, Insert, At, client
  <2>2. ASSUME NEW s \in Sessions, AnswerWith(r, s),
               session' = [Ended(request[r].rows) EXCEPT ![s] = Row(m)]
        PROVE  Order'
    <3>1. Active' = {s} /\ session'[s].milestone = m
      BY <2>1, <2>2, InsertedIsAlone
    <3>2. /\ request'[r].at = "reply" /\ request'[r].milestone = m
          /\ \A q \in Requests \ {r} : request'[q] = request[q]
      BY <2>2, Moves
    <3> QED
      BY <2>1, <3>1, <3>2, InserterKeeps, PointSets
  <2>3. ASSUME request' = [request EXCEPT ![r].at = "winner", ![r].rows = {}], session' = session
        PROVE  Order'
    <3>1. /\ request'[r].at = "winner" /\ request'[r].milestone = m
          /\ \A q \in Requests \ {r} : request'[q] = request[q]
      BY <1>0, <2>3 DEF Handlers
    <3> QED
      <4>1. request[r].at \in InserterPoints /\ request'[r].at \in Opening \ {"lock", "insert", "wait"}
        BY <2>1, <3>1, PointSets
      <4> QED
        BY <2>1, <2>3, <3>1, <4>1, <1>8
  <2> QED
    BY <1>12, <2>2, <2>3 DEF Insert
<1>13. ASSUME NEW r \in Requests, SaveFind(r) PROVE Order'
  <2>1. /\ request[r].at \in InserterPoints /\ session' = session /\ view' = view
        /\ request'[r].milestone = request[r].milestone
        /\ request'[r].at \in {"saveInsert", "snapshot"}
        /\ \A q \in Requests \ {r} : request'[q] = request[q]
    BY <1>0, <1>13, PointSets DEF SaveFind, At, Goto, client, Handlers
  <2>2. \A s \in Active : session[s].milestone = request[r].milestone
    BY <1>13 DEF Order, OwnMilestone, SaveFind, At
  <2> QED
    BY <2>1, <2>2, <1>8, PointSets
<1>14. ASSUME NEW r \in Requests, SaveInsert(r) PROVE Order'
  <2> DEFINE m == request[r].milestone
  <2>1. \A s \in Active : session[s].milestone = m
    BY <1>14 DEF Order, OwnMilestone, SaveInsert, At
  <2>2. request[r].at = "saveInsert" /\ view' = view
    BY <1>14 DEF SaveInsert, At, client
  <2>3. ASSUME ActiveOf(m) = {}, NEW s \in Sessions, session' = [session EXCEPT ![s] = Row(m)],
               request' = [request EXCEPT ![r].at = "snapshot", ![r].target = s]
        PROVE  Order'
    <3>1. Active = {}
      BY <2>1, <2>3 DEF ActiveOf
    <3>2. Active' = {s} /\ session'[s].milestone = m
      BY <1>0, <2>3, <3>1 DEF Active, IsActive, Row
    <3>3. /\ request'[r].at = "snapshot" /\ request'[r].milestone = m
          /\ \A q \in Requests \ {r} : request'[q] = request[q]
      BY <1>0, <2>3 DEF Handlers
    <3> QED
      BY <2>2, <3>2, <3>3, InserterKeeps, PointSets
  <2>4. CASE End(r) /\ session' = session
    BY <2>2, <2>4, <1>7, Moves, NoneMadeBy, PointSets DEF Free
  <2> QED
    BY <1>14, <2>3, <2>4 DEF SaveInsert
<1>15. ASSUME NEW r \in Requests, Snapshot(r) \/ Receive(r) \/ Lose(r) PROVE Order'
  <2>1. /\ request[r].at \notin Opening /\ End(r) /\ view' = view
        /\ session' = session \/ Snapshot(r)
    BY <1>15, PointSets DEF Snapshot, Receive, Lose, At, client, End, Opening
  <2>2. /\ request'[r].at = "idle"
        /\ \A q \in Requests \ {r} : request'[q] = request[q]
    BY <2>1, Moves DEF Free
  <2> QED
    BY <2>1, <2>2, <1>7, NoneMadeBy, PointSets
<1>16. ASSUME NEW r \in Requests,
              EndFind(r) \/ EndUpdate(r) \/ Scan(r) \/ Reap(r) \/ Backfill(r) \/ Read(r) \/ Write(r)
              \/ SummaryFails(r)
       PROVE  Order'
  <2>1. /\ request[r].at \in {"endFind", "endUpdate", "scan", "reap", "backfill", "read", "write"}
        /\ view' = view
        /\ session' = session \/ \E rows : session' = Ended(rows)
    BY <1>16 DEF EndFind, EndUpdate, Scan, Reap, Backfill, Read, Write, SummaryFails, At, client
  <2>2. /\ request'[r].at \in {"idle", "endUpdate", "read", "reap", "backfill", "write"}
        /\ \A q \in Requests \ {r} : request'[q] = request[q]
    <3>1. CASE Scan(r)
      BY <1>0, <3>1 DEF Scan, Handlers
    <3>2. CASE ~Scan(r)
      <4>1. \/ Goto(r, "endUpdate") \/ Goto(r, "backfill") \/ Goto(r, "write")
            \/ End(r) \/ Return(r) \/ \E s, rows, then : Summarise(r, s, rows, then)
        BY <1>16, <3>2 DEF EndFind, EndUpdate, Reap, Backfill, Read, Write, SummaryFails
      <4> QED
        BY <4>1, Moves DEF Free
    <3> QED
      BY <3>1, <3>2
  <2> QED
    BY <2>1, <2>2, <1>7, NoneMadeBy, PointSets
<1> QED
  BY <1>1, <1>2, <1>3, <1>4, <1>5, <1>6, <1>10, <1>11, <1>12, <1>13, <1>14, <1>15, <1>16
     DEF Next, Step, Trouble

\* ... and once disorderly, nothing is claimed any more.
LEMMA OrderInvStep == OrderInv /\ [Next]_vars => OrderInv'
<1> SUFFICES ASSUME OrderInv, [Next]_vars PROVE OrderInv'
  OBVIOUS
<1>1. TypeOK /\ TypeOK' /\ Order
  BY TypeStep DEF OrderInv, Order
<1>2. orderly' => orderly
  BY DEF Next, Step, Trouble, Enter, Save, Leave, CloseTab, Visit, Silence, vars, client,
     Find, Recheck, Waited, Deactivate, Lock, Insert, Winner, Receive, SaveFind, SaveInsert, Snapshot,
     EndFind, EndUpdate, Scan, Reap, Backfill, Read, Write, Lose, Rollback, SummaryFails
<1>3. CASE orderly'
  BY <1>1, <1>2, <1>3, OrderStep DEF OrderInv, Order
<1>4. CASE ~orderly'
  BY <1>1, <1>4 DEF OrderInv, OneActive, OneInserter, InserterOfView, AllLocked, OwnMilestone, ViewIsActive
<1> QED
  BY <1>3, <1>4

\* In the beginning there is no session and no request.
LEMMA OrderInit == Init => OrderInv
  BY TypeInit DEF Init, OrderInv, OneActive, OneInserter, InserterOfView, AllLocked, OwnMilestone,
     ViewIsActive, Inserters, Active, IsActive, NoRow, Free, InserterPoints

\* As long as the requests that may insert a session follow one another, and
\* none that a workspace waits for is lost, a learner has one active session:
\* whatever the overview, the ends and the saves of workspaces long left do.
THEOREM OneActiveSession == Spec => []OneActive
<1>1. Spec => []OrderInv
  BY OrderInit, OrderInvStep, PTL DEF Spec
<1>2. OrderInv => OneActive
  BY DEF OrderInv
<1> QED
  BY <1>1, <1>2, PTL

-----------------------------------------------------------------------------
(* The session a workspace knows. *)

Clean == KnownIsActive /\ OwnRequests /\ OneAsks /\ RepliedIsActive

\* A step of one of the workspace's own requests.
LEMMA OwnKeeps ==
  ASSUME TypeOK, Clean, clean, view # Overview, NEW r \in Requests,
         view' = view,
         \A q \in Requests \ {r} : request'[q] = request[q],
         \/ request'[r].at = "idle"
         \/ request'[r].at \in InserterPoints \ {"wait"} /\ request'[r].milestone = view,
         request'[r].at \in CreatePoints => request[r].at \in CreatePoints /\ asked' = asked,
         \/ asked' = asked
         \/ asked' = None /\ asked = r /\ request'[r].at \notin CreatePoints,
         known' = known \/ (asked' = None /\ known' \in ActiveOf(view)'),
         request'[r].at = "reply" => request'[r].target \in ActiveOf(view)',
         \/ ActiveOf(view) \subseteq ActiveOf(view)'
         \/ request[r].at \in CreatePoints /\ request'[r].at = "reply" /\ known' = known
  PROVE  Clean'
<1>1. r \in Requests /\ None \notin Requests
  BY SessionsAssumption DEF SessionsAssumption
<1>2. \A q \in Requests : request[q].at \in CreatePoints => q = asked
  BY DEF Clean, OneAsks
<1>3. \A q \in Requests : request'[q].at \in CreatePoints => q = asked /\ asked' = asked
  <2> SUFFICES ASSUME NEW q \in Requests, request'[q].at \in CreatePoints
               PROVE  q = asked /\ asked' = asked
    OBVIOUS
  <2>1. request[q].at \in CreatePoints
    BY DEF CreatePoints
  <2>2. q = asked
    BY <2>1, <1>2
  <2> QED
    BY <2>2
<1>4. asked' # None => known' = NoSession
  BY DEF Clean, OneAsks
<1>5. OneAsks'
  BY <1>3, <1>4 DEF Clean, OneAsks
<1>6. OwnRequests'
  BY DEF Clean, OwnRequests, UnderWay, Inserters, At
<1>7. KnownIsActive'
  <2> SUFFICES ASSUME known' # NoSession, known' = known PROVE known' \in ActiveOf(view)'
    BY DEF KnownIsActive
  <2>1. known \in ActiveOf(view) /\ asked = None
    BY DEF Clean, KnownIsActive, OneAsks
  <2>2. request[r].at \notin CreatePoints
    BY <1>1, <1>2, <2>1
  <2> QED
    BY <2>1, <2>2
<1>8. RepliedIsActive'
  <2> SUFFICES ASSUME NEW q \in Requests, request'[q].at = "reply"
               PROVE  request'[q].target \in ActiveOf(view)'
    BY DEF RepliedIsActive, At
  <2>1. CASE q # r
    <3>1. request'[q] = request[q] /\ "reply" \in CreatePoints
      BY <2>1 DEF CreatePoints
    <3>2. request[q].target \in ActiveOf(view) /\ q = asked
      BY <1>2, <3>1 DEF Clean, RepliedIsActive, At
    <3> QED
      BY <2>1, <1>2, <3>1, <3>2
  <2> QED
    BY <2>1
<1> QED
  BY <1>5, <1>6, <1>7, <1>8 DEF Clean

\* A step that leaves every active session of a milestone what it is.
LEMMA ActiveStays ==
  ASSUME TypeOK,
         \/ session' = session
         \/ \E r \in Requests : Snapshot(r)
         \/ Silence
         \/ \E s \in Unused : \E m : session' = [session EXCEPT ![s] = Row(m)]
  PROVE  \A m : ActiveOf(m) \subseteq ActiveOf(m)'
<1>1. session \in [Sessions -> Rows]
  BY TypeParts
<1>2. CASE session' = session
  BY <1>2 DEF ActiveOf, Active, IsActive
<1>3. ASSUME NEW r \in Requests, Snapshot(r) PROVE \A m : ActiveOf(m) \subseteq ActiveOf(m)'
  BY <1>1, <1>3 DEF Snapshot, ActiveOf, Active, IsActive, Rows
<1>4. CASE Silence
  BY <1>1, <1>4 DEF Silence, ActiveOf, Active, IsActive, Rows
<1>5. ASSUME NEW s \in Unused, NEW n, session' = [session EXCEPT ![s] = Row(n)]
      PROVE  \A m : ActiveOf(m) \subseteq ActiveOf(m)'
  BY <1>1, <1>5 DEF Unused, ActiveOf, Active, IsActive
<1> QED
  BY <1>2, <1>3, <1>4, <1>5

\* Every step of an open workspace that was opened cleanly keeps it so.
LEMMA CleanStep ==
  ASSUME TypeOK, Clean, [Next]_vars, clean' /\ view' # Overview PROVE Clean'
<1>0. /\ request \in [Requests -> Handlers] /\ session \in [Sessions -> Rows]
      /\ None \notin Requests /\ CreatePoints \subseteq InserterPoints
  BY TypeParts, SessionsAssumption DEF RequestsOK, SessionsAssumption, CreatePoints, InserterPoints
<1>1. ASSUME NEW m \in Milestones, Enter(m) PROVE Clean'
  <2>1. PICK r \in Requests \ UnderWay :
          request' = [request EXCEPT ![r] = Handler("find", m, NoSession)] /\ asked' = r
    BY <1>1 DEF Enter
  <2>2. UnderWay = {} /\ known' = NoSession /\ view' = m
    BY <1>1 DEF Enter
  <2>3. /\ request'[r].at = "find" /\ request'[r].milestone = m
        /\ \A q \in Requests \ {r} : request'[q].at = "idle"
    BY <1>0, <2>1, <2>2 DEF Handler, Free, UnderWay, At
  <2>4. OwnRequests' /\ OneAsks'
    BY <1>0, <2>1, <2>2, <2>3 DEF OwnRequests, OneAsks, UnderWay, Inserters, At, CreatePoints, InserterPoints
  <2>5. KnownIsActive' /\ RepliedIsActive'
    BY <2>2, <2>3 DEF KnownIsActive, RepliedIsActive, At
  <2> QED
    BY <2>4, <2>5 DEF Clean
<1>2. CASE Leave \/ CloseTab \/ Visit
  BY <1>2 DEF Leave, CloseTab, Visit, Left, client
<1>3. CASE Save
  <2>1. PICK r \in Requests \ UnderWay : request' = [request EXCEPT ![r] = Handler("saveFind", view, NoSession)]
    BY <1>3 DEF Save
  <2>2. /\ request'[r].at = "saveFind" /\ request'[r].milestone = view
        /\ \A q \in Requests \ {r} : request'[q] = request[q]
    BY <1>0, <2>1 DEF Handler, Free
  <2>3. UNCHANGED <<session, view, asked, known, clean>>
    BY <1>3 DEF Save, client
  <2>4. request'[r].at \in InserterPoints \ CreatePoints /\ request'[r].at # "reply"
    BY <2>2 DEF CreatePoints, InserterPoints
  <2>5. ActiveOf(view) \subseteq ActiveOf(view)'
    BY <2>3, ActiveStays
  <2>6. clean /\ view # Overview
    BY <2>3
  <2> QED
    BY <2>2, <2>3, <2>4, <2>5, <2>6, OwnKeeps
<1>4. CASE Silence \/ UNCHANGED vars
  <2>1. UNCHANGED <<request, view, asked, known, clean>>
    BY <1>4 DEF Silence, vars, client
  <2>2. \A m : ActiveOf(m) \subseteq ActiveOf(m)'
    BY <1>4, ActiveStays DEF vars
  <2>3. OwnRequests' /\ OneAsks'
    BY <2>1 DEF Clean, OwnRequests, OneAsks, UnderWay, Inserters, At
  <2>4. KnownIsActive' /\ RepliedIsActive'
    BY <2>1, <2>2 DEF Clean, KnownIsActive, RepliedIsActive, At
  <2> QED
    BY <2>3, <2>4 DEF Clean
<1>5. ASSUME NEW r \in Requests, Step(r) \/ Trouble(r) PROVE Clean'
  <2>1. view' = view /\ clean' = clean
    BY <1>5 DEF Step, Trouble, Find, Recheck, Waited, Deactivate, Lock, Insert, Winner, Receive, SaveFind,
      SaveInsert, Snapshot, EndFind, EndUpdate, Scan, Reap, Backfill, Read, Write, Lose, Rollback,
      SummaryFails, client
  <2>2. r \in UnderWay
    BY <1>5 DEF Step, Trouble, Find, Recheck, Waited, Deactivate, Lock, Insert, Winner, Receive, SaveFind,
      SaveInsert, Snapshot, EndFind, EndUpdate, Scan, Reap, Backfill, Read, Write, Lose, Rollback,
      SummaryFails, UnderWay, At
  <2>3. request[r].at \in InserterPoints /\ request[r].milestone = view
    BY <2>1, <2>2 DEF Clean, OwnRequests, Inserters
  <2>4. request[r].at \in CreatePoints => r = asked
    BY <2>1 DEF Clean, OneAsks
  <2>13. ~Waited(r)
    BY <2>1 DEF Clean, OneAsks, Waited, At
  <2>5. CASE Find(r) \/ Recheck(r)
    <3>7. Recheck(r) => \A s \in Sessions : ~Locked(s, r)
      BY <2>1 DEF Recheck, Locked, At, Clean, OneAsks, CreatePoints
    <3>1. /\ UNCHANGED <<session, asked, known>> /\ request[r].at \in CreatePoints
          /\ \/ \E s \in ActiveOf(view) : AnswerWith(r, s)
             \/ Goto(r, "recheck") \/ Goto(r, "deactivate")
      <4>1. ActiveOf(view) \subseteq Sessions
        BY DEF ActiveOf, Active
      <4> QED
        BY <2>3, <2>5, <3>7, <4>1 DEF Find, Recheck, At, CreatePoints, client
    <3>2. /\ request'[r].milestone = view
          /\ \A q \in Requests \ {r} : request'[q] = request[q]
          /\ request'[r].at \in {"reply", "recheck", "deactivate"}
          /\ request'[r].at = "reply" => request'[r].target \in ActiveOf(view)
      BY <2>3, <3>1, Moves
    <3>3. ActiveOf(view) \subseteq ActiveOf(view)'
      BY <3>1, <2>1, ActiveStays
    <3>4. request'[r].at \in InserterPoints
      BY <3>2 DEF InserterPoints
    <3>5. request'[r].at = "reply" => request'[r].target \in ActiveOf(view)'
      BY <3>2, <3>3
    <3>6. clean /\ view # Overview
      BY <2>1
    <3> QED
      BY <2>1, <3>1, <3>2, <3>3, <3>4, <3>5, <3>6, OwnKeeps
  <2>6. CASE Deactivate(r) \/ Lock(r) \/ Rollback(r)
    <3>1. /\ UNCHANGED <<session, asked, known>> /\ request[r].at \in CreatePoints
      BY <2>6 DEF Deactivate, Lock, Rollback, At, CreatePoints, client
    <3>2. /\ request'[r].milestone = view
          /\ \A q \in Requests \ {r} : request'[q] = request[q]
          /\ request'[r].at \in {"lock", "insert", "winner"}
      BY <1>0, <2>3, <2>6 DEF Deactivate, Lock, Rollback, Handlers
    <3>3. ActiveOf(view) \subseteq ActiveOf(view)'
      BY <3>1, <2>1, ActiveStays
    <3> QED
      BY <2>1, <3>1, <3>2, <3>3, OwnKeeps DEF CreatePoints, InserterPoints
  <2>7. CASE Insert(r)
    <3>1. /\ UNCHANGED <<asked, known>> /\ request[r].at \in CreatePoints
      BY <2>7 DEF Insert, At, CreatePoints, client
    <3>2. ASSUME NEW s \in Sessions, AnswerWith(r, s),
                 session' = [Ended(request[r].rows) EXCEPT ![s] = Row(view)]
          PROVE  Clean'
      <4>1. session'[s] = Row(view)
        BY <3>2 DEF Ended
      <4>2. s \in ActiveOf(view)'
        BY <2>1, <4>1 DEF ActiveOf, Active, IsActive, Row
      <4>3. /\ request'[r].at = "reply" /\ request'[r].target = s /\ request'[r].milestone = view
            /\ \A q \in Requests \ {r} : request'[q] = request[q]
        BY <2>3, <3>2, Moves
      <4> QED
        BY <2>1, <3>1, <4>2, <4>3, OwnKeeps DEF InserterPoints
    <3>3. ASSUME request' = [request EXCEPT ![r].at = "winner", ![r].rows = {}], session' = session
          PROVE  Clean'
      <4>1. /\ request'[r].at = "winner" /\ request'[r].milestone = view
            /\ \A q \in Requests \ {r} : request'[q] = request[q]
        BY <1>0, <2>3, <3>3 DEF Handlers
      <4>2. ActiveOf(view) \subseteq ActiveOf(view)'
        BY <3>3, <2>1, ActiveStays
      <4> QED
        BY <2>1, <3>1, <4>1, <4>2, OwnKeeps DEF CreatePoints, InserterPoints
    <3> QED
      BY <2>3, <2>7, <3>2, <3>3 DEF Insert
  <2>8. CASE Winner(r)
    <3>1. /\ UNCHANGED <<session, known>> /\ request[r].at \in CreatePoints /\ asked = r
          /\ \/ asked' = asked /\ \E s \in ActiveOf(view) : AnswerWith(r, s)
             \/ asked' = None /\ End(r)
      BY <2>3, <2>4, <2>8 DEF Winner, NoReply, At, CreatePoints
    <3>2. /\ \A q \in Requests \ {r} : request'[q] = request[q]
          /\ \/ /\ asked' = asked /\ request'[r].at = "reply" /\ request'[r].milestone = view
                /\ request'[r].target \in ActiveOf(view)
             \/ asked' = None /\ request'[r].at = "idle"
      BY <2>3, <3>1, Moves DEF Free
    <3>3. ActiveOf(view) \subseteq ActiveOf(view)'
      BY <3>1, <2>1, ActiveStays
    <3> QED
      BY <2>1, <3>1, <3>2, <3>3, OwnKeeps DEF CreatePoints, InserterPoints
  <2>9. CASE Receive(r)
    <3>1. /\ session' = session /\ asked = r /\ At(r, "reply") /\ End(r)
          /\ asked' = None /\ known' = request[r].target
      BY <2>4, <2>9 DEF Receive, End, At, CreatePoints
    <3>2. request'[r].at = "idle" /\ \A q \in Requests \ {r} : request'[q] = request[q]
      BY <3>1, Moves DEF Free
    <3>3. ActiveOf(view) \subseteq ActiveOf(view)'
      BY <3>1, <2>1, ActiveStays
    <3>4. known' \in ActiveOf(view)'
      BY <2>1, <3>1, <3>3 DEF Clean, RepliedIsActive
    <3> QED
      BY <2>1, <3>1, <3>2, <3>3, <3>4, OwnKeeps DEF CreatePoints
  <2>10. CASE SaveFind(r) \/ SaveInsert(r) \/ Snapshot(r)
    <3>1. UNCHANGED <<asked, known>>
      BY <2>10 DEF SaveFind, SaveInsert, Snapshot, client
    <3>2. /\ \A q \in Requests \ {r} : request'[q] = request[q]
          /\ \/ request'[r].at = "idle"
             \/ request'[r].at \in {"saveInsert", "snapshot"} /\ request'[r].milestone = view
      <4>1. CASE SaveFind(r)
        BY <1>0, <2>3, <4>1 DEF SaveFind, Goto, Handlers
      <4>2. CASE SaveInsert(r)
        BY <1>0, <2>3, <4>2 DEF SaveInsert, End, Free, Handlers
      <4>3. CASE Snapshot(r)
        BY <4>3, Moves DEF Snapshot, Free
      <4> QED
        BY <2>10, <4>1, <4>2, <4>3
    <3>3. ActiveOf(view) \subseteq ActiveOf(view)'
      BY <2>1, <2>10, ActiveStays DEF SaveFind, SaveInsert, NextId
    <3> QED
      BY <2>1, <3>1, <3>2, <3>3, OwnKeeps DEF CreatePoints, InserterPoints
  <2>11. CASE Lose(r)
    <3>1. /\ UNCHANGED <<session, known>> /\ End(r) /\ asked' \in {asked, None}
          /\ asked' = IF asked = r THEN None ELSE asked
      BY <2>11 DEF Lose, NoReply
    <3>2. request'[r].at = "idle" /\ \A q \in Requests \ {r} : request'[q] = request[q]
      BY <3>1, Moves DEF Free
    <3>3. ActiveOf(view) \subseteq ActiveOf(view)'
      BY <3>1, <2>1, ActiveStays
    <3> QED
      BY <2>1, <3>1, <3>2, <3>3, OwnKeeps DEF CreatePoints
  <2>12. ~(EndFind(r) \/ EndUpdate(r) \/ Scan(r) \/ Reap(r) \/ Backfill(r) \/ Read(r) \/ Write(r)
           \/ SummaryFails(r))
    BY <2>3 DEF EndFind, EndUpdate, Scan, Reap, Backfill, Read, Write, SummaryFails, At, InserterPoints
  <2> QED
    BY <1>5, <2>5, <2>6, <2>7, <2>8, <2>9, <2>10, <2>11, <2>12, <2>13 DEF Step, Trouble
<1> QED
  BY <1>1, <1>2, <1>3, <1>4, <1>5 DEF Next

\* ... and of no other workspace is anything claimed.
LEMMA CleanInvStep == CleanInv /\ [Next]_vars => CleanInv'
<1> SUFFICES ASSUME CleanInv, [Next]_vars PROVE CleanInv'
  OBVIOUS
<1>1. TypeOK /\ TypeOK' /\ Clean
  BY TypeStep DEF CleanInv, Clean
<1>2. CASE clean' /\ view' # Overview
  BY <1>1, <1>2, CleanStep DEF CleanInv, Clean
<1>3. CASE ~(clean' /\ view' # Overview)
  BY <1>1, <1>3 DEF CleanInv, KnownIsActive, OwnRequests, OneAsks, RepliedIsActive
<1> QED
  BY <1>2, <1>3

\* In the beginning no workspace is open.
LEMMA CleanInit == Init => CleanInv
  BY TypeInit DEF Init, CleanInv, KnownIsActive, OwnRequests, OneAsks, RepliedIsActive

\* A workspace opened when nothing was under way keeps an active session of its
\* milestone once it knows one: the saves, their late sessions and the loss of
\* any request do not take it away.
THEOREM WorkspaceKnows == Spec => []KnownIsActive
<1>1. Spec => []CleanInv
  BY CleanInit, CleanInvStep, PTL DEF Spec
<1>2. CleanInv => KnownIsActive
  BY DEF CleanInv
<1> QED
  BY <1>1, <1>2, PTL
=============================================================================

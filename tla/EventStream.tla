------------------------------ MODULE EventStream ------------------------------
(***************************************************************************)
(* The way of an execution event to the learner's browser:                 *)
(*   worker   --PUBLISH + RPUSH-->  Redis channel and list                 *)
(*   Redis    --LRANGE, SUBSCRIBE--> stream route (API process)            *)
(*   route    --SSE-->               useSSE / useSubmitCode (browser)      *)
(* The route replays the list, subscribes, replays the list again, and then*)
(* forwards live messages; the browser reconnects with Last-Event-ID.      *)
(*                                                                         *)
(* What the attempts of SubmissionPipeline publish is the constant Feeds.  *)
(* The list is not expired: setLogTTL gives it five minutes after the end. *)
(***************************************************************************)
EXTENDS ExecutionEvents, Integers, FiniteSets

CONSTANTS
  Feeds,      \* sequences of events the worker may publish, in order
  MaxBreaks   \* bound: broken connections and rejected Redis calls

ASSUME StreamAssumption ==
  /\ \A f \in Feeds :
       /\ f \in Seq([type : SequencedTypes, seq : Nat \ {0}, attempt : Nat])
       /\ \A j \in DOMAIN f : \A i \in 1 .. (j - 1) :
            f[i].attempt = f[j].attempt => f[i].seq < f[j].seq
  /\ MaxBreaks \in Nat

VARIABLES
  feed,      \* events still to publish
  inFlight,  \* TRUE between the PUBLISH and the RPUSH of the next event
  queued,    \* the 'queued' event: "pending" until it is in the list
  list,      \* Redis list execution:{id}:log
  row,       \* submissions.status: "running" or "terminal"
  conn,      \* the stream route's handler, locals included
  inbox,     \* channel messages on their way to the subscriber
  wire,      \* SSE events written and not yet read by the browser
  client,    \* the browser: last is useSSE's Last-Event-ID, handled the events
             \* useSubmitCode has handled, shown those its output still shows
  raced,     \* history: an event has fallen between the list and the channel
  breaks     \* what may still break

producerVars == <<feed, inFlight, queued, row>>
vars == <<feed, inFlight, queued, list, row, conn, inbox, wire, client, raced, breaks>>

NoEventId == -1

\* pc: the await in front of the handler; closed: isClosed; subscribed: Redis
\* knows the subscriber; attached: the message handler is set; timers: heartbeat
\* and maximum duration are armed.
Closed ==
  [pc |-> "ended", closed |-> TRUE, subscribed |-> FALSE, attached |-> FALSE,
   timers |-> FALSE, last |-> NoEventId, highest |-> NoEventId, reply |-> <<>>]

Fresh(last) ==
  [pc |-> "lookup", closed |-> FALSE, subscribed |-> FALSE, attached |-> FALSE,
   timers |-> FALSE, last |-> last, highest |-> last, reply |-> <<>>]

Init ==
  /\ feed \in Feeds
  /\ inFlight = FALSE
  /\ queued = "pending"
  /\ list = <<>>
  /\ row = "running"
  /\ conn = Closed
  /\ inbox = <<>>
  /\ wire = <<>>
  /\ client = [state |-> "waiting", last |-> NoEventId, handled |-> {}, shown |-> {}]
  /\ raced = FALSE
  /\ breaks = MaxBreaks

-----------------------------------------------------------------------------
(* The publisher. *)

\* redis.publish: reaches the subscriber only while it is subscribed.
PublishEvent ==
  /\ feed # <<>> /\ ~ inFlight
  /\ inFlight' = TRUE
  /\ inbox' = IF conn.subscribed THEN Append(inbox, Head(feed)) ELSE inbox
  /\ UNCHANGED <<feed, queued, list, row, conn, wire, client, raced, breaks>>

\* redis.rpush, issued with the PUBLISH and executed after it.
PushEvent ==
  /\ inFlight
  /\ inFlight' = FALSE
  /\ list' = Append(list, Head(feed))
  /\ feed' = Tail(feed)
  /\ UNCHANGED <<queued, row, conn, inbox, wire, client, raced, breaks>>

\* The API process lists 'queued' when it gets to it; the live handler drops
\* the published copy.
PushQueued ==
  /\ queued = "pending"
  /\ queued' = "listed"
  /\ list' = Append(list, QueuedEvent)
  /\ UNCHANGED <<feed, inFlight, row, conn, inbox, wire, client, raced, breaks>>

\* The terminal UPDATE follows the last event.
SettleRow ==
  /\ feed = <<>> /\ row = "running"
  /\ row' = "terminal"
  /\ UNCHANGED <<feed, inFlight, queued, list, conn, inbox, wire, client, raced, breaks>>

-----------------------------------------------------------------------------
(* The stream route. *)

\* cleanup(): timers cleared, subscriber quit, response ended.
CleanedUp(c) == [c EXCEPT !.closed = TRUE, !.subscribed = FALSE, !.timers = FALSE]

\* A pass over entries stops after the first terminal event it writes.
UpToTerminal(events) ==
  LET ends == {i \in DOMAIN events : IsTerminal(events[i])}
  IN  IF ends = {} THEN events
      ELSE SubSeq(events, 1, CHOOSE i \in ends : \A j \in ends : i <= j)

\* The entries of a sequence at the positions of a set, in their order.
Nth(positions, k) ==
  CHOOSE i \in positions : Cardinality({j \in positions : j <= i}) = k
Kept(entries, positions) ==
  [k \in 1 .. Cardinality(positions) |-> entries[Nth(positions, k)]]

SeqsOf(events) == {events[i].seq : i \in DOMAIN events}
HighestOf(events, h) ==
  CHOOSE m \in SeqsOf(events) \cup {h} : \A s \in SeqsOf(events) \cup {h} : s <= m

\* Mutant: no deduplication against what was already written.
AllSequenced(entries, h) ==
  Kept(entries, {i \in DOMAIN entries : entries[i].type # QueuedType})

\* The filter of the second replay and of the live handler: events above the
\* highest sequenceId written so far, which each of them raises.
NewerThan(entries, h) ==
  Kept(entries, {i \in DOMAIN entries :
    /\ entries[i].type # QueuedType /\ entries[i].seq > h
    /\ \A j \in 1 .. (i - 1) : entries[j].seq < entries[i].seq})

EndsStream(events) == events # <<>> /\ IsTerminal(events[Len(events)])

\* writeEvent for each event: a closed stream swallows it, a terminal event
\* cleans the stream up.
Written(events, c) ==
  LET h == [c EXCEPT !.highest = HighestOf(events, @)]
  IN  IF EndsStream(events) THEN CleanedUp(h) ELSE h

\* Ownership check and status read.
LookUp ==
  /\ conn.pc = "lookup"
  /\ conn' = [conn EXCEPT !.pc = IF row = "terminal" THEN "replayAll" ELSE "range1"]
  /\ UNCHANGED <<producerVars, list, inbox, wire, client, raced, breaks>>

\* Mutant: 'queued', which has no id, is replayed on every connection.
UnseenAndQueued(e) == e.type = QueuedType \/ e.seq > conn.last

\* 'queued' has no sequenceId: it is replayed on a fresh connection only.
Unseen(e) == IF e.type = QueuedType THEN conn.last < 0 ELSE e.seq > conn.last
Replay == Kept(list, {i \in DOMAIN list : Unseen(list[i])})

\* Terminal row: replay everything, also past a terminal event, and close.
ReplayAll ==
  /\ conn.pc = "replayAll"
  /\ wire' = IF conn.closed THEN wire ELSE wire \o Replay
  /\ conn' = [CleanedUp(conn) EXCEPT !.pc = "ended"]
  /\ UNCHANGED <<producerVars, list, inbox, client, raced, breaks>>

\* A closed stream, or one closed by what this pass wrote, ends the handler.
Pass(events, next) ==
  LET c == Written(events, conn) IN
  IF conn.closed
    THEN conn' = [conn EXCEPT !.pc = "ended"] /\ UNCHANGED wire
    ELSE /\ wire' = wire \o events
         /\ conn' = [c EXCEPT !.pc = IF c.closed THEN "ended" ELSE next,
                              !.timers = (next = "live" /\ ~ c.closed)]

FirstRange ==
  /\ conn.pc = "range1"
  /\ Pass(UpToTerminal(Replay), "subscribe")
  /\ UNCHANGED <<producerVars, list, inbox, client, raced, breaks>>

\* Redis executes SUBSCRIBE: from here on messages are sent to the route.
Subscribe ==
  /\ conn.pc = "subscribe"
  /\ conn' = [conn EXCEPT !.pc = "attach", !.subscribed = ~ conn.closed]
  /\ inbox' = <<>>
  /\ UNCHANGED <<producerVars, list, wire, client, raced, breaks>>

\* The continuation sets the message handler; messages that came in with the
\* SUBSCRIBE reply have found no listener.  After a cleanup there is no
\* subscriber to set it on, and the error ends the handler.
Attach ==
  /\ conn.pc = "attach"
  /\ IF conn.closed
       THEN conn' = [conn EXCEPT !.pc = "ended"] /\ UNCHANGED inbox
       ELSE /\ conn' = [conn EXCEPT !.pc = "range2", !.attached = TRUE]
            /\ \E n \in 0 .. Len(inbox) : inbox' = SubSeq(inbox, n + 1, Len(inbox))
  /\ UNCHANGED <<producerVars, list, wire, client, raced, breaks>>

\* Redis executes the second LRANGE; its reply is handled later.  An event that
\* was published before the SUBSCRIBE and is not listed yet is missed.
SecondRange ==
  /\ conn.pc = "range2"
  /\ conn' = [conn EXCEPT !.pc = "reply", !.reply = list]
  /\ raced' = (raced \/ (inFlight /\ \A i \in DOMAIN inbox : inbox[i] # Head(feed)))
  /\ UNCHANGED <<producerVars, list, inbox, wire, client, breaks>>

\* Mutant: the list is not read again after the SUBSCRIBE.
SecondReplayOmitted ==
  /\ conn.pc = "reply"
  /\ Pass(<<>>, "live")
  /\ UNCHANGED <<producerVars, list, inbox, client, raced, breaks>>

\* Mutant: the timers are armed without looking at isClosed again.
SecondReplayArmsAlways ==
  /\ conn.pc = "reply"
  /\ LET events == UpToTerminal(NewerThan(conn.reply, conn.highest)) IN
     /\ wire' = IF conn.closed THEN wire ELSE wire \o events
     /\ conn' = [Written(events, conn) EXCEPT !.timers = TRUE,
                   !.pc = IF conn.closed \/ EndsStream(events) THEN "ended" ELSE "live"]
  /\ UNCHANGED <<producerVars, list, inbox, client, raced, breaks>>

\* Its reply is replayed, then the heartbeat and the five minute cap are armed.
SecondReplay ==
  /\ conn.pc = "reply"
  /\ Pass(UpToTerminal(NewerThan(conn.reply, conn.highest)), "live")
  /\ UNCHANGED <<producerVars, list, inbox, client, raced, breaks>>

\* The message handler, between any two steps above once it is attached.
LiveMessage ==
  /\ conn.attached /\ inbox # <<>>
  /\ inbox' = Tail(inbox)
  /\ LET events == NewerThan(<<Head(inbox)>>, conn.highest)
         c == Written(events, conn)
     IN  IF conn.closed
           THEN UNCHANGED <<conn, wire, raced>>
           ELSE /\ wire' = wire \o events
                /\ raced' = (raced \/ (events # <<>> /\ conn.pc \in {"range2", "reply"}))
                /\ conn' = IF c.closed /\ c.pc = "live" THEN [c EXCEPT !.pc = "ended"] ELSE c
  /\ UNCHANGED <<producerVars, list, client, breaks>>

\* The five minute cap of a live stream.
MaxDuration ==
  /\ conn.pc = "live" /\ conn.timers
  /\ conn' = [CleanedUp(conn) EXCEPT !.pc = "ended"]
  /\ UNCHANGED <<producerVars, list, inbox, wire, client, raced, breaks>>

BreakNow == breaks > 0 /\ breaks' = breaks - 1

\* A rejected query, LRANGE or SUBSCRIBE, or an error of the subscriber
\* connection.
RedisError ==
  /\ conn.pc \in {"lookup", "replayAll", "range1", "subscribe", "range2", "live"}
  /\ ~ conn.closed /\ BreakNow
  /\ conn' = [CleanedUp(conn) EXCEPT !.pc = "ended"]
  /\ UNCHANGED <<producerVars, list, inbox, wire, client, raced>>

\* The connection to the browser breaks: what was on the wire is lost, and the
\* 'close' handler cleans up while the route may be waiting anywhere.  It is set
\* only after the look-up: one that breaks before goes unnoticed, and the handler
\* writes to nobody until it ends by itself.
Disconnect ==
  /\ client.state = "connected"
  /\ conn.pc # "ended" /\ ~ conn.closed /\ BreakNow
  /\ conn' = IF conn.pc = "lookup" THEN conn
             ELSE [CleanedUp(conn) EXCEPT !.pc = IF @ = "live" THEN "ended" ELSE @]
  /\ wire' = <<>>
  /\ client' = [client EXCEPT !.state = "backoff"]
  /\ UNCHANGED <<producerVars, list, inbox, raced>>

-----------------------------------------------------------------------------
(* The browser. *)

\* First connection, or the reconnection after the backoff.  A handler that has
\* not noticed that its browser has gone shares nothing with the next one; here
\* it ends first.
Connect ==
  /\ client.state \in {"waiting", "backoff"} /\ conn.pc = "ended"
  /\ client' = [client EXCEPT !.state = "connected"]
  /\ conn' = Fresh(client.last)
  /\ wire' = <<>> /\ inbox' = <<>>
  /\ UNCHANGED <<producerVars, list, raced, breaks>>

\* useSubmitCode drops what is not above the highest sequenceId it has handled.
IsNew(e) == \A h \in client.handled : h.seq < e.seq

\* useSSE remembers the id and stops at a terminal event; 'queued' makes the
\* output start again.
Receive ==
  /\ client.state = "connected" /\ wire # <<>>
  /\ LET e == Head(wire)
         state == IF IsTerminal(e) THEN "closed" ELSE "connected"
     IN  \/ /\ e.type = QueuedType
            /\ client' = [client EXCEPT !.shown = {}]
         \/ /\ e.type # QueuedType /\ IsNew(e)
            /\ client' = [state |-> state, last |-> e.seq,
                          handled |-> client.handled \cup {e}, shown |-> client.shown \cup {e}]
         \/ /\ e.type # QueuedType /\ ~ IsNew(e)
            /\ client' = [client EXCEPT !.state = state, !.last = e.seq]
  /\ wire' = Tail(wire)
  /\ UNCHANGED <<producerVars, list, conn, inbox, raced, breaks>>

\* The stream ended without a terminal event: reconnect after a backoff.
StreamEnded ==
  /\ client.state = "connected" /\ wire = <<>> /\ conn.closed
  /\ client' = [client EXCEPT !.state = "backoff"]
  /\ UNCHANGED <<producerVars, list, conn, inbox, wire, raced, breaks>>

-----------------------------------------------------------------------------
Producer == PublishEvent \/ PushEvent \/ PushQueued \/ SettleRow
Route ==
  \/ LookUp \/ ReplayAll \/ FirstRange \/ Subscribe \/ Attach
  \/ SecondRange \/ SecondReplay
Browser == Connect \/ Receive \/ StreamEnded

Finished ==
  /\ client.state = "closed" /\ conn.pc = "ended"
  /\ feed = <<>> /\ queued = "listed" /\ row = "terminal"
Done == Finished /\ inbox = <<>> /\ UNCHANGED vars

Next ==
  \/ Producer \/ Route \/ LiveMessage \/ MaxDuration \/ Browser
  \/ RedisError \/ Disconnect \/ Done

Spec == Init /\ [][Next]_vars

\* The worker publishes what it has to and then settles the row, the API process
\* lists 'queued', the route's event loop runs and its timer fires, messages
\* arrive, the browser reads and reconnects.
Fairness ==
  /\ WF_vars(PublishEvent \/ PushEvent \/ SettleRow) /\ WF_vars(PushQueued)
  /\ WF_vars(Route \/ MaxDuration) /\ WF_vars(LiveMessage) /\ WF_vars(Browser)

FairSpec == Spec /\ Fairness

-----------------------------------------------------------------------------
(* Properties. *)

\* Numbers that do not go back: a re-run after a crash starts from 1 again.
Rising ==
  \A i, j \in DOMAIN list :
    i <= j /\ list[j].type # QueuedType => list[i].seq <= list[j].seq

\* No event reaches the browser twice, and those of an attempt come in order: not
\* from the two replays and the live channel of a connection, and, unless the
\* numbers have gone back, and with them the browser's Last-Event-ID, not across
\* reconnections.
NeverTwice ==
  client.state = "connected" =>
    \A j \in DOMAIN wire : wire[j].type # QueuedType =>
      /\ wire[j] \in client.handled => ~ Rising
      /\ \A i \in 1 .. (j - 1) :
           wire[i].attempt = wire[j].attempt => wire[i].seq < wire[j].seq

\* The numbers lower than an event's are in "before" or those of earlier events.
Follows(before, events) ==
  \A i \in DOMAIN events : \A k \in 1 .. (events[i].seq - 1) :
    k \in before \cup {events[j].seq : j \in 1 .. (i - 1)}

\* Numbers without a gap; an event whose publication is rejected leaves one.
Gapless == Follows({}, list) /\ Follows(SeqsOf(list), feed)

\* What the two replays and the channel promise together: a learner sees no
\* event without those numbered before it, unless one was never published, one
\* fell into the gap between PUBLISH and RPUSH, or a live message overtook the
\* second replay.
NoEventSkipped ==
  \A h \in client.handled :
    ~ raced /\ Gapless => \A k \in 1 .. h.seq : \E g \in client.handled : g.seq = k

\* What was handled stays in the output, over any number of reconnections, as
\* long as 'queued', whose publication nobody waits for, has come first.
OutputKept ==
  (list # <<>> => list[1] = QueuedEvent) => client.shown = client.handled

\* Whatever closes the stream, at whichever await of the handler, a handler
\* that has ended leaves no Redis subscription and no timer behind.
NothingLeaks == conn.pc = "ended" => ~ conn.subscribed /\ ~ conn.timers

\* A terminal event with a number above all before it: any other may be dropped
\* as already seen, by the route and by the browser.
Ends(i) == IsTerminal(list[i]) /\ \A j \in 1 .. (i - 1) : list[j].seq < list[i].seq
Ended == \E i \in DOMAIN list : Ends(i)
EndsLast ==
  \E i \in DOMAIN list :
    Ends(i) /\ \A j \in DOMAIN list : j > i => list[j].type = QueuedType

\* A browser that stays on the page handles the end of a run, whatever breaks, if
\* the run publishes one with a number not reached before: always if the terminal
\* event is the last, and if others follow it unless an event has fallen into the
\* gap.  The end of a re-run whose numbers start again may be hidden for ever.
EventuallyTold ==
  <>[](EndsLast \/ (Ended /\ ~ raced)) => <>(\E h \in client.handled : IsTerminal(h))

-----------------------------------------------------------------------------
(* A statement of the story documents that the code does not keep. *)

\* Story 3.7: a terminal event follows compile_error, upon which the browser
\* closes the stream; without one it reconnects for ever.
CompileErrorEnds == <>(client.state = "closed")
=============================================================================

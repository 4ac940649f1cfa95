-------------------------- MODULE ContentCache_proofs --------------------------
(***************************************************************************)
(* Proofs about the caches of ContentCache.  A reload that begins while    *)
(* nothing else is under way promises the files it finds.  The invariant   *)
(* follows the promise from there: nothing that any load or reload has in  *)
(* its hands is older from the beginning, the routing is not once it has   *)
(* been reset, and the cached entry is not when the reload answers.        *)
(*                                                                         *)
(* The bound of ContentTypeOK on the versions is left out: it is a fact    *)
(* about the sum that stops Publish.                                       *)
(***************************************************************************)
EXTENDS ContentCache, TLAPS

-----------------------------------------------------------------------------
(* The invariant. *)

LoadPoints ==
  {"idle", "get", "del", "read", "getBrief", "readBrief", "setBrief",
   "getPrompt", "readPrompt", "setPrompt"}
ReloadPoints ==
  {"idle", "validate", "readRouting", "setRouting", "keys", "delEntry", "reply"}
LoadStates == [pc : LoadPoints, got : [Parts \cup {"prompt"} -> Nat \cup {Unread}]]
ReloadStates == [pc : ReloadPoints, routing : Nat, promises : [Files -> Nat]]

\* The types, without a bound on the versions.
CacheTypeOK ==
  /\ disk \in [Files -> Nat \ {0}]
  /\ entry \in [state : {"none", "old", "full"}, parts : [Parts -> Nat]]
  /\ brief \in Nat /\ prompt \in Nat /\ routing \in Nat
  /\ load \in [Loads -> LoadStates]
  /\ reload \in [Reloads -> ReloadStates]
  /\ promised \in [Files -> Nat]
  /\ failures \in 0 .. MaxFailures

\* A load or a reload that has ended has kept nothing, and a load that has a
\* brief or a template to cache has read it.
Points ==
  /\ \A l \in Loads :
       /\ load[l].pc = "idle" => load[l] = NoLoad
       /\ load[l].pc = "setBrief" => load[l].got["brief"] # Unread
       /\ load[l].pc = "setPrompt" => load[l].got["prompt"] # Unread
  /\ \A a \in Reloads : reload[a].pc = "idle" => reload[a] = NoReload

\* A value is none, what a failed read has left, or not older than a promise.
Since(version, P, f) == version <= 0 \/ version >= P[f]

\* What holds of a promise from the beginning of the reload that makes it: the
\* files are not older, nor is what any load or reload has read since, nor the
\* template.
Honoured(P) ==
  /\ \A f \in Files : P[f] <= disk[f]
  /\ \A l \in Loads : \A f \in Parts \cup {"prompt"} : Since(load[l].got[f], P, f)
  /\ \A a \in Reloads : Since(reload[a].routing, P, "routing")
  /\ Since(prompt, P, "prompt")
RoutingHonours(P) == Since(routing, P, "routing")
EntryHonours(P) == entry.state = "full" => \A p \in Parts : Since(entry.parts[p], P, p)

\* A reload has cleared the routing once its templates are validated, and the
\* entry when it is about to answer.
Promises ==
  /\ Honoured(promised) /\ RoutingHonours(promised) /\ EntryHonours(promised)
  /\ \A a \in Reloads :
       /\ Honoured(reload[a].promises)
       /\ reload[a].pc \notin {"idle", "validate"} => RoutingHonours(reload[a].promises)
       /\ reload[a].pc = "reply" => EntryHonours(reload[a].promises)

CacheInv == CacheTypeOK /\ Points /\ Promises
-----------------------------------------------------------------------------
(* The parts of the steps. *)

\* What the constants allow.
LEMMA ConstantsAre ==
  /\ "brief" \in Parts /\ MaxFailures \in Nat
  /\ Parts \subseteq Files /\ "prompt" \in Files /\ "routing" \in Files
  BY ContentAssumption DEF ContentAssumption, Files

\* What is empty has its type.
LEMMA EmptyIs ==
  /\ NoLoad \in LoadStates /\ NoLoad.pc = "idle"
  /\ \A f \in Parts \cup {"prompt"} : NoLoad.got[f] = Unread
  /\ NoReload \in ReloadStates /\ NoReload.pc = "idle" /\ NoReload.routing = 0
  /\ NoReload.promises = Nothing /\ Nothing \in [Files -> Nat]
  /\ \A f \in Files : Nothing[f] = 0
  /\ {NoEntry, OldEntry} \subseteq [state : {"none", "old", "full"}, parts : [Parts -> Nat]]
  /\ NoEntry.state = "none" /\ OldEntry.state = "old"
<1>1. AllUnread \in [Parts \cup {"prompt"} -> Nat \cup {Unread}]
  BY DEF AllUnread
<1>2. \A f \in Parts \cup {"prompt"} : AllUnread[f] = Unread
  BY DEF AllUnread
<1>3. NoLoad \in LoadStates /\ NoLoad.pc = "idle" /\ NoLoad.got = AllUnread
  BY <1>1 DEF NoLoad, LoadStates, LoadPoints
<1>4. Nothing \in [Files -> Nat] /\ \A f \in Files : Nothing[f] = 0
  BY DEF Nothing
<1>5. NoReload \in ReloadStates /\ NoReload.pc = "idle" /\ NoReload.routing = 0 /\ NoReload.promises = Nothing
  BY <1>4 DEF NoReload, ReloadStates, ReloadPoints
<1>6. [p \in Parts |-> 0] \in [Parts -> Nat]
  OBVIOUS
<1>7. /\ {NoEntry, OldEntry} \subseteq [state : {"none", "old", "full"}, parts : [Parts -> Nat]]
      /\ NoEntry.state = "none" /\ OldEntry.state = "old"
  BY <1>6 DEF NoEntry, OldEntry
<1> QED BY <1>2, <1>3, <1>4, <1>5, <1>7

\* A call that is rejected.
LEMMA RejectsIs ==
  ASSUME CacheTypeOK, Rejects
  PROVE  failures' \in 0 .. MaxFailures
  BY ConstantsAre DEF Rejects, CacheTypeOK

\* A load's next state: the point it goes to, and what it has read.
LoadsTo(l, q) ==
  /\ load' = [load EXCEPT ![l] = q]
  /\ q \in LoadStates
  /\ q = NoLoad \/ q.pc # "idle"
  /\ q.pc = "setBrief" => q.got["brief"] # Unread
  /\ q.pc = "setPrompt" => q.got["prompt"] # Unread
  /\ \A f \in Parts \cup {"prompt"} : q.got[f] \in {load[l].got[f], Unread, 0, disk[f]}

\* A load that goes from point to point.
LEMMA MovesIs ==
  ASSUME CacheTypeOK, NEW l \in Loads, NEW from \in LoadPoints,
         NEW to \in LoadPoints \ {"idle", "setBrief", "setPrompt"}, Moves(l, from, to)
  PROVE  \E q : LoadsTo(l, q)
<1> DEFINE q == [load[l] EXCEPT !.pc = to]
<1>1. load[l] \in LoadStates
  BY DEF CacheTypeOK
<1>2. q \in LoadStates /\ q.pc = to /\ q.got = load[l].got
  BY <1>1 DEF LoadStates
<1>3. load' = [load EXCEPT ![l] = q]
  BY DEF Moves, Goes
<1> HIDE DEF q
<1> QED BY <1>2, <1>3 DEF LoadsTo

\* A load that ends.
LEMMA EndsIs ==
  ASSUME NEW l \in Loads, load' = [load EXCEPT ![l] = NoLoad]
  PROVE  LoadsTo(l, NoLoad)
  BY EmptyIs DEF LoadsTo

\* A load that has missed the cached brief or template.
LEMMA MissesIs ==
  ASSUME NEW l \in Loads, NEW to \in {"readBrief", "readPrompt"},
         load' = [load EXCEPT ![l] = [NoLoad EXCEPT !.pc = to]]
  PROVE  \E q : LoadsTo(l, q)
<1> DEFINE q == [NoLoad EXCEPT !.pc = to]
<1>1. q \in LoadStates /\ q.pc = to /\ q.got = NoLoad.got
  BY EmptyIs DEF LoadStates, LoadPoints
<1> HIDE DEF q
<1>2. load' = [load EXCEPT ![l] = q]
  BY DEF q
<1>3. \A f \in Parts \cup {"prompt"} : q.got[f] = Unread
  BY <1>1, EmptyIs
<1>4. LoadsTo(l, q)
  BY <1>1, <1>2, <1>3 DEF LoadsTo
<1> QED BY <1>4

\* A load that reads a file.
LEMMA ReadsIs ==
  ASSUME CacheTypeOK, NEW l \in Loads, NEW from \in LoadPoints, NEW to \in LoadPoints \ {"idle"},
         NEW f \in Parts \cup {"prompt"}, Reads(l, from, f, to),
         to = "setBrief" => f = "brief", to = "setPrompt" => f = "prompt"
  PROVE  (\E q : LoadsTo(l, q)) /\ failures' \in 0 .. MaxFailures
<1>1. load[l] \in LoadStates /\ disk[f] \in Nat /\ 0 \in Nat
  BY ConstantsAre DEF CacheTypeOK, Files
<1>2. ASSUME NEW v \in {disk[f], 0},
             Goes(l, from, [pc |-> to, got |-> [load[l].got EXCEPT ![f] = v]])
      PROVE  \E q : LoadsTo(l, q)
  <2> DEFINE q == [pc |-> to, got |-> [load[l].got EXCEPT ![f] = v]]
  <2>1. q \in LoadStates
    BY <1>1 DEF LoadStates
  <2>2. /\ q.pc = to /\ load' = [load EXCEPT ![l] = q]
        /\ \A g \in Parts \cup {"prompt"} : q.got[g] = IF g = f THEN v ELSE load[l].got[g]
    BY <1>1, <1>2 DEF LoadStates, Goes
  <2>3. v # Unread
    BY <1>1 DEF Unread
  <2> HIDE DEF q
  <2>4. (q.pc = "setBrief" => q.got["brief"] # Unread) /\ (q.pc = "setPrompt" => q.got["prompt"] # Unread)
    BY <2>2, <2>3
  <2>5. \A g \in Parts \cup {"prompt"} : q.got[g] \in {load[l].got[g], Unread, 0, disk[g]}
    BY <1>2, <2>2
  <2> QED BY <2>1, <2>2, <2>4, <2>5 DEF LoadsTo
<1>3. \E q : LoadsTo(l, q)
  BY <1>2 DEF Reads
<1>4. failures' \in 0 .. MaxFailures
  BY RejectsIs DEF Reads, CacheTypeOK
<1> QED BY <1>3, <1>4

\* A load's step: its own state, and at most one of the caches, which it fills
\* with what it has read.
LEMMA LoadIs ==
  ASSUME CacheTypeOK, Points, NEW l \in Loads, BeginLoad(l) \/ Load(l)
  PROVE  /\ \E q : LoadsTo(l, q)
         /\ disk' = disk /\ routing' = routing /\ reload' = reload /\ promised' = promised
         /\ failures' \in 0 .. MaxFailures
         /\ brief' \in Nat
         /\ prompt' = prompt \/ (prompt' = load[l].got["prompt"] /\ prompt' \in Nat)
         /\ \/ entry' = entry \/ entry' = NoEntry
            \/ /\ entry' \in [state : {"none", "old", "full"}, parts : [Parts -> Nat]]
               /\ \A p \in Parts : entry'.parts[p] = load[l].got[p]
<1> DEFINE Goal ==
         /\ \E q : LoadsTo(l, q)
         /\ disk' = disk /\ routing' = routing /\ reload' = reload /\ promised' = promised
         /\ failures' \in 0 .. MaxFailures
         /\ brief' \in Nat
         /\ prompt' = prompt \/ (prompt' = load[l].got["prompt"] /\ prompt' \in Nat)
         /\ \/ entry' = entry \/ entry' = NoEntry
            \/ /\ entry' \in [state : {"none", "old", "full"}, parts : [Parts -> Nat]]
               /\ \A p \in Parts : entry'.parts[p] = load[l].got[p]
<1>1. /\ load[l] \in LoadStates /\ failures \in 0 .. MaxFailures /\ brief \in Nat
      /\ load[l].got \in [Parts \cup {"prompt"} -> Nat \cup {Unread}]
  BY DEF CacheTypeOK, LoadStates
<1>2. CASE BeginLoad(l)
  <2>1. PICK pc \in {"get", "getBrief", "getPrompt"} : Begin(l, pc)
    BY <1>2 DEF BeginLoad
  <2>2. \E q : LoadsTo(l, q)
    BY <2>1, MovesIs DEF Begin, LoadPoints
  <2> QED BY <1>1, <2>1, <2>2 DEF Begin
<1>3. CASE Get(l)
  <2>1. \E q : LoadsTo(l, q)
    BY <1>3, MovesIs, EndsIs DEF Get, Goes, LoadPoints
  <2> QED BY <1>1, <1>3, <2>1 DEF Get
<1>4. CASE DelOld(l)
  <2>1. \E q : LoadsTo(l, q)
    BY <1>4, MovesIs DEF DelOld, LoadPoints
  <2> QED BY <1>1, <1>4, <2>1 DEF DelOld
<1>5. CASE \E p \in Parts : ReadPart(l, p)
  <2>1. (\E q : LoadsTo(l, q)) /\ failures' \in 0 .. MaxFailures
    BY <1>5, ReadsIs DEF ReadPart, LoadPoints
  <2> QED BY <1>1, <1>5, <2>1 DEF ReadPart
<1>6. CASE Set(l)
  <2>1. LoadsTo(l, NoLoad)
    BY <1>6, EndsIs DEF Set, Goes
  <2> DEFINE parts == [p \in Parts |-> load[l].got[p]]
  <2>2. parts \in [Parts -> Nat]
    <3>1. \A p \in Parts : load[l].got[p] \in Nat
      BY <1>1, <1>6 DEF Set
    <3> QED BY <3>1
  <2>3. entry' = [state |-> "full", parts |-> parts]
    BY <1>6 DEF Set
  <2>4. \A p \in Parts : parts[p] = load[l].got[p]
    OBVIOUS
  <2> HIDE DEF parts
  <2>5. /\ entry' \in [state : {"none", "old", "full"}, parts : [Parts -> Nat]]
        /\ \A p \in Parts : entry'.parts[p] = load[l].got[p]
    BY <2>2, <2>3, <2>4
  <2> QED BY <1>1, <1>6, <2>1, <2>5 DEF Set
<1>7. CASE GetBrief(l)
  <2>1. \E q : LoadsTo(l, q)
    BY <1>7, EndsIs, MissesIs DEF GetBrief, Goes
  <2> QED BY <1>1, <1>7, <2>1 DEF GetBrief
<1>8. CASE ReadBrief(l)
  <2>1. (\E q : LoadsTo(l, q)) /\ failures' \in 0 .. MaxFailures
    BY <1>8, ReadsIs, ConstantsAre DEF ReadBrief, LoadPoints
  <2> QED BY <1>1, <1>8, <2>1 DEF ReadBrief
<1>9. CASE SetBrief(l)
  <2>1. LoadsTo(l, NoLoad)
    BY <1>9, EndsIs DEF SetBrief, Goes
  <2>2. load[l].got["brief"] \in Nat
    BY <1>1, <1>9, ConstantsAre DEF SetBrief, Goes, Points
  <2> QED BY <1>1, <1>9, <2>1, <2>2 DEF SetBrief
<1>10. CASE GetPrompt(l)
  <2>1. \E q : LoadsTo(l, q)
    BY <1>10, EndsIs, MissesIs DEF GetPrompt, Goes
  <2> QED BY <1>1, <1>10, <2>1 DEF GetPrompt
<1>11. CASE ReadPrompt(l)
  <2>1. (\E q : LoadsTo(l, q)) /\ failures' \in 0 .. MaxFailures
    BY <1>11, ReadsIs DEF ReadPrompt, LoadPoints
  <2> QED BY <1>1, <1>11, <2>1 DEF ReadPrompt
<1>12. CASE SetPrompt(l)
  <2>1. LoadsTo(l, NoLoad)
    BY <1>12, EndsIs DEF SetPrompt, Goes
  <2>2. load[l].got["prompt"] \in Nat
    BY <1>1, <1>12 DEF SetPrompt, Goes, Points
  <2> QED BY <1>1, <1>12, <2>1, <2>2 DEF SetPrompt
<1>13. CASE LoadFails(l)
  <2>1. LoadsTo(l, NoLoad) /\ failures' \in 0 .. MaxFailures
    BY <1>13, EndsIs, RejectsIs DEF LoadFails
  <2> QED BY <1>1, <1>13, <2>1 DEF LoadFails
<1> QED BY <1>2, <1>3, <1>4, <1>5, <1>6, <1>7, <1>8, <1>9, <1>10, <1>11, <1>12, <1>13 DEF Load

\* Nothing is under way.
Quiet ==
  /\ \A l \in Loads : load[l].pc = "idle"
  /\ \A b \in Reloads : reload[b].pc = "idle"

\* A reload's next state: the point it goes to, the routing it has read, and
\* what it promises.
ReloadsTo(a, q) ==
  /\ reload' = [reload EXCEPT ![a] = q]
  /\ q \in ReloadStates
  /\ q = NoReload \/ q.pc # "idle"
  /\ q.routing \in {reload[a].routing, 0, disk["routing"]}
  /\ \/ q.promises = reload[a].promises
     \/ q.promises = Nothing
     \/ q.promises = disk /\ Quiet /\ q.pc = "validate" /\ prompt' = 0
  /\ q.pc \notin {"idle", "validate"} =>
       reload[a].pc \notin {"idle", "validate"} \/ routing' = 0
  /\ q.pc = "reply" => q.promises = Nothing \/ entry' = NoEntry

\* A reload that takes a step in between.
LEMMA AdvancesIs ==
  ASSUME CacheTypeOK, NEW a \in Reloads, NEW to \in ReloadPoints \ {"idle"},
         NEW q, Advances(a, reload[a].pc, q), q.pc = to,
         \/ \E r \in {reload[a].routing, 0, disk["routing"]} :
              q = [reload[a] EXCEPT !.pc = to, !.routing = r]
         \/ q = [NoReload EXCEPT !.pc = to],
         to \notin {"idle", "validate"} =>
           reload[a].pc \notin {"idle", "validate"} \/ routing' = 0,
         to = "reply" => q.promises = Nothing \/ entry' = NoEntry
  PROVE  ReloadsTo(a, q)
<1>1. reload[a] \in ReloadStates /\ disk["routing"] \in Nat /\ NoReload \in ReloadStates
  BY ConstantsAre, EmptyIs DEF CacheTypeOK
<1>2. reload' = [reload EXCEPT ![a] = q]
  BY DEF Advances
<1>3. CASE \E r \in {reload[a].routing, 0, disk["routing"]} : q = [reload[a] EXCEPT !.pc = to, !.routing = r]
  <2>1. PICK r \in {reload[a].routing, 0, disk["routing"]} : q = [reload[a] EXCEPT !.pc = to, !.routing = r]
    BY <1>3
  <2>2. r \in Nat
    BY <1>1, <2>1 DEF ReloadStates
  <2>3. q \in ReloadStates /\ q.routing = r /\ q.promises = reload[a].promises
    BY <1>1, <2>1, <2>2 DEF ReloadStates
  <2>4. q.pc # "idle"
    OBVIOUS
  <2> QED BY <1>2, <2>1, <2>3, <2>4 DEF ReloadsTo
<1>4. CASE q = [NoReload EXCEPT !.pc = to]
  <2>1. q \in ReloadStates /\ q.routing = 0 /\ q.promises = Nothing
    BY <1>1, <1>4, EmptyIs DEF ReloadStates
  <2>2. q.pc # "idle"
    OBVIOUS
  <2> QED BY <1>2, <2>1, <2>2 DEF ReloadsTo
<1> QED BY <1>3, <1>4

\* A reload's step.
LEMMA ReloadIs ==
  ASSUME CacheTypeOK, NEW a \in Reloads, BeginReload(a) \/ Reload(a)
  PROVE  /\ \E q : ReloadsTo(a, q)
         /\ disk' = disk /\ brief' = brief /\ load' = load
         /\ failures' \in 0 .. MaxFailures
         /\ entry' = entry \/ entry' = NoEntry
         /\ prompt' = prompt \/ prompt' = 0
         /\ routing' \in {routing, reload[a].routing, 0}
         /\ \/ promised' = promised
            \/ promised' = reload[a].promises /\ reload[a].pc = "reply"
<1>1. /\ reload[a] \in ReloadStates /\ failures \in 0 .. MaxFailures
      /\ disk \in [Files -> Nat] /\ NoReload \in ReloadStates
  BY EmptyIs DEF CacheTypeOK
<1>2. reload[a].pc \in ReloadPoints
  BY <1>1 DEF ReloadStates
<1>3. CASE BeginReload(a)
  <2> DEFINE q == [NoReload EXCEPT !.pc = "validate", !.promises = IF Quiet THEN disk ELSE Nothing]
  <2>1. reload' = [reload EXCEPT ![a] = q] /\ prompt' = 0
    BY <1>3 DEF BeginReload, Advances, Quiet, resetPromptCaches
  <2>2. CASE Quiet
    <3>1. q = [NoReload EXCEPT !.pc = "validate", !.promises = disk]
      BY <2>2
    <3>2. q \in ReloadStates /\ q.routing = 0 /\ q.promises = disk /\ q.pc = "validate"
      BY <1>1, <3>1, EmptyIs DEF ReloadStates, ReloadPoints
    <3> HIDE DEF q
    <3>3. ReloadsTo(a, q)
      BY <2>1, <2>2, <3>2 DEF ReloadsTo
    <3> QED BY <1>1, <1>3, <2>1, <3>3 DEF BeginReload
  <2>3. CASE ~ Quiet
    <3>1. q = [NoReload EXCEPT !.pc = "validate", !.promises = Nothing]
      BY <2>3
    <3>2. q \in ReloadStates /\ q.routing = 0 /\ q.promises = Nothing /\ q.pc = "validate"
      BY <1>1, <3>1, EmptyIs DEF ReloadStates, ReloadPoints
    <3> HIDE DEF q
    <3>3. ReloadsTo(a, q)
      BY <2>1, <3>2 DEF ReloadsTo
    <3> QED BY <1>1, <1>3, <2>1, <3>3 DEF BeginReload
  <2> QED BY <2>2, <2>3
<1>4. CASE Validate(a)
  <2>1. PICK q : /\ Advances(a, reload[a].pc, q) /\ reload[a].pc = "validate"
                 /\ \/ q = [reload[a] EXCEPT !.pc = "readRouting"]
                    \/ q = [NoReload EXCEPT !.pc = "readRouting"]
    BY <1>4 DEF Validate, Advances
  <2>2. q.pc = "readRouting" /\ (q = [reload[a] EXCEPT !.pc = "readRouting"] =>
          q = [reload[a] EXCEPT !.pc = "readRouting", !.routing = reload[a].routing])
    BY <1>1, <2>1 DEF ReloadStates
  <2>3. routing' = 0
    BY <1>4 DEF Validate
  <2>4. ReloadsTo(a, q)
    BY <2>1, <2>2, <2>3, AdvancesIs DEF ReloadPoints
  <2>5. failures' \in 0 .. MaxFailures
    BY <1>1, <1>4, RejectsIs DEF Validate
  <2> QED BY <1>4, <2>4, <2>5 DEF Validate
<1>5. CASE ReadRouting(a)
  <2>1. PICK r \in {disk["routing"], 0} :
          Advances(a, "readRouting", [reload[a] EXCEPT !.pc = "setRouting", !.routing = r])
    BY <1>5 DEF ReadRouting
  <2> DEFINE q == [reload[a] EXCEPT !.pc = "setRouting", !.routing = r]
  <2>2. q.pc = "setRouting" /\ reload[a].pc = "readRouting"
    BY <1>1, <2>1 DEF ReloadStates, Advances
  <2>3. ReloadsTo(a, q)
    BY <2>1, <2>2, AdvancesIs DEF ReloadPoints
  <2>4. failures' \in 0 .. MaxFailures
    BY <1>1, <1>5, RejectsIs DEF ReadRouting
  <2> HIDE DEF q
  <2> QED BY <1>5, <2>3, <2>4 DEF ReadRouting
<1>6. CASE SetRouting(a)
  <2> DEFINE q == [reload[a] EXCEPT !.pc = "keys", !.routing = 0]
  <2>1. q.pc = "keys" /\ reload[a].pc = "setRouting" /\ Advances(a, "setRouting", q)
    BY <1>1, <1>6 DEF SetRouting, ReloadStates, Advances
  <2>2. ReloadsTo(a, q)
    BY <2>1, AdvancesIs DEF ReloadPoints
  <2> HIDE DEF q
  <2> QED BY <1>1, <1>6, <2>2 DEF SetRouting
<1>7. CASE Keys(a)
  <2> DEFINE to == IF entry = NoEntry THEN "reply" ELSE "delEntry"
             q == [reload[a] EXCEPT !.pc = to]
  <2>1. q.pc = to /\ reload[a].pc = "keys" /\ Advances(a, "keys", q) /\ entry' = entry
    BY <1>1, <1>7 DEF Keys, ReloadStates, Advances
  <2>2. q = [reload[a] EXCEPT !.pc = to, !.routing = reload[a].routing]
    BY <1>1 DEF ReloadStates
  <2>3. to \in ReloadPoints \ {"idle"} /\ (to = "reply" => entry' = NoEntry)
    BY <2>1 DEF ReloadPoints
  <2> HIDE DEF to, q
  <2>4. ReloadsTo(a, q)
    BY <2>1, <2>2, <2>3, AdvancesIs
  <2> QED BY <1>1, <1>7, <2>4 DEF Keys
<1>8. CASE DelEntry(a)
  <2> DEFINE q == [reload[a] EXCEPT !.pc = "reply"]
  <2>1. q.pc = "reply" /\ reload[a].pc = "delEntry" /\ Advances(a, "delEntry", q) /\ entry' = NoEntry
    BY <1>1, <1>8 DEF DelEntry, ReloadStates, Advances
  <2>2. q = [reload[a] EXCEPT !.pc = "reply", !.routing = reload[a].routing]
    BY <1>1 DEF ReloadStates
  <2> HIDE DEF q
  <2>3. ReloadsTo(a, q)
    BY <2>1, <2>2, AdvancesIs DEF ReloadPoints
  <2> QED BY <1>1, <1>8, <2>3 DEF DelEntry
<1>9. CASE RedisRejects(a)
  <2> DEFINE q == [NoReload EXCEPT !.pc = "reply"]
  <2>1. /\ q.pc = "reply" /\ q.promises = Nothing /\ Advances(a, reload[a].pc, q)
        /\ reload[a].pc \in {"keys", "delEntry"}
    BY <1>1, <1>9, EmptyIs DEF RedisRejects, ReloadStates, Advances
  <2>2. q = [NoReload EXCEPT !.pc = "reply"]
    OBVIOUS
  <2> HIDE DEF q
  <2>3. ReloadsTo(a, q)
    BY <2>1, <2>2, AdvancesIs DEF ReloadPoints
  <2>4. failures' \in 0 .. MaxFailures
    BY <1>9, RejectsIs DEF RedisRejects
  <2> QED BY <1>9, <2>3, <2>4 DEF RedisRejects
<1>10. CASE Reply(a)
  <2>1. reload' = [reload EXCEPT ![a] = NoReload] /\ reload[a].pc = "reply"
    BY <1>10 DEF Reply, Advances
  <2>2. ReloadsTo(a, NoReload)
    BY <1>1, <2>1, EmptyIs DEF ReloadsTo
  <2> QED BY <1>1, <1>10, <2>1, <2>2 DEF Reply
<1> QED BY <1>3, <1>4, <1>5, <1>6, <1>7, <1>8, <1>9, <1>10 DEF Reload

\* The restart of the API.
LEMMA RestartIs ==
  ASSUME CacheTypeOK, Points, Restart
  PROVE  /\ disk' = disk /\ entry' = entry /\ brief' = brief /\ promised' = promised
         /\ prompt' = 0 /\ routing' \in {disk["routing"], 0} /\ failures' \in 0 .. MaxFailures
         /\ reload' = [a \in Reloads |-> NoReload]
         /\ load' \in [Loads -> LoadStates]
         /\ \A l \in Loads : load'[l] = load[l] \/ load'[l] = NoLoad
<1>1. PICK worker \in SUBSET {l \in Loads : load[l].pc \in {"get", "del", "read"}} :
        load' = [l \in Loads |-> IF l \in worker THEN load[l] ELSE NoLoad]
  BY DEF Restart
<1>2. \A l \in Loads : load'[l] = load[l] \/ load'[l] = NoLoad
  BY <1>1
<1>3. load' \in [Loads -> LoadStates]
  BY <1>1, EmptyIs DEF CacheTypeOK
<1>4. failures' \in 0 .. MaxFailures
  BY RejectsIs DEF Restart, CacheTypeOK
<1> QED BY <1>2, <1>3, <1>4 DEF Restart

\* The steps of the program.
LEMMA CacheSteps ==
  [Next]_vars =>
    \/ \E f \in Files : Publish(f)
    \/ EntryExpires \/ BriefExpires \/ ReloadPrompts \/ UNCHANGED vars
    \/ \E l \in Loads : BeginLoad(l) \/ Load(l)
    \/ \E a \in Reloads : BeginReload(a) \/ Reload(a)
    \/ Restart
  BY DEF Next

-----------------------------------------------------------------------------
(* The invariant holds at first, and every step keeps it. *)

\* The types hold at first.
LEMMA CacheTypeHolds == Init => CacheTypeOK
<1> SUFFICES ASSUME Init PROVE CacheTypeOK
  OBVIOUS
<1>1. disk \in [Files -> Nat \ {0}]
  BY DEF Init
<1>2. entry \in [state : {"none", "old", "full"}, parts : [Parts -> Nat]]
  BY EmptyIs DEF Init
<1>3. load \in [Loads -> LoadStates] /\ reload \in [Reloads -> ReloadStates] /\ promised \in [Files -> Nat]
  BY EmptyIs DEF Init
<1>4. brief \in Nat /\ prompt \in Nat /\ routing \in Nat /\ failures \in 0 .. MaxFailures
  BY ConstantsAre DEF Init
<1> QED BY <1>1, <1>2, <1>3, <1>4 DEF CacheTypeOK

\* Every step keeps the types and the points.
LEMMA CacheTypeStays ==
  ASSUME CacheTypeOK, Points, [Next]_vars
  PROVE  CacheTypeOK' /\ Points'
<1>1. /\ disk \in [Files -> Nat \ {0}] /\ disk["routing"] \in Nat
      /\ load \in [Loads -> LoadStates] /\ reload \in [Reloads -> ReloadStates]
      /\ NoEntry \in [state : {"none", "old", "full"}, parts : [Parts -> Nat]]
  BY ConstantsAre, EmptyIs DEF CacheTypeOK
<1>2. ASSUME NEW f \in Files, Publish(f) PROVE CacheTypeOK' /\ Points'
  <2>1. disk' \in [Files -> Nat \ {0}]
    BY <1>1, <1>2 DEF Publish
  <2> QED BY <1>2, <2>1 DEF Publish, CacheTypeOK, Points
<1>3. CASE EntryExpires \/ BriefExpires \/ ReloadPrompts
  BY <1>1, <1>3 DEF EntryExpires, BriefExpires, ReloadPrompts, resetPromptCaches, CacheTypeOK, Points
<1>4. CASE UNCHANGED vars
  BY <1>4 DEF vars, CacheTypeOK, Points
<1>5. ASSUME NEW l \in Loads, BeginLoad(l) \/ Load(l) PROVE CacheTypeOK' /\ Points'
  <2>1. PICK q : LoadsTo(l, q)
    BY <1>5, LoadIs
  <2>2. /\ load' \in [Loads -> LoadStates]
        /\ \A m \in Loads : load'[m] = IF m = l THEN q ELSE load[m]
    BY <1>1, <2>1 DEF LoadsTo
  <2>3. /\ disk' = disk /\ routing' = routing /\ reload' = reload /\ promised' = promised
        /\ failures' \in 0 .. MaxFailures /\ brief' \in Nat /\ prompt' \in Nat
        /\ entry' \in [state : {"none", "old", "full"}, parts : [Parts -> Nat]]
    BY <1>1, <1>5, LoadIs DEF CacheTypeOK
  <2>4. CacheTypeOK'
    BY <2>2, <2>3 DEF CacheTypeOK
  <2>5. Points'
    BY <2>1, <2>2, <2>3 DEF Points, LoadsTo
  <2> QED BY <2>4, <2>5
<1>6. ASSUME NEW a \in Reloads, BeginReload(a) \/ Reload(a) PROVE CacheTypeOK' /\ Points'
  <2>1. PICK q : ReloadsTo(a, q)
    BY <1>6, ReloadIs
  <2>2. /\ reload' \in [Reloads -> ReloadStates]
        /\ \A b \in Reloads : reload'[b] = IF b = a THEN q ELSE reload[b]
    BY <1>1, <2>1 DEF ReloadsTo
  <2>3. reload[a].routing \in Nat /\ reload[a].promises \in [Files -> Nat]
    BY <1>1 DEF ReloadStates
  <2>4. /\ disk' = disk /\ brief' = brief /\ load' = load /\ failures' \in 0 .. MaxFailures
        /\ entry' \in [state : {"none", "old", "full"}, parts : [Parts -> Nat]]
        /\ prompt' \in Nat /\ routing' \in Nat /\ promised' \in [Files -> Nat]
    <3>1. /\ disk' = disk /\ brief' = brief /\ load' = load /\ failures' \in 0 .. MaxFailures
          /\ entry' = entry \/ entry' = NoEntry
          /\ prompt' = prompt \/ prompt' = 0
          /\ routing' \in {routing, reload[a].routing, 0}
          /\ promised' \in {promised, reload[a].promises}
      BY <1>6, ReloadIs
    <3> QED BY <1>1, <2>3, <3>1 DEF CacheTypeOK
  <2>5. CacheTypeOK'
    BY <2>2, <2>4 DEF CacheTypeOK
  <2>6. Points'
    BY <2>1, <2>2, <2>4 DEF Points, ReloadsTo
  <2> QED BY <2>5, <2>6
<1>7. CASE Restart
  <2>1. /\ disk' = disk /\ entry' = entry /\ brief' = brief /\ promised' = promised
        /\ prompt' = 0 /\ routing' \in {disk["routing"], 0} /\ failures' \in 0 .. MaxFailures
        /\ reload' = [a \in Reloads |-> NoReload]
        /\ load' \in [Loads -> LoadStates]
        /\ \A l \in Loads : load'[l] = load[l] \/ load'[l] = NoLoad
    BY <1>7, RestartIs
  <2>2. reload' \in [Reloads -> ReloadStates]
    BY <2>1, EmptyIs
  <2>3. CacheTypeOK'
    BY <1>1, <2>1, <2>2 DEF CacheTypeOK
  <2>4. Points'
    BY <2>1, EmptyIs DEF Points
  <2> QED BY <2>3, <2>4
<1> QED BY <1>2, <1>3, <1>4, <1>5, <1>6, <1>7, CacheSteps

\* What a failed or unread value, and a file itself, are to any promise kept.
LEMMA SinceIs ==
  ASSUME NEW P \in [Files -> Nat], NEW f \in Files
  PROVE  Since(Unread, P, f) /\ Since(0, P, f) /\ \A v \in Nat : P[f] <= v => Since(v, P, f)
  BY DEF Since, Unread

\* A promise of nothing is honoured.
LEMMA NothingIsHonoured ==
  CacheTypeOK => Honoured(Nothing) /\ RoutingHonours(Nothing) /\ EntryHonours(Nothing)
<1> SUFFICES ASSUME CacheTypeOK
             PROVE  Honoured(Nothing) /\ RoutingHonours(Nothing) /\ EntryHonours(Nothing)
  OBVIOUS
<1>1. \A f \in Files, v \in Nat \cup {Unread} : Since(v, Nothing, f)
  BY EmptyIs DEF Since, Unread
<1>2. \A f \in Files : Nothing[f] <= disk[f]
  BY EmptyIs DEF CacheTypeOK
<1>3. \A l \in Loads : \A f \in Parts \cup {"prompt"} : load[l].got[f] \in Nat \cup {Unread} /\ f \in Files
  BY ConstantsAre DEF CacheTypeOK, LoadStates
<1>4. \A a \in Reloads : reload[a].routing \in Nat
  BY DEF CacheTypeOK, ReloadStates
<1>5. prompt \in Nat /\ routing \in Nat /\ \A p \in Parts : entry.parts[p] \in Nat /\ p \in Files
  BY ConstantsAre DEF CacheTypeOK
<1> QED BY <1>1, <1>2, <1>3, <1>4, <1>5, ConstantsAre DEF Honoured, RoutingHonours, EntryHonours

\* What the files are when nothing is under way, and the template not cached, can
\* be promised.
LEMMA QuietIsHonoured ==
  ASSUME CacheTypeOK, Points, Quiet
  PROVE  /\ \A f \in Files : disk[f] <= disk[f]
         /\ \A l \in Loads : \A f \in Parts \cup {"prompt"} : Since(load[l].got[f], disk, f)
         /\ \A a \in Reloads : Since(reload[a].routing, disk, "routing")
         /\ Since(0, disk, "prompt")
<1>1. \A f \in Files : disk[f] \in Nat
  BY DEF CacheTypeOK
<1>2. \A l \in Loads : \A f \in Parts \cup {"prompt"} : load[l].got[f] = Unread
  BY EmptyIs DEF Quiet, Points
<1>3. \A a \in Reloads : reload[a].routing = 0
  BY EmptyIs DEF Quiet, Points
<1> QED BY <1>1, <1>2, <1>3 DEF Since, Unread

\* What a step leaves of a promise that was honoured.
StaysHonoured(P) ==
  /\ \A f \in Files : P[f] <= disk'[f]
  /\ \A l \in Loads : \A f \in Parts \cup {"prompt"} : Since(load'[l].got[f], P, f)
  /\ \A a \in Reloads : Since(reload'[a].routing, P, "routing")
  /\ Since(prompt', P, "prompt")
  /\ RoutingHonours(P) => Since(routing', P, "routing")
  /\ EntryHonours(P) =>
       (entry'.state = "full" => \A p \in Parts : Since(entry'.parts[p], P, p))

\* A promise that is honoured is honoured after a step; so it is by the routing and
\* by the entry if it was.
LEMMA PromiseStays ==
  ASSUME CacheTypeOK, Points, NEW P \in [Files -> Nat], Honoured(P), [Next]_vars
  PROVE  StaysHonoured(P)
<1>1. /\ \A f \in Files : P[f] <= disk[f] /\ P[f] \in Nat /\ disk[f] \in Nat
      /\ \A l \in Loads : \A f \in Parts \cup {"prompt"} : Since(load[l].got[f], P, f)
      /\ \A a \in Reloads : Since(reload[a].routing, P, "routing")
      /\ Since(prompt, P, "prompt")
  BY DEF Honoured, CacheTypeOK
<1>2. /\ RoutingHonours(P) => Since(routing, P, "routing")
      /\ EntryHonours(P) => (entry.state = "full" => \A p \in Parts : Since(entry.parts[p], P, p))
  BY DEF RoutingHonours, EntryHonours
<1>3. /\ \A f \in Files : Since(Unread, P, f) /\ Since(0, P, f) /\ Since(disk[f], P, f)
      /\ NoEntry.state # "full"
  BY <1>1, SinceIs, EmptyIs
<1>4. \A f \in Parts \cup {"prompt", "routing"} : f \in Files
  BY ConstantsAre
<1>5. ASSUME NEW f \in Files, Publish(f) PROVE StaysHonoured(P)
  <2>1. \A g \in Files : disk'[g] \in Nat /\ disk[g] <= disk'[g]
    BY <1>1, <1>5 DEF Publish, CacheTypeOK
  <2>2. \A g \in Files : P[g] <= disk'[g]
    BY <1>1, <2>1
  <2> QED BY <1>1, <1>2, <1>5, <2>2 DEF Publish, StaysHonoured
<1>6. CASE EntryExpires \/ BriefExpires \/ ReloadPrompts
  BY <1>1, <1>2, <1>3, <1>4, <1>6 DEF EntryExpires, BriefExpires, ReloadPrompts, resetPromptCaches, StaysHonoured
<1>7. CASE UNCHANGED vars
  BY <1>1, <1>2, <1>7 DEF vars, StaysHonoured
<1>8. ASSUME NEW l \in Loads, BeginLoad(l) \/ Load(l) PROVE StaysHonoured(P)
  <2>1. PICK q : LoadsTo(l, q)
    BY <1>8, LoadIs
  <2>2. \A m \in Loads : load'[m] = IF m = l THEN q ELSE load[m]
    BY <2>1 DEF LoadsTo, CacheTypeOK
  <2>3. \A f \in Parts \cup {"prompt"} : Since(q.got[f], P, f)
    <3> SUFFICES ASSUME NEW f \in Parts \cup {"prompt"} PROVE Since(q.got[f], P, f)
      OBVIOUS
    <3>1. q.got[f] \in {load[l].got[f], Unread, 0, disk[f]}
      BY <2>1 DEF LoadsTo
    <3> QED BY <1>1, <1>3, <1>4, <3>1
  <2>4. /\ disk' = disk /\ routing' = routing /\ reload' = reload
        /\ prompt' = prompt \/ prompt' = load[l].got["prompt"]
        /\ \/ entry' = entry \/ entry' = NoEntry
           \/ \A p \in Parts : entry'.parts[p] = load[l].got[p]
    BY <1>8, LoadIs
  <2>5. \A m \in Loads : \A f \in Parts \cup {"prompt"} : Since(load'[m].got[f], P, f)
    BY <1>1, <2>2, <2>3
  <2>6. Since(prompt', P, "prompt")
    BY <1>1, <2>4
  <2>7. EntryHonours(P) =>
          (entry'.state = "full" => \A p \in Parts : Since(entry'.parts[p], P, p))
    BY <1>1, <1>2, <1>3, <2>4
  <2> QED BY <1>1, <1>2, <2>4, <2>5, <2>6, <2>7 DEF StaysHonoured
<1>9. ASSUME NEW a \in Reloads, BeginReload(a) \/ Reload(a) PROVE StaysHonoured(P)
  <2>1. PICK q : ReloadsTo(a, q)
    BY <1>9, ReloadIs
  <2>2. \A b \in Reloads : reload'[b] = IF b = a THEN q ELSE reload[b]
    BY <2>1 DEF ReloadsTo, CacheTypeOK
  <2>3. Since(q.routing, P, "routing")
    <3>1. q.routing \in {reload[a].routing, 0, disk["routing"]}
      BY <2>1 DEF ReloadsTo
    <3> QED BY <1>1, <1>3, <1>4, <3>1
  <2>4. /\ disk' = disk /\ load' = load
        /\ entry' = entry \/ entry' = NoEntry
        /\ prompt' = prompt \/ prompt' = 0
        /\ routing' \in {routing, reload[a].routing, 0}
    BY <1>9, ReloadIs
  <2>5. Since(prompt', P, "prompt") /\ (RoutingHonours(P) => Since(routing', P, "routing"))
    BY <1>1, <1>2, <1>3, <1>4, <2>4
  <2>6. EntryHonours(P) =>
          (entry'.state = "full" => \A p \in Parts : Since(entry'.parts[p], P, p))
    BY <1>2, <1>3, <2>4
  <2>7. \A b \in Reloads : Since(reload'[b].routing, P, "routing")
    BY <1>1, <2>2, <2>3
  <2> QED BY <1>1, <2>4, <2>5, <2>6, <2>7 DEF StaysHonoured
<1>10. CASE Restart
  <2>1. /\ disk' = disk /\ entry' = entry /\ prompt' = 0 /\ routing' \in {disk["routing"], 0}
        /\ reload' = [a \in Reloads |-> NoReload]
        /\ \A l \in Loads : load'[l] = load[l] \/ load'[l] = NoLoad
    BY <1>10, RestartIs
  <2>2. \A l \in Loads : \A f \in Parts \cup {"prompt"} : Since(load'[l].got[f], P, f)
    BY <1>1, <1>3, <1>4, <2>1, EmptyIs
  <2>3. \A a \in Reloads : Since(reload'[a].routing, P, "routing")
    BY <1>3, <1>4, <2>1, EmptyIs
  <2> QED BY <1>1, <1>2, <1>3, <1>4, <2>1, <2>2, <2>3 DEF StaysHonoured
<1>11. CASE \E f \in Files : Publish(f)
  BY <1>5, <1>11
<1>12. CASE \E l \in Loads : BeginLoad(l) \/ Load(l)
  BY <1>8, <1>12
<1>13. CASE \E a \in Reloads : BeginReload(a) \/ Reload(a)
  BY <1>9, <1>13
<1> QED BY <1>6, <1>7, <1>10, <1>11, <1>12, <1>13, CacheSteps

\* After a step a promise is honoured by what the caches and the loads then hold.
LEMMA HonouredNext ==
  ASSUME NEW P, StaysHonoured(P)
  PROVE  /\ Honoured(P)'
         /\ RoutingHonours(P) \/ routing' = 0 => RoutingHonours(P)'
         /\ EntryHonours(P) \/ entry' = NoEntry => EntryHonours(P)'
<1>1. NoEntry.state # "full"
  BY EmptyIs
<1>2. Since(0, P, "routing")
  BY DEF Since
<1>3. Honoured(P)'
  BY DEF StaysHonoured, Honoured, Since
<1>4. RoutingHonours(P) \/ routing' = 0 => RoutingHonours(P)'
  BY <1>2 DEF StaysHonoured, RoutingHonours, Since
<1>5. EntryHonours(P) \/ entry' = NoEntry => EntryHonours(P)'
  BY <1>1 DEF StaysHonoured, EntryHonours, Since
<1> QED BY <1>3, <1>4, <1>5

\* A promise of nothing, and the promise of a reload that begins alone, are
\* honoured from the beginning.
LEMMA NewIsHonoured ==
  ASSUME CacheTypeOK, Points, [Next]_vars
  PROVE  /\ Honoured(Nothing)' /\ RoutingHonours(Nothing)' /\ EntryHonours(Nothing)'
<1>1. CacheTypeOK'
  BY CacheTypeStays
<1> QED BY <1>1, NothingIsHonoured, PTL

\* What a reload promises after a step is honoured as far as it has come.
LEMMA ReloadPromisesStay ==
  ASSUME CacheTypeOK, Points, Promises, [Next]_vars, NEW b \in Reloads
  PROVE  /\ Honoured(reload[b].promises)'
         /\ reload'[b].pc \notin {"idle", "validate"} => RoutingHonours(reload[b].promises)'
         /\ reload'[b].pc = "reply" => EntryHonours(reload[b].promises)'
<1>1. /\ CacheTypeOK' /\ reload[b] \in ReloadStates
      /\ Honoured(reload[b].promises)
      /\ reload[b].pc \notin {"idle", "validate"} => RoutingHonours(reload[b].promises)
      /\ reload[b].pc = "reply" => EntryHonours(reload[b].promises)
  BY CacheTypeStays DEF CacheTypeOK, Promises
<1>2. PICK P \in [Files -> Nat] : P = reload[b].promises
  BY <1>1 DEF ReloadStates
<1>3. StaysHonoured(P)
  BY <1>1, <1>2, PromiseStays
<1>4. /\ Honoured(P)'
      /\ RoutingHonours(P) \/ routing' = 0 => RoutingHonours(P)'
      /\ EntryHonours(P) \/ entry' = NoEntry => EntryHonours(P)'
  BY <1>3, HonouredNext
<1>5. Honoured(Nothing)' /\ RoutingHonours(Nothing)' /\ EntryHonours(Nothing)'
  BY NewIsHonoured
<1>6. ASSUME reload'[b].promises = Nothing
      PROVE  Honoured(reload[b].promises)' /\ RoutingHonours(reload[b].promises)'
             /\ EntryHonours(reload[b].promises)'
  BY <1>5, <1>6 DEF Honoured, RoutingHonours, EntryHonours, Since
<1>7. ASSUME reload'[b].promises = reload[b].promises,
             reload'[b].pc \notin {"idle", "validate"} =>
               reload[b].pc \notin {"idle", "validate"} \/ routing' = 0,
             reload'[b].pc = "reply" => reload[b].pc = "reply" \/ entry' = NoEntry
      PROVE  /\ Honoured(reload[b].promises)'
             /\ reload'[b].pc \notin {"idle", "validate"} => RoutingHonours(reload[b].promises)'
             /\ reload'[b].pc = "reply" => EntryHonours(reload[b].promises)'
  <2>1. reload'[b].promises = P
    BY <1>2, <1>7
  <2>2. Honoured(reload[b].promises)'
    BY <1>4, <2>1 DEF Honoured, Since
  <2>3. reload'[b].pc \notin {"idle", "validate"} => RoutingHonours(P)'
    BY <1>1, <1>2, <1>4, <1>7
  <2>4. reload'[b].pc = "reply" => EntryHonours(P)'
    BY <1>1, <1>2, <1>4, <1>7
  <2> QED BY <2>1, <2>2, <2>3, <2>4 DEF RoutingHonours, EntryHonours, Since
<1>8. CASE reload' = reload
  BY <1>7, <1>8
<1>9. CASE Restart
  BY <1>6, <1>9, RestartIs, EmptyIs
<1>10. ASSUME NEW a \in Reloads, BeginReload(a) \/ Reload(a)
       PROVE  /\ Honoured(reload[b].promises)'
              /\ reload'[b].pc \notin {"idle", "validate"} => RoutingHonours(reload[b].promises)'
              /\ reload'[b].pc = "reply" => EntryHonours(reload[b].promises)'
  <2>1. PICK q : ReloadsTo(a, q)
    BY <1>10, ReloadIs
  <2>2. reload'[b] = IF b = a THEN q ELSE reload[b]
    BY <2>1 DEF ReloadsTo, CacheTypeOK
  <2>3. CASE b # a
    BY <1>7, <2>2, <2>3
  <2>4. CASE b = a /\ q.promises = Nothing
    BY <1>6, <2>2, <2>4
  <2>5. CASE b = a /\ q.promises = reload[a].promises /\ q.promises # Nothing
    <3>1. /\ q.pc \notin {"idle", "validate"} =>
               reload[a].pc \notin {"idle", "validate"} \/ routing' = 0
          /\ q.pc = "reply" => entry' = NoEntry
      BY <2>1, <2>5 DEF ReloadsTo
    <3> QED BY <1>7, <2>2, <2>5, <3>1
  <2>6. CASE b = a /\ q.promises = disk /\ Quiet /\ q.pc = "validate" /\ prompt' = 0
    <3>1. PICK D \in [Files -> Nat] : D = disk
      BY DEF CacheTypeOK
    <3>2. disk' = disk /\ load' = load /\ reload'[b].promises = D /\ reload'[b].pc = "validate"
      BY <1>10, <2>2, <2>6, <3>1, ReloadIs
    <3>3. \A f \in Files : D[f] <= disk'[f]
      BY <2>6, <3>1, <3>2, QuietIsHonoured
    <3>4. \A l \in Loads : \A f \in Parts \cup {"prompt"} : Since(load'[l].got[f], D, f)
      BY <2>6, <3>1, <3>2, QuietIsHonoured
    <3>5. Since(prompt', D, "prompt")
      BY <2>6 DEF Since
    <3>6. \A c \in Reloads : Since(reload'[c].routing, D, "routing")
      <4>1. \A c \in Reloads : reload[c].routing = 0
        BY <2>6, EmptyIs DEF Quiet, Points
      <4>2. q.routing \in {0, disk["routing"]}
        BY <2>1, <4>1 DEF ReloadsTo
      <4>3. Since(0, D, "routing") /\ Since(disk["routing"], D, "routing")
        BY <3>1, ConstantsAre, SinceIs
      <4>4. \A c \in Reloads : reload'[c] = IF c = a THEN q ELSE reload[c]
        BY <2>1 DEF ReloadsTo, CacheTypeOK
      <4> QED BY <4>1, <4>2, <4>3, <4>4
    <3>7. Honoured(D)'
      BY <3>3, <3>4, <3>5, <3>6 DEF Honoured, Since
    <3> QED BY <3>2, <3>7 DEF Honoured, Since
  <2> QED BY <2>1, <2>3, <2>4, <2>5, <2>6 DEF ReloadsTo
<1>11. CASE reload' # reload /\ ~Restart
  <2>1. \A f \in Files : Publish(f) => reload' = reload
    BY DEF Publish
  <2>2. EntryExpires \/ BriefExpires \/ ReloadPrompts \/ UNCHANGED vars => reload' = reload
    BY DEF EntryExpires, BriefExpires, ReloadPrompts, vars
  <2>3. \A l \in Loads : BeginLoad(l) \/ Load(l) => reload' = reload
    BY LoadIs
  <2>4. \E a \in Reloads : BeginReload(a) \/ Reload(a)
    BY <1>11, <2>1, <2>2, <2>3, CacheSteps
  <2> QED BY <1>10, <2>4
<1> QED BY <1>8, <1>9, <1>11

\* What the answered reloads promise stays honoured; the promise of the one that is
\* answered was.
LEMMA PromisedStays ==
  ASSUME CacheTypeOK, Points, Promises, [Next]_vars
  PROVE  Honoured(promised)' /\ RoutingHonours(promised)' /\ EntryHonours(promised)'
<1>1. /\ promised \in [Files -> Nat]
      /\ \A a \in Reloads : reload[a].promises \in [Files -> Nat]
  BY DEF CacheTypeOK, ReloadStates
<1>2. PICK P \in [Files -> Nat] :
        P = promised' /\ Honoured(P) /\ RoutingHonours(P) /\ EntryHonours(P)
  <2>1. CASE promised' = promised
    BY <1>1, <2>1 DEF Promises
  <2>2. ASSUME NEW a \in Reloads, promised' = reload[a].promises, reload[a].pc = "reply"
        PROVE  \E P \in [Files -> Nat] :
                 P = promised' /\ Honoured(P) /\ RoutingHonours(P) /\ EntryHonours(P)
    <3>1. /\ Honoured(reload[a].promises) /\ RoutingHonours(reload[a].promises)
          /\ EntryHonours(reload[a].promises)
      BY <2>2 DEF Promises
    <3> QED BY <1>1, <2>2, <3>1
  <2>3. promised' = promised
        \/ \E a \in Reloads : promised' = reload[a].promises /\ reload[a].pc = "reply"
    <3>1. \A f \in Files : Publish(f) => promised' = promised
      BY DEF Publish
    <3>2. EntryExpires \/ BriefExpires \/ ReloadPrompts \/ UNCHANGED vars => promised' = promised
      BY DEF EntryExpires, BriefExpires, ReloadPrompts, vars
    <3>3. \A l \in Loads : BeginLoad(l) \/ Load(l) => promised' = promised
      BY LoadIs
    <3>4. Restart => promised' = promised
      BY RestartIs
    <3>5. \A a \in Reloads : BeginReload(a) \/ Reload(a) =>
            promised' = promised \/ (promised' = reload[a].promises /\ reload[a].pc = "reply")
      BY ReloadIs
    <3> QED BY <3>1, <3>2, <3>3, <3>4, <3>5, CacheSteps
  <2> QED BY <2>1, <2>2, <2>3
<1>3. StaysHonoured(P)
  BY <1>2, PromiseStays
<1>4. Honoured(P)' /\ RoutingHonours(P)' /\ EntryHonours(P)'
  BY <1>2, <1>3, HonouredNext
<1> QED BY <1>2, <1>4 DEF Honoured, RoutingHonours, EntryHonours, Since

-----------------------------------------------------------------------------
(* Theorems. *)

\* The invariant is inductive.
LEMMA CacheInvHolds == Spec => []CacheInv
<1>1. Init => CacheInv
  <2> SUFFICES ASSUME Init PROVE CacheInv
    OBVIOUS
  <2>1. CacheTypeOK
    BY CacheTypeHolds
  <2>2. Points
    BY EmptyIs DEF Init, Points
  <2>3. promised = Nothing /\ \A a \in Reloads : reload[a].promises = Nothing
    BY EmptyIs DEF Init
  <2>4. Honoured(Nothing) /\ RoutingHonours(Nothing) /\ EntryHonours(Nothing)
    BY <2>1, NothingIsHonoured
  <2> QED BY <2>1, <2>2, <2>3, <2>4 DEF CacheInv, Promises
<1>2. CacheInv /\ [Next]_vars => CacheInv'
  <2> SUFFICES ASSUME CacheInv, [Next]_vars PROVE CacheInv'
    OBVIOUS
  <2>1. CacheTypeOK /\ Points /\ Promises
    BY DEF CacheInv
  <2>2. CacheTypeOK' /\ Points'
    BY <2>1, CacheTypeStays
  <2>3. \A b \in Reloads :
          /\ Honoured(reload[b].promises)'
          /\ reload'[b].pc \notin {"idle", "validate"} => RoutingHonours(reload[b].promises)'
          /\ reload'[b].pc = "reply" => EntryHonours(reload[b].promises)'
    BY <2>1, ReloadPromisesStay
  <2>4. Honoured(promised)' /\ RoutingHonours(promised)' /\ EntryHonours(promised)'
    BY <2>1, PromisedStays
  <2>5. Promises'
    BY <2>3, <2>4 DEF Promises
  <2> QED BY <2>2, <2>5 DEF CacheInv
<1> QED BY <1>1, <1>2, PTL DEF Spec

\* The content of the caches, the loads and the reloads is well-typed in every
\* behaviour, and a load that has something to cache has read it.
THEOREM CacheTypeCorrect == Spec => [](CacheTypeOK /\ Points)
<1>1. CacheInv => CacheTypeOK /\ Points
  BY DEF CacheInv
<1> QED BY <1>1, CacheInvHolds, PTL

\* A reload that nothing else was under way with takes effect for good, whatever
\* loads, failures, restarts and reloads follow (reload-config.ts).
THEOREM ReloadsTakeEffect == Spec => []ReloadTakesEffect
<1>1. CacheInv => ReloadTakesEffect
  <2> SUFFICES ASSUME CacheInv PROVE ReloadTakesEffect
    OBVIOUS
  <2>1. CacheTypeOK /\ Honoured(promised) /\ RoutingHonours(promised) /\ EntryHonours(promised)
    BY DEF CacheInv, Promises
  <2>2. prompt \in Nat /\ routing \in Nat /\ \A p \in Parts : entry.parts[p] \in Nat
    BY <2>1 DEF CacheTypeOK
  <2>3. \A v \in Nat, f \in Files : Since(v, promised, f) => v = 0 \/ v >= promised[f]
    BY DEF Since
  <2>4. Since(prompt, promised, "prompt") /\ Since(routing, promised, "routing")
    BY <2>1 DEF Honoured, RoutingHonours
  <2>5. entry.state = "full" => \A p \in Parts : Since(entry.parts[p], promised, p)
    BY <2>1 DEF EntryHonours
  <2> QED BY <2>2, <2>3, <2>4, <2>5, ConstantsAre DEF ReloadTakesEffect
<1> QED BY <1>1, CacheInvHolds, PTL
================================================================================

----------------------------- MODULE ContentCache -----------------------------
(***************************************************************************)
(* The files the program reads at run time and their caches: a milestone's *)
(* content in Redis (createContentLoader, in the API and in the worker),   *)
(* the brief the tutor caches in Redis on its own (loadMilestoneBrief), a  *)
(* prompt template kept in the API process (createContextAssembler and its *)
(* twin), the model routing (config-loader.ts), and the administrator's    *)
(* reload of all this (reload-config.ts).                                  *)
(*                                                                         *)
(* A file is a version number; 0 stands for what a failed read leaves:     *)
(* null, an empty list, the default configuration.  Files change one by    *)
(* one, and every await is a step, so a load may read some files before a  *)
(* change and fill its cache after an invalidation.                        *)
(***************************************************************************)
EXTENDS Integers, FiniteSets, Functions

CONSTANTS
  Parts,       \* the files a milestone is read from
  Loads,       \* loads that may be under way together
  Reloads,     \* reload requests that may be under way together
  MaxChanges,  \* changes of files
  MaxFailures  \* rejected reads and Redis calls

ASSUME ContentAssumption ==
  /\ "brief" \in Parts
  /\ {MaxChanges, MaxFailures} \subseteq Nat
  /\ IsFiniteSet(Loads) /\ IsFiniteSet(Reloads)

\* The brief is read by the tutor, too.
Files == Parts \cup {"prompt", "routing"}

VARIABLES
  disk,      \* the version of each file
  entry,     \* curriculum:milestone:{slug}
  brief,     \* tutor:brief:{slug}
  prompt,    \* cachedBasePrompt; 0 is null
  routing,   \* cachedConfig; 0 is null and DEFAULT_CONFIG
  load,      \* each of Loads: a caller of one of the three loaders
  reload,    \* each of Reloads: a handler of POST /reload-config
  promised,  \* history: what the answered reloads found on disk (see Reply)
  failures   \* calls rejected so far

vars == <<disk, entry, brief, prompt, routing, load, reload, promised, failures>>

Versions == 0 .. MaxChanges + 1
Unread == -1
AllUnread == [f \in Parts \cup {"prompt"} |-> Unread]

NoEntry == [state |-> "none", parts |-> [p \in Parts |-> 0]]
OldEntry == [NoEntry EXCEPT !.state = "old"]
NoLoad == [pc |-> "idle", got |-> AllUnread]
Nothing == [f \in Files |-> 0]
NoReload == [pc |-> "idle", routing |-> 0, promises |-> Nothing]

\* The cache may hold an entry of an earlier release.
Init ==
  /\ disk = [f \in Files |-> 1]
  /\ entry \in {NoEntry, OldEntry}
  /\ brief = 0
  /\ prompt = 0
  /\ routing = 1
  /\ load = [l \in Loads |-> NoLoad]
  /\ reload = [a \in Reloads |-> NoReload]
  /\ promised = Nothing
  /\ failures = 0

-----------------------------------------------------------------------------
(* The world. *)

\* A deployment changes one file.
Publish(f) ==
  /\ SumFunction(disk) < Cardinality(Files) + MaxChanges
  /\ disk' = [disk EXCEPT ![f] = @ + 1]
  /\ UNCHANGED <<entry, brief, prompt, routing, load, reload, promised, failures>>

\* Mutant: SET without EX.
EntryStays == UNCHANGED vars

\* EX 3600.
EntryExpires ==
  /\ entry' = NoEntry
  /\ UNCHANGED <<disk, brief, prompt, routing, load, reload, promised, failures>>

BriefExpires ==
  /\ brief' = 0
  /\ UNCHANGED <<disk, entry, prompt, routing, load, reload, promised, failures>>

\* A rejected call; MaxFailures bounds them.
Rejects == failures < MaxFailures /\ failures' = failures + 1

-----------------------------------------------------------------------------
(* The loaders. *)

Goes(l, from, q) ==
  /\ load[l].pc = from
  /\ load' = [load EXCEPT ![l] = q]

Moves(l, from, to) == Goes(l, from, [load[l] EXCEPT !.pc = to])

\* A load reads file f, or null, and goes on to the point "to".
Reads(l, from, f, to) ==
  \/ /\ Goes(l, from, [pc |-> to, got |-> [load[l].got EXCEPT ![f] = disk[f]]])
     /\ UNCHANGED failures
  \/ /\ Goes(l, from, [pc |-> to, got |-> [load[l].got EXCEPT ![f] = 0]])
     /\ Rejects

Begin(l, pc) ==
  /\ Moves(l, "idle", pc)
  /\ UNCHANGED <<disk, entry, brief, prompt, routing, reload, promised, failures>>

\* loadAndCache: a hit, an entry without the newer fields, or a miss.
Get(l) ==
  /\ \/ entry.state = "full" /\ Goes(l, "get", NoLoad)
     \/ entry.state = "old"  /\ Moves(l, "get", "del")
     \/ entry.state = "none" /\ Moves(l, "get", "read")
  /\ UNCHANGED <<disk, entry, brief, prompt, routing, reload, promised, failures>>

DelOld(l) ==
  /\ Moves(l, "del", "read")
  /\ entry' = NoEntry
  /\ UNCHANGED <<disk, brief, prompt, routing, reload, promised, failures>>

\* Promise.all: the files are read in any order.
ReadPart(l, p) ==
  /\ load[l].got[p] = Unread
  /\ Reads(l, "read", p, "read")
  /\ UNCHANGED <<disk, entry, brief, prompt, routing, reload, promised>>

Set(l) ==
  LET got == load[l].got IN
  /\ \A p \in Parts : got[p] # Unread
  /\ Goes(l, "read", NoLoad)
  /\ entry' = [state |-> "full", parts |-> [p \in Parts |-> got[p]]]
  /\ UNCHANGED <<disk, brief, prompt, routing, reload, promised, failures>>

\* loadMilestoneBrief: a hit ends the load, and so does a failed read, which is
\* not cached.
GetBrief(l) ==
  /\ Goes(l, "getBrief", IF brief # 0 THEN NoLoad ELSE [NoLoad EXCEPT !.pc = "readBrief"])
  /\ UNCHANGED <<disk, entry, brief, prompt, routing, reload, promised, failures>>

ReadBrief(l) ==
  /\ Reads(l, "readBrief", "brief", "setBrief")
  /\ UNCHANGED <<disk, entry, brief, prompt, routing, reload, promised>>

SetBrief(l) ==
  LET version == load[l].got["brief"] IN
  /\ Goes(l, "setBrief", NoLoad)
  /\ brief' = IF version = 0 THEN brief ELSE version
  /\ UNCHANGED <<disk, entry, prompt, routing, reload, promised, failures>>

\* loadBasePrompt: a read under way knows nothing of a reset.
GetPrompt(l) ==
  /\ Goes(l, "getPrompt", IF prompt # 0 THEN NoLoad ELSE [NoLoad EXCEPT !.pc = "readPrompt"])
  /\ UNCHANGED <<disk, entry, brief, prompt, routing, reload, promised, failures>>

ReadPrompt(l) ==
  /\ Reads(l, "readPrompt", "prompt", "setPrompt")
  /\ UNCHANGED <<disk, entry, brief, prompt, routing, reload, promised>>

SetPrompt(l) ==
  LET version == load[l].got["prompt"] IN
  /\ Goes(l, "setPrompt", NoLoad)
  /\ prompt' = IF version = 0 THEN prompt ELSE version
  /\ UNCHANGED <<disk, entry, brief, routing, reload, promised, failures>>

\* Redis rejects GET, DEL or SET: the error is thrown to the caller.
LoadFails(l) ==
  /\ \/ load[l].pc \in {"get", "del", "getBrief"}
     \/ load[l].pc = "read" /\ \A p \in Parts : load[l].got[p] # Unread
     \/ load[l].pc = "setBrief"
  /\ load' = [load EXCEPT ![l] = NoLoad]
  /\ Rejects
  /\ UNCHANGED <<disk, entry, brief, prompt, routing, reload, promised>>

Load(l) ==
  \/ Get(l) \/ DelOld(l) \/ (\E p \in Parts : ReadPart(l, p)) \/ Set(l)
  \/ GetBrief(l) \/ ReadBrief(l) \/ SetBrief(l)
  \/ GetPrompt(l) \/ ReadPrompt(l) \/ SetPrompt(l)
  \/ LoadFails(l)

BeginLoad(l) == \E pc \in {"get", "getBrief", "getPrompt"} : Begin(l, pc)

-----------------------------------------------------------------------------
(* The reload. *)

Advances(a, from, q) ==
  /\ reload[a].pc = from
  /\ reload' = [reload EXCEPT ![a] = q]

resetPromptCaches == prompt' = 0

\* Both handlers begin by it; that of /reload-prompts does no more than answer.
\* History: it promises what it finds on disk if nothing else is under way.
BeginReload(a) ==
  LET quiet == /\ \A l \in Loads : load[l].pc = "idle"
               /\ \A b \in Reloads : reload[b].pc = "idle" IN
  /\ Advances(a, "idle",
              [NoReload EXCEPT !.pc = "validate", !.promises = IF quiet THEN disk ELSE Nothing])
  /\ resetPromptCaches
  /\ UNCHANGED <<disk, entry, brief, routing, load, promised, failures>>

ReloadPrompts ==
  /\ resetPromptCaches
  /\ UNCHANGED <<disk, entry, brief, routing, load, reload, promised, failures>>

\* A template that cannot be read is an error of the answer (no promise is kept)
\* and the reload goes on; the routing is reset at once.
Validate(a) ==
  /\ \/ Advances(a, "validate", [reload[a] EXCEPT !.pc = "readRouting"]) /\ UNCHANGED failures
     \/ Advances(a, "validate", [NoReload EXCEPT !.pc = "readRouting"]) /\ Rejects
  /\ routing' = 0
  /\ UNCHANGED <<disk, entry, brief, prompt, load, promised>>

\* A file that is missing or not valid is no error: the default is cached.
ReadRouting(a) ==
  /\ \/ /\ Advances(a, "readRouting", [reload[a] EXCEPT !.pc = "setRouting", !.routing = disk["routing"]])
        /\ UNCHANGED failures
     \/ /\ Advances(a, "readRouting", [reload[a] EXCEPT !.pc = "setRouting", !.routing = 0])
        /\ Rejects
  /\ UNCHANGED <<disk, entry, brief, prompt, routing, load, promised>>

\* Mutant: the configuration in use is kept.
KeepRouting(a) ==
  /\ Advances(a, "setRouting", [reload[a] EXCEPT !.pc = "keys", !.routing = 0])
  /\ UNCHANGED <<disk, entry, brief, prompt, routing, load, promised, failures>>

SetRouting(a) ==
  /\ Advances(a, "setRouting", [reload[a] EXCEPT !.pc = "keys", !.routing = 0])
  /\ routing' = reload[a].routing
  /\ UNCHANGED <<disk, entry, brief, prompt, load, promised, failures>>

\* invalidateAllCaches: KEYS curriculum:milestone:*, then DEL of what it found.
Keys(a) ==
  /\ Advances(a, "keys", [reload[a] EXCEPT !.pc = IF entry = NoEntry THEN "reply" ELSE "delEntry"])
  /\ UNCHANGED <<disk, entry, brief, prompt, routing, load, promised, failures>>

\* Mutant: KEYS and no DEL.
DelNothing(a) ==
  /\ Advances(a, "delEntry", [reload[a] EXCEPT !.pc = "reply"])
  /\ UNCHANGED <<disk, entry, brief, prompt, routing, load, promised, failures>>

DelEntry(a) ==
  /\ Advances(a, "delEntry", [reload[a] EXCEPT !.pc = "reply"])
  /\ entry' = NoEntry
  /\ UNCHANGED <<disk, brief, prompt, routing, load, promised, failures>>

RedisRejects(a) ==
  /\ \E from \in {"keys", "delEntry"} : Advances(a, from, [NoReload EXCEPT !.pc = "reply"])
  /\ Rejects
  /\ UNCHANGED <<disk, entry, brief, prompt, routing, load, promised>>

Reply(a) ==
  /\ Advances(a, "reply", NoReload)
  /\ promised' = IF reload[a].promises = Nothing THEN promised ELSE reload[a].promises
  /\ UNCHANGED <<disk, entry, brief, prompt, routing, load, failures>>

Reload(a) ==
  \/ Validate(a) \/ ReadRouting(a) \/ SetRouting(a) \/ Keys(a) \/ DelEntry(a)
  \/ RedisRejects(a) \/ Reply(a)

\* The API starts again: its memory and its requests are lost, but not the
\* worker's loads, and the routing is read as it starts.
Restart ==
  /\ prompt' = 0
  /\ \/ routing' = disk["routing"] /\ UNCHANGED failures
     \/ routing' = 0 /\ Rejects
  /\ \E worker \in SUBSET {l \in Loads : load[l].pc \in {"get", "del", "read"}} :
       load' = [l \in Loads |-> IF l \in worker THEN load[l] ELSE NoLoad]
  /\ reload' = [a \in Reloads |-> NoReload]
  /\ UNCHANGED <<disk, entry, brief, promised>>

Next ==
  \/ \E f \in Files : Publish(f)
  \/ EntryExpires \/ BriefExpires
  \/ \E l \in Loads : BeginLoad(l) \/ Load(l)
  \/ \E a \in Reloads : BeginReload(a) \/ Reload(a)
  \/ ReloadPrompts
  \/ Restart

\* Time passes, and a load or a reload under way takes its steps.
Fairness ==
  /\ WF_vars(EntryExpires) /\ WF_vars(BriefExpires)
  /\ \A l \in Loads : WF_vars(Load(l))
  /\ \A a \in Reloads : WF_vars(Reload(a))

Spec == Init /\ [][Next]_vars /\ Fairness

-----------------------------------------------------------------------------
(* Properties. *)

\* What the caches hold, were promised and are reading is a version of a file
\* or a failed read, and no value is on its way into a cache without a caller.
ContentTypeOK ==
  /\ disk \in [Files -> Versions \ {0}]
  /\ entry \in [state: {"none", "old", "full"}, parts: [Parts -> Versions]]
  /\ {brief, prompt, routing} \subseteq Versions
  /\ load \in [Loads ->
       [pc: {"idle", "get", "del", "read", "getBrief", "readBrief", "setBrief",
             "getPrompt", "readPrompt", "setPrompt"},
        got: [Parts \cup {"prompt"} -> Versions \cup {Unread}]]]
  /\ reload \in [Reloads ->
       [pc: {"idle", "validate", "readRouting", "setRouting", "keys", "delEntry", "reply"},
        routing: Versions, promises: [Files -> Versions]]]
  /\ promised \in [Files -> Versions]
  /\ failures \in 0 .. MaxFailures

\* A reload that began while no load and no other reload was under way, and
\* that was answered without an error, took effect: no load that follows, and
\* no failure, restart or later reload, brings back content, a template or a
\* routing older than the files it found (reload-config.ts, createContentLoader,
\* loadBasePrompt, loadModelRoutingConfigAsync).  With a load under way this
\* fails: it fills the cache with what it read before.
ReloadTakesEffect ==
  LET Fresh(version, f) == version = 0 \/ version >= promised[f] IN
  /\ entry.state = "full" => \A p \in Parts : Fresh(entry.parts[p], p)
  /\ Fresh(prompt, "prompt")
  /\ Fresh(routing, "routing")

\* Once the files stay as they are and calls succeed, the cached content and the
\* tutor's brief are up to date, whatever stale value a late load had put there
\* and whatever null a failed read had left: both expire (EX 3600 of
\* loadAndCache and loadMilestoneBrief).
ContentCatchesUp ==
  <>[]( /\ entry.state # "none" => entry.state = "full" /\ \A p \in Parts : entry.parts[p] = disk[p]
        /\ brief \in {0, disk["brief"]} )

\* The template and the routing do not expire.  If the administrator reloads
\* again and again they catch up with the files, in spite of loads that were
\* under way during a reload and of two reloads at a time.
PromptsCatchUp ==
  (\E a \in Reloads : []<>(reload[a].pc = "validate")) =>
     <>[](/\ prompt \in {0, disk["prompt"]}
          /\ (\A a \in Reloads : reload[a].pc \notin {"readRouting", "setRouting"}) => routing = disk["routing"])
=============================================================================

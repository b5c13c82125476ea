-------------------------------- MODULE Bridge --------------------------------
(***************************************************************************)
(* The Ollama bridge (routers/ollama_bridge.py).  `auto' is given a        *)
(* concrete model (resolve_chat_model of ollama.py); a chat request loses  *)
(* its tools if the cached capabilities of its model lack them, and        *)
(* /api/tags and /api/show advertise `auto' with those of the model it     *)
(* stands for.                                                             *)
(*                                                                         *)
(* A request asks Ollama up to six times, and each time its inventory may  *)
(* be another: administrators pull and delete models, and Ollama loads and *)
(* unloads them.  The cache lives as long as the process.                  *)
(***************************************************************************)
EXTENDS Naturals

CONSTANTS
    ChatModels,
    EmbeddingModels,    \* tags with "embed" in them
    Rank,               \* of each tag, by size and then name
    Base,               \* of each tag, its name without what follows ":"
    Latest,             \* of each name without ":", the tag name:latest
    Default,            \* settings.default_chat_model
    AutoModel,          \* AUTO_MODEL_ID
    Requests,           \* those ever made
    Asked,              \* the names that clients ask for, besides `auto'
    ChangeBound,        \* changes of the inventory and restarts
    None

Models == ChatModels \cup EmbeddingModels
Bare == {Base[m] : m \in Models}
Names == Models \cup Bare

Abilities == {"tools", "plain"}

ASSUME RankAssumption ==
    /\ Rank \in [Models -> Nat]
    /\ \A m, n \in Models : Rank[m] = Rank[n] => m = n
ASSUME NameAssumption ==
    /\ ChatModels \cap EmbeddingModels = {}
    /\ DOMAIN Base = Models
    /\ Bare \cap Models = {}
    /\ Latest \in [Bare -> Models]
    /\ \A b \in Bare : Base[Latest[b]] = b
    /\ AutoModel \notin Names /\ None \notin Names \cup Abilities /\ None # AutoModel
    /\ Default \in Names
    /\ Asked \subseteq Names
ASSUME ChangeAssumption == ChangeBound \in Nat

\* What "tools" and "generate" stand for: chat with tools, and the other
\* paths whose body names a model.
Kinds == {"tools", "generate", "tags", "show"}

VARIABLES
    inventory,  \* /api/tags: "none", or what the tag can do
    loaded,     \* /api/ps
    cache,      \* _capabilities_cache: None, "tools" or "plain"
    changes,
    pc, kind, want, model,
    tools,      \* the request goes on, or `auto' is advertised, with tools
    (***********************************************************************)
    (* History, read by no action.                                         *)
    (***********************************************************************)
    seen,       \* tags installed or loaded since a request arrived
    was,        \* what a tag has been since the process started
    missed,     \* names of which a lookup learned nothing
    ownMiss     \* requests whose own lookup learned nothing

ollama == <<inventory, loaded, changes>>
asked == <<kind, want, seen>>
vars == <<ollama, cache, pc, asked, model, tools, was, missed, ownMiss>>

Known == {"cache", "tags", "show", "upstream", "send"}

TypeOK ==
    /\ inventory \in [Models -> Abilities \cup {"none"}]
    /\ loaded \subseteq Models
    /\ cache \in [Names -> Abilities \cup {None}]
    /\ changes \in 0 .. ChangeBound
    /\ pc \in [Requests -> {"idle", "done", "running", "smallest", "default", "any"} \cup Known]
    /\ kind \in [Requests -> Kinds]
    /\ want \in [Requests -> Names \cup {AutoModel}]
    /\ model \in [Requests -> Names \cup {None}]
    /\ \A q \in Requests : pc[q] \in Known \ {"send"} => model[q] # None
    /\ tools \in [Requests -> BOOLEAN]
    /\ seen \in [Requests -> SUBSET Models]
    /\ was \in [Models -> SUBSET Abilities]
    /\ missed \subseteq Names
    /\ ownMiss \subseteq Requests

Available(inv, ld) == {m \in Models : inv[m] # "none"} \cup ld
Abilities0(inv) == [m \in Models |-> {inv[m]} \ {"none"}]

\* The listed tags a name stands for: itself, or all of its variants.
Matching(n) == IF n \in Models THEN {n} ELSE {m \in Models : Base[m] = n}

\* The tag that Ollama takes a name for.
Denoted(n) == IF n \in Models THEN n ELSE Latest[n]

Init ==
    /\ inventory \in [Models -> Abilities \cup {"none"}]
    /\ \A m \in EmbeddingModels : inventory[m] # "tools"
    /\ loaded = {}
    /\ changes = 0
    /\ cache = [n \in Names |-> None]
    /\ pc = [q \in Requests |-> "idle"]
    /\ kind = [q \in Requests |-> "generate"]
    /\ want = [q \in Requests |-> AutoModel]
    /\ model = [q \in Requests |-> None]
    /\ tools = [q \in Requests |-> FALSE]
    /\ seen = [q \in Requests |-> {}]
    /\ was = Abilities0(inventory)
    /\ missed = {}
    /\ ownMiss = {}

Goto(q, label) == pc' = [pc EXCEPT ![q] = label]

\* What comes after the model is known: its capabilities, if they matter.
AskedFor(k) ==
    IF k = "generate" THEN "send" ELSE IF k = "show" THEN "upstream" ELSE "cache"

Resolved(q, m) ==
    /\ Goto(q, AskedFor(kind[q]))
    /\ model' = [model EXCEPT ![q] = m]

End(q) ==
    /\ Goto(q, "done")
    /\ kind' = [kind EXCEPT ![q] = "generate"]
    /\ want' = [want EXCEPT ![q] = AutoModel]
    /\ model' = [model EXCEPT ![q] = None]
    /\ tools' = [tools EXCEPT ![q] = FALSE]
    /\ seen' = [seen EXCEPT ![q] = {}]
    /\ ownMiss' = ownMiss \ {q}

\* A request that is neither about `auto' nor brings tools is passed on as it
\* is.
Ask(q, k, w) ==
    /\ pc[q] = "idle"
    /\ w # AutoModel => k = "tools"
    /\ kind' = [kind EXCEPT ![q] = k]
    /\ want' = [want EXCEPT ![q] = w]
    /\ seen' = [seen EXCEPT ![q] = Available(inventory, loaded)]
    /\ IF w = AutoModel
       THEN Goto(q, "running") /\ UNCHANGED model
       ELSE Goto(q, "cache") /\ model' = [model EXCEPT ![q] = w]
    /\ UNCHANGED <<ollama, cache, tools, was, missed, ownMiss>>

(***************************************************************************)
(* resolve_chat_model, pick_fastest_chat_model and pick_chat_model.        *)
(***************************************************************************)
resolving == <<ollama, cache, asked, tools, was, missed, ownMiss>>

PickLoadedAny(q) ==
    /\ pc[q] = "running"
    /\ IF loaded = {} THEN Goto(q, "smallest") /\ UNCHANGED model
       ELSE \E m \in loaded : Resolved(q, m)
    /\ UNCHANGED resolving

\* Any loaded chat model (the first, in Ollama's order).  A failure of
\* /api/ps counts as none.
PickLoaded(q) ==
    /\ pc[q] = "running"
    /\ \/ \E m \in loaded \cap ChatModels : Resolved(q, m)
       \/ Goto(q, "smallest") /\ UNCHANGED model
    /\ UNCHANGED resolving

Installed == {m \in Models : inventory[m] # "none"}

PickSmallest(q) ==
    LET usable == Installed \cap ChatModels
    IN  /\ pc[q] = "smallest"
        /\ IF usable = {}
           THEN Goto(q, "default") /\ UNCHANGED model
           ELSE \E m \in usable :
                    /\ \A n \in usable : Rank[m] <= Rank[n]
                    /\ Resolved(q, m)
        /\ UNCHANGED resolving

\* What resolve_installed may return for a name: the tag itself, any variant
\* of a bare name, or name:latest for a tag that is not installed.
StandIns(n) ==
    IF n \in Bare \cup Installed
    THEN Matching(n) \cap Installed
    ELSE {Latest[Base[n]]} \cap Installed

PickDefault(q) ==
    /\ pc[q] = "default"
    /\ IF StandIns(Default) \cap ChatModels = {}
       THEN Goto(q, "any") /\ UNCHANGED model
       ELSE \E m \in StandIns(Default) \cap ChatModels : Resolved(q, m)
    /\ UNCHANGED resolving

PickAnyUnchecked(q) ==
    /\ pc[q] = "any"
    /\ IF Installed \cap ChatModels = {}
       THEN Resolved(q, None)
       ELSE \E m \in Installed \cap ChatModels : Resolved(q, m)
    /\ UNCHANGED resolving

\* No chat model is installed: 400, "No chat model available for 'auto'",
\* except that /api/tags goes on without one.
PickAny(q) ==
    LET usable == Installed \cap ChatModels
    IN  /\ pc[q] = "any"
        /\ \/ /\ \E m \in usable : Resolved(q, m)
              /\ UNCHANGED <<asked, tools, ownMiss>>
           \/ /\ usable = {} /\ kind[q] = "tags"
              /\ Goto(q, "send")
              /\ UNCHANGED <<asked, model, tools, ownMiss>>
           \/ /\ usable = {} /\ kind[q] # "tags"
              /\ End(q)
        /\ UNCHANGED <<ollama, cache, was, missed>>

(***************************************************************************)
(* _capabilities_for, and the strip.                                       *)
(***************************************************************************)
looking == <<ollama, model, asked, was>>

Decide(q, ability) ==
    /\ tools' = [tools EXCEPT ![q] = ability = "tools"]
    /\ Goto(q, "send")

ReadCache(q) ==
    /\ pc[q] = "cache"
    /\ IF cache[model[q]] = None
       THEN Goto(q, "tags") /\ UNCHANGED tools
       ELSE Decide(q, cache[model[q]])
    /\ UNCHANGED <<looking, cache, missed, ownMiss>>

Learn(q, ability) ==
    /\ cache' = [cache EXCEPT ![model[q]] = ability]
    /\ Decide(q, ability)

ReadTagsOnly(q) ==
    /\ pc[q] = "tags"
    /\ \/ \E m \in Matching(model[q]) \cap Installed : Learn(q, inventory[m])
       \/ Learn(q, "plain")
    /\ UNCHANGED <<looking, missed, ownMiss>>

\* /api/tags tells the capabilities, of some tag that _names_match, or omits
\* them (as older versions do).
ReadTags(q) ==
    /\ pc[q] = "tags"
    /\ \/ \E m \in Matching(model[q]) \cap Installed : Learn(q, inventory[m])
       \/ Goto(q, "show") /\ UNCHANGED <<cache, tools>>
    /\ UNCHANGED <<looking, missed, ownMiss>>

\* Whatever was not learned is taken, and cached, as "completion" alone.
AssumePlain(q) ==
    /\ Learn(q, "plain")
    /\ missed' = missed \cup {model[q]}
    /\ ownMiss' = ownMiss \cup {q}

\* /api/show; it may fail, find no such model or tell no capabilities.
ShowModel(q) ==
    /\ pc[q] = "show"
    /\ \/ /\ Denoted(model[q]) \in Installed
          /\ Learn(q, inventory[Denoted(model[q])])
          /\ UNCHANGED <<missed, ownMiss>>
       \/ AssumePlain(q)
    /\ UNCHANGED looking

ShowAutoInventing(q) ==
    /\ pc[q] = "upstream"
    /\ \/ model[q] \in Installed /\ Decide(q, inventory[model[q]])
       \/ Decide(q, "tools")
    /\ UNCHANGED <<looking, cache, missed, ownMiss>>

\* /api/show of `auto' asks Ollama about the model it stands for.  An error,
\* or an answer without capabilities, is filled in by _capabilities_for.
ShowAuto(q) ==
    /\ pc[q] = "upstream"
    /\ \/ model[q] \in Installed /\ Decide(q, inventory[model[q]])
       \/ Goto(q, "cache") /\ UNCHANGED tools
    /\ UNCHANGED <<looking, cache, missed, ownMiss>>

\* The body goes to Ollama and its answer is streamed back; /api/tags and
\* /api/show answer by themselves.
Forward(q) ==
    /\ pc[q] = "send"
    /\ End(q)
    /\ UNCHANGED <<ollama, cache, was, missed>>

\* list_models raises; Ollama is unreachable; the client leaves.
Fail(q) ==
    /\ pc[q] \notin {"idle", "done"}
    /\ End(q)
    /\ UNCHANGED <<ollama, cache, was, missed>>

(***************************************************************************)
(* Ollama and its administrators.  A pull may replace what a tag names.    *)
(***************************************************************************)
Inventory(inv, ld) ==
    /\ changes < ChangeBound
    /\ changes' = changes + 1
    /\ inventory' = inv
    /\ loaded' = ld
    /\ seen' = [q \in Requests |->
                   IF pc[q] \in {"idle", "done"} THEN {} ELSE seen[q] \cup Available(inv, ld)]
    /\ was' = [m \in Models |-> was[m] \cup Abilities0(inv)[m]]
    /\ UNCHANGED <<cache, pc, kind, want, model, tools, missed, ownMiss>>

Pull(m, ability) ==
    /\ m \in EmbeddingModels => ability = "plain"
    /\ inventory[m] # ability
    /\ Inventory([inventory EXCEPT ![m] = ability], loaded)

Delete(m) == m \in Installed /\ Inventory([inventory EXCEPT ![m] = "none"], loaded)
Load(m) == m \in Installed \ loaded /\ Inventory(inventory, loaded \cup {m})
Unload(m) == m \in loaded /\ Inventory(inventory, loaded \ {m})

Restart ==
    /\ changes < ChangeBound
    /\ changes' = changes + 1
    /\ UNCHANGED <<inventory, loaded>>
    /\ cache' = [n \in Names |-> None]
    /\ pc' = [q \in Requests |-> IF pc[q] = "idle" THEN "idle" ELSE "done"]
    /\ kind' = [q \in Requests |-> "generate"]
    /\ want' = [q \in Requests |-> AutoModel]
    /\ model' = [q \in Requests |-> None]
    /\ tools' = [q \in Requests |-> FALSE]
    /\ seen' = [q \in Requests |-> {}]
    /\ was' = Abilities0(inventory)
    /\ missed' = {}
    /\ ownMiss' = {}

Handle(q) ==
    \/ \E k \in Kinds, w \in Asked \cup {AutoModel} : Ask(q, k, w)
    \/ PickLoaded(q)
    \/ PickSmallest(q)
    \/ PickDefault(q)
    \/ PickAny(q)
    \/ ReadCache(q)
    \/ ReadTags(q)
    \/ ShowModel(q)
    \/ ShowAuto(q)
    \/ Forward(q)
    \/ Fail(q)

Next ==
    \/ \E q \in Requests : Handle(q)
    \/ \E m \in Models : Delete(m) \/ Load(m) \/ Unload(m)
    \/ \E m \in Models, ability \in Abilities : Pull(m, ability)
    \/ Restart

Spec == Init /\ [][Next]_vars

-----------------------------------------------------------------------------
(***************************************************************************)
(* Properties                                                              *)
(***************************************************************************)

Stripped(q) == pc[q] = "send" /\ kind[q] = "tools" /\ ~tools[q]

\* `auto' becomes a chat model that Ollama had, installed or in memory, at
\* some moment since the request arrived, however its inventory changed
\* between the calls that ask for it; a request to Ollama never goes on
\* without a model (resolve_chat_model).
AutoIsServable ==
    \A q \in Requests :
        pc[q] \in Known /\ want[q] = AutoModel =>
            \/ model[q] \in ChatModels \cap seen[q]
            \/ model[q] = None /\ kind[q] = "tags" /\ ~tools[q]

\* Tools go only to a model that could use them at some time since the
\* process started, and `auto' is advertised with tools only then: not
\* knowing is taken as not able, in whatever order concurrent lookups fill
\* the cache.  Of a bare name any variant counts, as it does for
\* _names_match: name:latest, which Ollama then serves, may be another.
ToolsNeedSupport ==
    \A q \in Requests :
        pc[q] = "send" /\ tools[q] =>
            \E m \in Matching(model[q]) : "tools" \in was[m]

\* A request loses its tools only if its model (or a variant of its bare
\* name) could not use them at some time since the process started, or some
\* lookup of it learned nothing.
StripsAreExplained ==
    \A q \in Requests :
        Stripped(q) =>
            \/ model[q] \in missed
            \/ \E m \in Matching(model[q]) : "plain" \in was[m]

\* A request for a tag keeps its tools where the tag supports them, unless
\* its own lookup failed: an installed tag that was never anything but able.
SupportedToolsAreKept ==
    \A q \in Requests :
        /\ Stripped(q) /\ q \notin ownMiss
        /\ model[q] \in Models /\ inventory[model[q]] = "tools"
        => "plain" \in was[model[q]]
=============================================================================

----------------------------- MODULE ModelAdmin -----------------------------
(***************************************************************************)
(* Administration of Ollama's models (admin.py, admin_ui.py) and the       *)
(* registry in PostgreSQL (sync_local_models of models_sync.py).           *)
(*                                                                         *)
(* A handler first has Ollama pull, delete or load models, which no        *)
(* transaction can take back, then brings the registry up to date and then *)
(* records what was done.  Between any two calls others pull and delete    *)
(* the same models, two synchronisations meet in the unique column of the  *)
(* registry, or the request fails.                                         *)
(*                                                                         *)
(* A request may use a bare name, as the default EMBEDDING_MODEL does.     *)
(* Ollama takes it for one tag, name:latest, and lists that; the warm-ups  *)
(* accept any tag of it; the audit log keeps the name as it was given.     *)
(***************************************************************************)
CONSTANTS
    Models,     \* the tags Ollama may have
    Names,      \* what a request may call them: tags and bare names
    Tag,        \* the tag that Ollama takes a name for
    StandIns,   \* tags that resolve_installed takes for a name not installed
    EmbeddingModels,  \* tags with "embed" in them
    Embedding,  \* settings.embedding_model
    Default,    \* settings.default_chat_model
    Requests,
    None

ASSUME NameAssumption ==
    /\ Models \subseteq Names
    /\ Tag \in [Names -> Models]
    /\ \A m \in Models : Tag[m] = m
    /\ StandIns \in [Names -> SUBSET Models]
    /\ EmbeddingModels \subseteq Models
    /\ Embedding \in Names
    /\ Default \in Names
    /\ None \notin Requests

ChatModels == Models \ EmbeddingModels

VARIABLES
    installed,  \* Ollama's /api/tags
    registry,   \* model_registry: the names that have a row
    claim,      \* a row inserted by an open transaction: whose
    pc,
    kind,       \* "list", "sync", "pull", "delete", "warm" or "warmAll"
    target,     \* the name or tag a handler works on
    todo,       \* what a sync has yet to look up, or warmup-all to warm
    subject,    \* what a handler will say it has pulled, deleted or warmed
    told,       \* what its audit record says
    (***********************************************************************)
    (* History, read by no action.                                         *)
    (***********************************************************************)
    done,       \* the tags that Ollama pulled, deleted or loaded for a request
    removed,    \* models deleted after some request had pulled them
    broken      \* requests that an error or a restart cut short

handlers == <<pc, kind, target, todo, subject, told>>
history == <<done, removed, broken>>
vars == <<installed, registry, claim, handlers, history>>

Kinds == {"list", "sync", "pull", "delete", "warm", "warmAll"}
Busy == {"effect", "list", "read", "write", "pick", "pickAny", "embed", "resolve", "load", "audit"}
Syncing == {"read", "write"}

TypeOK ==
    /\ installed \subseteq Models
    /\ registry \subseteq Models
    /\ claim \in [Models -> Requests \cup {None}]
    /\ \A m \in Models : claim[m] # None => m \notin registry /\ pc[claim[m]] \in Syncing
    /\ pc \in [Requests -> Busy \cup {"idle", "ended"}]
    /\ kind \in [Requests -> Kinds]
    /\ target \in [Requests -> Names]
    /\ todo \in [Requests -> SUBSET Names]
    /\ \A q \in Requests :
          /\ pc[q] \in Syncing => todo[q] \subseteq Models
          /\ pc[q] = "write" => target[q] \in Models
    /\ subject \in [Requests -> SUBSET Names]
    /\ told \in [Requests -> SUBSET Names]
    /\ done \in [Requests -> SUBSET Models]
    /\ removed \subseteq Models
    /\ broken \subseteq Requests

Init ==
    /\ installed \in SUBSET Models
    /\ registry = {}
    /\ claim = [m \in Models |-> None]
    /\ pc = [q \in Requests |-> "idle"]
    /\ kind = [q \in Requests |-> "list"]
    /\ target = [q \in Requests |-> Default]
    /\ todo = [q \in Requests |-> {}]
    /\ subject = [q \in Requests |-> {}]
    /\ told = [q \in Requests |-> {}]
    /\ done = [q \in Requests |-> {}]
    /\ removed = {}
    /\ broken = {}

Goto(q, label) == pc' = [pc EXCEPT ![q] = label]
Aim(q, m) == target' = [target EXCEPT ![q] = m]
Did(q, m) == done' = [done EXCEPT ![q] = @ \cup {m}]
WillTell(q, ms) == subject' = [subject EXCEPT ![q] = ms]

\* A model that was pulled is deleted.
Remember(m) ==
    removed' = IF \E q \in Requests : kind[q] = "pull" /\ m \in done[q]
               THEN removed \cup {m}
               ELSE removed

\* The handler returns or raises: its locals are gone and what its
\* transaction had inserted is rolled back.
Leave(q) ==
    /\ Goto(q, "ended")
    /\ Aim(q, Default)
    /\ todo' = [todo EXCEPT ![q] = {}]
    /\ WillTell(q, {})
    /\ claim' = [m \in Models |-> IF claim[m] = q THEN None ELSE claim[m]]

Break(q) ==
    /\ Leave(q)
    /\ broken' = broken \cup {q}
    /\ UNCHANGED <<installed, registry, kind, told, done, removed>>

\* Ollama, the database or the connection fails; a lock is never granted.
Fail(q) == pc[q] \in Busy /\ Break(q)

(***************************************************************************)
(* The request is admitted.  Warming the default model picks a substitute  *)
(* where that is not installed; warming another warms that one; warmup-all *)
(* has the embedding model to warm after the chat model.                   *)
(***************************************************************************)
Arrive(q, k, n) ==
    /\ pc[q] = "idle"
    /\ k \in {"list", "sync", "warmAll"} => n = Default
    /\ kind' = [kind EXCEPT ![q] = k]
    /\ Aim(q, n)
    /\ Goto(q, CASE k \in {"list", "sync"} -> "list"
                 [] k \in {"pull", "delete"} -> "effect"
                 [] k = "warm" /\ n # Default -> "resolve"
                 [] OTHER -> "pick")
    /\ todo' = [todo EXCEPT ![q] = IF k = "warmAll" THEN {Embedding} ELSE {}]
    /\ UNCHANGED <<installed, registry, claim, subject, told, history>>

(***************************************************************************)
(* pull_model and delete_model.                                            *)
(***************************************************************************)
PullWithoutSync(q) ==
    /\ pc[q] = "effect" /\ kind[q] = "pull"
    /\ installed' = installed \cup {Tag[target[q]]}
    /\ Did(q, Tag[target[q]])
    /\ WillTell(q, {target[q]})
    /\ Goto(q, "audit")
    /\ UNCHANGED <<registry, claim, kind, target, todo, told, removed, broken>>

Pull(q) ==
    /\ pc[q] = "effect" /\ kind[q] = "pull"
    /\ installed' = installed \cup {Tag[target[q]]}
    /\ Did(q, Tag[target[q]])
    /\ WillTell(q, {target[q]})
    /\ Goto(q, "list")
    /\ UNCHANGED <<registry, claim, kind, target, todo, told, removed, broken>>

\* Ollama answers 404 for a model it does not have (Fail).
Delete(q) ==
    /\ pc[q] = "effect" /\ kind[q] = "delete"
    /\ Tag[target[q]] \in installed
    /\ installed' = installed \ {Tag[target[q]]}
    /\ Remember(Tag[target[q]])
    /\ Did(q, Tag[target[q]])
    /\ WillTell(q, {target[q]})
    /\ Goto(q, "audit")
    /\ UNCHANGED <<registry, claim, kind, target, todo, told, broken>>

(***************************************************************************)
(* sync_local_models: one look at the inventory; a SELECT and, if there is *)
(* no row, an INSERT for each entry, in Ollama's order (which changes);    *)
(* one COMMIT.  Rows are never removed.                                    *)
(***************************************************************************)
ListModels(q) ==
    /\ pc[q] = "list"
    /\ todo' = [todo EXCEPT ![q] = installed]
    /\ Goto(q, "read")
    /\ UNCHANGED <<installed, registry, claim, kind, target, subject, told, history>>

\* A handler that pulled keeps its model in `subject'.
ReadRow(q, m) ==
    /\ pc[q] = "read"
    /\ m \in todo[q]
    /\ todo' = [todo EXCEPT ![q] = @ \ {m}]
    /\ IF m \in registry
       THEN UNCHANGED <<pc, target>>
       ELSE Goto(q, "write") /\ Aim(q, m)
    /\ UNCHANGED <<installed, registry, claim, kind, subject, told, history>>

WriteOver(q) ==
    /\ pc[q] = "write"
    /\ claim' = [claim EXCEPT ![target[q]] = q]
    /\ Goto(q, "read")
    /\ UNCHANGED <<installed, registry, kind, target, todo, subject, told, history>>

\* The INSERT; it waits while another transaction holds the name.
WriteRow(q) ==
    /\ pc[q] = "write"
    /\ target[q] \notin registry
    /\ claim[target[q]] = None
    /\ claim' = [claim EXCEPT ![target[q]] = q]
    /\ Goto(q, "read")
    /\ UNCHANGED <<installed, registry, kind, target, todo, subject, told, history>>

\* IntegrityError: another synchronisation has committed the name.
Conflict(q) ==
    /\ pc[q] = "write"
    /\ target[q] \in registry
    /\ Break(q)

CommitSync(q) ==
    /\ pc[q] = "read"
    /\ todo[q] = {}
    /\ registry' = registry \cup {m \in Models : claim[m] = q}
    /\ claim' = [m \in Models |-> IF claim[m] = q THEN None ELSE claim[m]]
    /\ Goto(q, "audit")
    /\ Aim(q, Default)
    /\ UNCHANGED <<installed, kind, todo, subject, told, history>>

(***************************************************************************)
(* models_warmup and models_warmup_all: pick_chat_model, warmup.           *)
(***************************************************************************)
Resolved(n) == IF n \in installed THEN {n} ELSE installed \cap StandIns[n]

Pick(q) ==
    /\ pc[q] = "pick"
    /\ \/ \E m \in Resolved(Default) \cap ChatModels : Goto(q, "resolve") /\ Aim(q, m)
       \/ Resolved(Default) \cap ChatModels = {} /\ Goto(q, "pickAny") /\ UNCHANGED target
    /\ UNCHANGED <<installed, registry, claim, kind, todo, subject, told, history>>

\* "No chat model installed" ends the request.
PickAny(q) ==
    /\ pc[q] = "pickAny"
    /\ IF installed \cap ChatModels = {}
       THEN Leave(q)
       ELSE /\ \E m \in installed \cap ChatModels : Goto(q, "resolve") /\ Aim(q, m)
            /\ UNCHANGED <<claim, todo, subject>>
    /\ UNCHANGED <<installed, registry, kind, told, history>>

\* warmup-all looks for the embedding model and does without it.
PickEmbedding(q) ==
    /\ pc[q] = "embed"
    /\ todo' = [todo EXCEPT ![q] = {}]
    /\ \/ \E m \in Resolved(Embedding) : Goto(q, "resolve") /\ Aim(q, m)
       \/ Resolved(Embedding) = {} /\ Goto(q, "audit") /\ UNCHANGED target
    /\ UNCHANGED <<installed, registry, claim, kind, subject, told, history>>

ResolveTellingDefault(q) ==
    /\ pc[q] = "resolve"
    /\ \E m \in Resolved(target[q]) : Aim(q, m)
    /\ WillTell(q, subject[q] \cup {Default})
    /\ Goto(q, "load")
    /\ UNCHANGED <<installed, registry, claim, kind, todo, told, history>>

\* warmup looks once more for the model it is handed; it is the name handed
\* over that the handler will tell.  No match is an error (Fail).
Resolve(q) ==
    /\ pc[q] = "resolve"
    /\ \E m \in Resolved(target[q]) : Aim(q, m)
    /\ WillTell(q, subject[q] \cup {target[q]})
    /\ Goto(q, "load")
    /\ UNCHANGED <<installed, registry, claim, kind, todo, told, history>>

\* The model may be gone by now (Fail).  warmup-all goes on to the
\* embedding model.
Load(q) ==
    /\ pc[q] = "load"
    /\ target[q] \in installed
    /\ Did(q, target[q])
    /\ Goto(q, IF todo[q] = {} THEN "audit" ELSE "embed")
    /\ UNCHANGED <<installed, registry, claim, kind, target, todo, subject, told, removed, broken>>

\* The audit record, committed on its own; listing the models leaves none.
Audit(q) ==
    /\ pc[q] = "audit"
    /\ told' = [told EXCEPT ![q] = subject[q]]
    /\ Leave(q)
    /\ UNCHANGED <<installed, registry, kind, history>>

(***************************************************************************)
(* Ollama is also administered through the bridge and by the operator's    *)
(* scripts; the backend restarts.                                          *)
(***************************************************************************)
PullElsewhere(m) ==
    /\ installed' = installed \cup {m}
    /\ UNCHANGED <<registry, claim, handlers, history>>

DeleteElsewhere(m) ==
    /\ installed' = installed \ {m}
    /\ Remember(m)
    /\ UNCHANGED <<registry, claim, handlers, done, broken>>

Crash ==
    LET hit == {q \in Requests : pc[q] \in Busy}
    IN  /\ pc' = [q \in Requests |-> IF q \in hit THEN "ended" ELSE pc[q]]
        /\ target' = [q \in Requests |-> Default]
        /\ todo' = [q \in Requests |-> {}]
        /\ subject' = [q \in Requests |-> {}]
        /\ claim' = [m \in Models |-> None]
        /\ broken' = broken \cup hit
        /\ UNCHANGED <<installed, registry, kind, told, done, removed>>

Handle(q) ==
    \/ \E k \in Kinds, n \in Names : Arrive(q, k, n)
    \/ Pull(q)
    \/ Delete(q)
    \/ ListModels(q)
    \/ \E m \in Models : ReadRow(q, m)
    \/ WriteRow(q)
    \/ Conflict(q)
    \/ CommitSync(q)
    \/ Pick(q)
    \/ PickAny(q)
    \/ PickEmbedding(q)
    \/ Resolve(q)
    \/ Load(q)
    \/ Audit(q)
    \/ Fail(q)

Next ==
    \/ \E q \in Requests : Handle(q)
    \/ \E m \in Models : PullElsewhere(m) \/ DeleteElsewhere(m)
    \/ Crash

Spec == Init /\ [][Next]_vars

-----------------------------------------------------------------------------
(***************************************************************************)
(* Properties                                                              *)
(***************************************************************************)

\* The audit log names what Ollama did for the request, all of it and
\* nothing else, although the model was picked, looked up and used in calls
\* between which the inventory changed.  The exception is a warm-up that had
\* to load a stand-in: the log keeps the name that was asked for.  A request
\* that ended without an error is in the log.  A pull and a delete are
\* logged under the name that was given.
AuditIsExact ==
    \A q \in Requests :
        told[q] # {} \/ (pc[q] = "ended" /\ q \notin broken) =>
            IF kind[q] \in {"warm", "warmAll"}
            THEN /\ \A m \in done[q] : m \in told[q] \/ \E n \in told[q] : m \in StandIns[n]
                 /\ \A n \in told[q] : n \in done[q] \/ StandIns[n] \cap done[q] # {}
            ELSE done[q] = {Tag[n] : n \in told[q]}

\* A model whose pull is recorded has a row in the registry, whatever other
\* synchronisations did, unless it was deleted from Ollama after a pull.
PulledIsRegistered ==
    \A q \in Requests :
        kind[q] = "pull" => {Tag[n] : n \in told[q]} \subseteq registry \cup removed
=============================================================================

-------------------------- MODULE ModelAdmin_proofs --------------------------
(***************************************************************************)
(* Proofs about ModelAdmin, for any models, stand-ins and requests.        *)
(***************************************************************************)
EXTENDS ModelAdmin, TLAPS

Warm == {"warm", "warmAll"}
Warming == {"pick", "pickAny", "embed", "resolve", "load"}

\* The tags that a pull or a delete under these names is about.
TagsOf(ns) == {Tag[n] : n \in ns}

\* A request for n may end with m loaded.
Match(n, m) == m = n \/ m \in StandIns[n]

\* What is told of a warm-up, and what was loaded for it.
Agree(ns, ms) ==
    /\ \A m \in ms : \E n \in ns : Match(n, m)
    /\ \A n \in ns : \E m \in ms : Match(n, m)

(***************************************************************************)
(* The inductive invariant.  Its first part is about a request by itself   *)
(* (Honest): what the handler will tell is what Ollama did so far; while a *)
(* model is being loaded, what Ollama did and that model.  The second      *)
(* follows the model of a pull through the synchronisation (Tracked): it   *)
(* is installed, or waits to be looked up, or its row is about to be       *)
(* inserted, or is inserted, or is committed, unless the model was deleted *)
(* meanwhile.                                                              *)
(***************************************************************************)
Honest(q) ==
    /\ pc[q] \in {"idle", "effect", "pick", "pickAny"} => subject[q] = {} /\ done[q] = {}
    /\ pc[q] \in Warming => kind[q] \in Warm
    /\ pc[q] # "ended" => told[q] = {}
    /\ pc[q] \in Busy /\ kind[q] \notin Warm => done[q] = TagsOf(subject[q])
    /\ pc[q] \in Busy \ {"load"} /\ kind[q] \in Warm => Agree(subject[q], done[q])
    /\ pc[q] = "load" => Agree(subject[q], done[q] \cup {target[q]})

Logged(q) ==
    pc[q] = "ended" /\ (told[q] # {} \/ q \notin broken) =>
        /\ kind[q] \notin Warm => done[q] = TagsOf(told[q])
        /\ kind[q] \in Warm => Agree(told[q], done[q])

Tracked(q) ==
    kind[q] = "pull" =>
        /\ TagsOf(told[q]) \subseteq registry \cup removed
        /\ pc[q] = "list" => TagsOf(subject[q]) \subseteq installed \cup removed
        /\ pc[q] \in Syncing =>
              \A m \in TagsOf(subject[q]) :
                  \/ m \in todo[q] \cup registry \cup removed
                  \/ claim[m] = q
                  \/ pc[q] = "write" /\ target[q] = m
        /\ pc[q] = "audit" => TagsOf(subject[q]) \subseteq registry \cup removed

Inv ==
    /\ TypeOK
    /\ \A q \in Requests : Honest(q) /\ Logged(q) /\ Tracked(q)
-----------------------------------------------------------------------------

LEMMA NameFacts ==
    /\ Models \subseteq Names /\ Embedding \in Names /\ Default \in Names
    /\ \A n \in Names : Tag[n] \in Models /\ StandIns[n] \subseteq Models
    /\ None \notin Requests
  BY NameAssumption

LEMMA TagsOfNames ==
    /\ TagsOf({}) = {}
    /\ \A n : TagsOf({n}) = {Tag[n]}
    /\ \A ns \in SUBSET Names : TagsOf(ns) \subseteq Models
  BY NameFacts DEF TagsOf

LEMMA AgreeGrows ==
    ASSUME NEW ns, NEW ms, Agree(ns, ms), NEW n, NEW m, Match(n, m)
    PROVE  Agree(ns \cup {n}, ms \cup {m})
  BY DEF Agree

\* A request whose locals a step leaves alone.
Still(r) ==
    /\ pc'[r] = pc[r] /\ kind'[r] = kind[r] /\ target'[r] = target[r]
    /\ todo'[r] = todo[r] /\ subject'[r] = subject[r] /\ told'[r] = told[r]
    /\ done'[r] = done[r] /\ (r \in broken' <=> r \in broken)

\* What a step may do to the inventory and the tables under request r.
Spared(r) ==
    /\ registry \subseteq registry'
    /\ removed \subseteq removed'
    /\ \A m \in Models : claim[m] = r => claim'[m] = r
    /\ \A m \in installed : kind[r] = "pull" /\ m \in done[r] => m \in installed' \cup removed'

\* The others keep their part of the invariant.
LEMMA StillInv ==
    ASSUME Inv, NEW r \in Requests, Still(r), Spared(r)
    PROVE  Honest(r)' /\ Logged(r)' /\ Tracked(r)'
<1>1. Honest(r) /\ Logged(r) /\ Tracked(r)
  BY DEF Inv, TypeOK
<1>2. Honest(r)' /\ Logged(r)'
  BY <1>1 DEF Still, Honest, Logged
<1>3. Tracked(r)'
  <2>1. TagsOf(subject[r]) \subseteq Models
    BY TagsOfNames DEF Inv, TypeOK
  <2>2. pc[r] = "list" /\ kind[r] = "pull" => done[r] = TagsOf(subject[r])
    BY <1>1 DEF Honest, Busy, Warm
  <2>3. QED
    BY <1>1, <2>1, <2>2 DEF Still, Spared, Tracked
<1>4. QED
  BY <1>2, <1>3

\* A step of request q.
LEMMA StepInv ==
    ASSUME Inv, TypeOK', NEW q \in Requests,
           \A r \in Requests \ {q} : Still(r) /\ Spared(r),
           Honest(q)', Logged(q)', Tracked(q)'
    PROVE  Inv'
  BY StillInv DEF Inv

\* What is not shared is changed for the request alone.
LEMMA LocalStep ==
    ASSUME Inv, NEW q \in Requests, NEW label, NEW m, NEW ms, NEW k, NEW ts, NEW d,
           \/ UNCHANGED pc \/ Goto(q, label),
           \/ UNCHANGED kind \/ kind' = [kind EXCEPT ![q] = k],
           \/ UNCHANGED target \/ Aim(q, m),
           \/ UNCHANGED todo \/ todo' = [todo EXCEPT ![q] = ts],
           \/ UNCHANGED subject \/ WillTell(q, ms),
           \/ UNCHANGED told \/ told' = [told EXCEPT ![q] = subject[q]],
           \/ UNCHANGED done \/ Did(q, d),
           \/ UNCHANGED broken \/ broken' = broken \cup {q},
           NEW r \in Requests, r # q
    PROVE  Still(r)
<1> USE DEF Inv, TypeOK
<1>1. pc'[r] = pc[r] /\ kind'[r] = kind[r] /\ target'[r] = target[r]
  BY DEF Goto, Aim
<1>2. todo'[r] = todo[r] /\ subject'[r] = subject[r] /\ told'[r] = told[r]
  BY DEF WillTell
<1>3. done'[r] = done[r] /\ (r \in broken' <=> r \in broken)
  BY DEF Did
<1>4. QED
  BY <1>1, <1>2, <1>3 DEF Still

\* Deleting a model loses track of none that was pulled.
LEMMA Remembered ==
    ASSUME Inv, NEW m \in Models, installed' = installed \ {m}, Remember(m)
    PROVE  /\ removed \subseteq removed' /\ removed' \subseteq Models
           /\ \A r \in Requests : \A n \in installed :
                 kind[r] = "pull" /\ n \in done[r] => n \in installed' \cup removed'
  BY DEF Remember, Inv, TypeOK

LEMMA InitInv == Init => Inv
<1> SUFFICES ASSUME Init PROVE Inv
  OBVIOUS
<1>1. TypeOK
  BY NameFacts DEF Init, TypeOK, Kinds
<1>2. ASSUME NEW q \in Requests
      PROVE  Honest(q) /\ Logged(q) /\ Tracked(q)
  BY DEF Init, Honest, Logged, Tracked, Busy, Warming, Syncing
<1>3. QED
  BY <1>1, <1>2 DEF Inv

LEMMA ArriveInv ==
    ASSUME Inv, NEW q \in Requests, NEW k \in Kinds, NEW n \in Names, Arrive(q, k, n)
    PROVE  Inv'
<1> DEFINE label == CASE k \in {"list", "sync"} -> "list"
                      [] k \in {"pull", "delete"} -> "effect"
                      [] k = "warm" /\ n # Default -> "resolve"
                      [] OTHER -> "pick"
<1>1. /\ label \in {"list", "effect", "resolve", "pick"}
      /\ label = "list" => k \in {"list", "sync"}
      /\ label = "effect" => k \in {"pull", "delete"}
      /\ label \in {"resolve", "pick"} => k \in Warm
  BY DEF Kinds, Warm
<1>2. pc[q] = "idle" /\ Goto(q, label) /\ Aim(q, n) /\ kind' = [kind EXCEPT ![q] = k]
  BY DEF Arrive
<1> HIDE DEF label
<1>3. \A r \in Requests \ {q} : Still(r) /\ Spared(r)
  BY <1>2, LocalStep DEF Arrive, history, Spared
<1>4. /\ pc'[q] = label /\ kind'[q] = k /\ told'[q] = {} /\ subject'[q] = {} /\ done'[q] = {}
  BY <1>2 DEF Arrive, Goto, Inv, TypeOK, Honest, history
<1>5. TypeOK'
  BY <1>1, <1>2, NameFacts DEF Arrive, Goto, Aim, Inv, TypeOK, Busy, Syncing, history
<1>6. Honest(q)' /\ Logged(q)' /\ Tracked(q)'
  BY <1>1, <1>4, TagsOfNames DEF Honest, Logged, Tracked, Busy, Warming, Warm, Syncing, Agree
<1>7. QED
  BY <1>3, <1>5, <1>6, StepInv
\* Ollama has pulled: the model is installed and will be told.
LEMMA PullInv ==
    ASSUME Inv, NEW q \in Requests, Pull(q)
    PROVE  Inv'
<1>1. /\ pc[q] = "effect" /\ kind[q] = "pull" /\ target[q] \in Names /\ Tag[target[q]] \in Models
      /\ subject[q] = {} /\ done[q] = {} /\ told[q] = {}
  BY NameFacts DEF Pull, Inv, TypeOK, Honest
<1>2. \A r \in Requests \ {q} : Still(r) /\ Spared(r)
  BY LocalStep DEF Pull, Spared
<1>3. TypeOK'
  BY <1>1 DEF Pull, Goto, Did, WillTell, Inv, TypeOK, Busy, Syncing
<1>4. /\ pc'[q] = "list" /\ kind'[q] = "pull" /\ told'[q] = {}
      /\ subject'[q] = {target[q]} /\ done'[q] = {Tag[target[q]]} /\ Tag[target[q]] \in installed'
  BY <1>1 DEF Pull, Goto, Did, WillTell, Inv, TypeOK
<1>5. Honest(q)' /\ Logged(q)' /\ Tracked(q)'
  BY <1>4, TagsOfNames DEF Honest, Logged, Tracked, Busy, Warming, Warm, Syncing
<1>6. QED
  BY <1>2, <1>3, <1>5, StepInv

LEMMA DeleteInv ==
    ASSUME Inv, NEW q \in Requests, Delete(q)
    PROVE  Inv'
<1>1. /\ pc[q] = "effect" /\ kind[q] = "delete" /\ target[q] \in Names /\ Tag[target[q]] \in Models
      /\ subject[q] = {} /\ done[q] = {} /\ told[q] = {}
  BY NameFacts DEF Delete, Inv, TypeOK, Honest
<1>2. /\ removed \subseteq removed' /\ removed' \subseteq Models
      /\ \A r \in Requests : \A n \in installed :
            kind[r] = "pull" /\ n \in done[r] => n \in installed' \cup removed'
  BY <1>1, Remembered DEF Delete
<1>3. \A r \in Requests \ {q} : Still(r) /\ Spared(r)
  BY <1>2, LocalStep DEF Delete, Spared
<1>4. TypeOK'
  BY <1>1, <1>2 DEF Delete, Goto, Did, WillTell, Inv, TypeOK, Busy, Syncing
<1>5. /\ pc'[q] = "audit" /\ kind'[q] = "delete" /\ told'[q] = {}
      /\ subject'[q] = {target[q]} /\ done'[q] = {Tag[target[q]]}
  BY <1>1 DEF Delete, Goto, Did, WillTell, Inv, TypeOK
<1>6. Honest(q)' /\ Logged(q)' /\ Tracked(q)'
  BY <1>5, TagsOfNames DEF Honest, Logged, Tracked, Busy, Warming, Warm, Syncing
<1>7. QED
  BY <1>3, <1>4, <1>6, StepInv

\* The synchronisation: the model that was pulled is never out of sight.
LEMMA ListModelsInv ==
    ASSUME Inv, NEW q \in Requests, ListModels(q)
    PROVE  Inv'
<1>1. pc[q] = "list" /\ Honest(q) /\ Logged(q) /\ Tracked(q)
  BY DEF ListModels, Inv
<1>2. \A r \in Requests \ {q} : Still(r) /\ Spared(r)
  BY LocalStep DEF ListModels, history, Spared
<1>3. TypeOK'
  BY <1>1, NameFacts DEF ListModels, Goto, Inv, TypeOK, Busy, Syncing, history
<1>4. /\ pc'[q] = "read" /\ todo'[q] = installed
      /\ UNCHANGED <<installed, registry, claim, kind, target, subject, told, history>>
  BY DEF ListModels, Goto, Inv, TypeOK
<1>5. Honest(q)' /\ Logged(q)' /\ Tracked(q)'
  BY <1>1, <1>4 DEF Honest, Logged, Tracked, Busy, Warming, Syncing, history
<1>6. QED
  BY <1>2, <1>3, <1>5, StepInv

LEMMA ReadRowInv ==
    ASSUME Inv, NEW q \in Requests, NEW m \in Models, ReadRow(q, m)
    PROVE  Inv'
<1>1. pc[q] = "read" /\ m \in todo[q] /\ Honest(q) /\ Logged(q) /\ Tracked(q)
  BY DEF ReadRow, Inv
<1>2. \A r \in Requests \ {q} : Still(r) /\ Spared(r)
  BY LocalStep DEF ReadRow, history, Spared
<1>3. TypeOK'
  BY <1>1 DEF ReadRow, Goto, Aim, Inv, TypeOK, Busy, Syncing, history
<1>4. /\ todo'[q] = todo[q] \ {m}
      /\ \/ m \in registry /\ pc'[q] = "read"
         \/ pc'[q] = "write" /\ target'[q] = m
      /\ UNCHANGED <<installed, registry, claim, kind, subject, told, history>>
  BY <1>1 DEF ReadRow, Goto, Aim, Inv, TypeOK
<1>5. Honest(q)' /\ Logged(q)'
  BY <1>1, <1>4 DEF Honest, Logged, Busy, Warming, history
<1>6. Tracked(q)'
  BY <1>1, <1>4 DEF Tracked, Syncing, history
<1>7. QED
  BY <1>2, <1>3, <1>5, <1>6, StepInv

LEMMA WriteRowInv ==
    ASSUME Inv, NEW q \in Requests, WriteRow(q)
    PROVE  Inv'
<1>1. /\ pc[q] = "write" /\ target[q] \in Models \ registry /\ claim[target[q]] = None
      /\ Honest(q) /\ Logged(q) /\ Tracked(q)
  BY DEF WriteRow, Inv, TypeOK
<1>2. \A r \in Requests \ {q} : Still(r) /\ Spared(r)
  BY <1>1, LocalStep, NameFacts DEF WriteRow, history, Spared, Inv, TypeOK
<1>3. TypeOK'
  BY <1>1, NameFacts DEF WriteRow, Goto, Inv, TypeOK, Busy, Syncing, history
<1>4. /\ pc'[q] = "read" /\ claim'[target[q]] = q
      /\ \A m \in Models : claim[m] = q => claim'[m] = q
      /\ TagsOf(subject[q]) \subseteq Models
      /\ UNCHANGED <<installed, registry, kind, target, todo, subject, told, history>>
  BY <1>1, TagsOfNames DEF WriteRow, Goto, Inv, TypeOK
<1>5. Honest(q)' /\ Logged(q)'
  BY <1>1, <1>4 DEF Honest, Logged, Busy, Warming, history
<1>6. Tracked(q)'
  BY <1>1, <1>4 DEF Tracked, Syncing, history
<1>7. QED
  BY <1>2, <1>3, <1>5, <1>6, StepInv

LEMMA CommitSyncInv ==
    ASSUME Inv, NEW q \in Requests, CommitSync(q)
    PROVE  Inv'
<1>1. pc[q] = "read" /\ todo[q] = {} /\ Honest(q) /\ Logged(q) /\ Tracked(q)
  BY DEF CommitSync, Inv
<1>2. \A r \in Requests \ {q} : Still(r) /\ Spared(r)
  BY LocalStep DEF CommitSync, history, Spared, Inv, TypeOK
<1>3. TypeOK'
  BY <1>1, NameFacts DEF CommitSync, Goto, Aim, Inv, TypeOK, Busy, Syncing, history
<1>4. /\ pc'[q] = "audit" /\ registry' = registry \cup {m \in Models : claim[m] = q}
      /\ TagsOf(subject[q]) \subseteq Models
      /\ UNCHANGED <<installed, kind, todo, subject, told, history>>
  BY <1>1, TagsOfNames DEF CommitSync, Goto, Inv, TypeOK
<1>5. Honest(q)' /\ Logged(q)'
  BY <1>1, <1>4 DEF Honest, Logged, Busy, Warming, history
<1>6. Tracked(q)'
  BY <1>1, <1>4 DEF Tracked, Syncing, history
<1>7. QED
  BY <1>2, <1>3, <1>5, <1>6, StepInv

-----------------------------------------------------------------------------

\* A handler that ends lets go of its own claims and of no other's.
LEMMA LeaveStep ==
    ASSUME Inv, NEW q \in Requests, Leave(q)
    PROVE  /\ pc' \in [Requests -> Busy \cup {"idle", "ended"}] /\ pc'[q] = "ended"
           /\ target' \in [Requests -> Names]
           /\ todo' \in [Requests -> SUBSET Names]
           /\ \A r \in Requests :
                 /\ pc'[r] \in Syncing => todo'[r] \subseteq Models
                 /\ pc'[r] = "write" => target'[r] \in Models
           /\ subject' \in [Requests -> SUBSET Names]
           /\ claim' \in [Models -> Requests \cup {None}]
           /\ \A m \in Models : claim'[m] # None =>
                 claim'[m] = claim[m] /\ m \notin registry /\ pc'[claim[m]] \in Syncing
           /\ \A m \in Models, r \in Requests \ {q} : claim[m] = r => claim'[m] = r
  BY NameFacts DEF Leave, Goto, Aim, WillTell, Inv, TypeOK

LEMMA BreakInv ==
    ASSUME Inv, NEW q \in Requests, pc[q] \in Busy, Break(q)
    PROVE  Inv'
<1>1. Honest(q) /\ Logged(q) /\ Tracked(q) /\ told[q] = {}
  BY DEF Inv, Honest, Busy
<1>2. \A r \in Requests \ {q} : Still(r)
  BY LocalStep DEF Break, Leave
<1>3. \A r \in Requests \ {q} : Spared(r)
  BY LeaveStep DEF Break, Spared
<1>4. TypeOK'
  BY LeaveStep DEF Break, Inv, TypeOK
<1>5. pc'[q] = "ended" /\ told'[q] = {} /\ q \in broken'
  BY <1>1, LeaveStep DEF Break
<1>6. Honest(q)' /\ Logged(q)' /\ Tracked(q)'
  BY <1>5, TagsOfNames DEF Honest, Logged, Tracked, Busy, Warming, Syncing
<1>7. QED
  BY <1>2, <1>3, <1>4, <1>6, StepInv

\* The audit tells what the handler had in mind, which is what was done.
LEMMA AuditInv ==
    ASSUME Inv, NEW q \in Requests, Audit(q)
    PROVE  Inv'
<1>1. pc[q] = "audit" /\ Honest(q) /\ Logged(q) /\ Tracked(q)
  BY DEF Audit, Inv
<1>2. \A r \in Requests \ {q} : Still(r)
  BY LocalStep DEF Audit, Leave, history
<1>3. \A r \in Requests \ {q} : Spared(r)
  BY LeaveStep DEF Audit, history, Spared
<1>4. TypeOK'
  BY LeaveStep DEF Audit, history, Inv, TypeOK
<1>5. /\ pc'[q] = "ended" /\ told'[q] = subject[q]
      /\ UNCHANGED <<installed, registry, kind, history>>
  BY LeaveStep DEF Audit, Inv, TypeOK
<1>6. Honest(q)' /\ Logged(q)' /\ Tracked(q)'
  BY <1>1, <1>5 DEF Honest, Logged, Tracked, Busy, Warming, Syncing, history
<1>7. QED
  BY <1>2, <1>3, <1>4, <1>6, StepInv

-----------------------------------------------------------------------------

\* A handler that warms up chooses a model, or ends without one.
LEMMA ChooseInv ==
    ASSUME Inv, NEW q \in Requests, NEW label \in {"pickAny", "resolve", "audit"},
           NEW m \in Models,
           pc[q] \in {"pick", "pickAny", "embed"}, label = "pickAny" => pc[q] = "pick",
           Goto(q, label), UNCHANGED target \/ Aim(q, m),
           UNCHANGED todo \/ todo' = [todo EXCEPT ![q] = {}],
           UNCHANGED <<installed, registry, claim, kind, subject, told, history>>
    PROVE  Inv'
<1>1. Honest(q) /\ Logged(q) /\ Tracked(q)
  BY DEF Inv
<1>2. \A r \in Requests \ {q} : Still(r) /\ Spared(r)
  BY LocalStep DEF history, Spared
<1>3. TypeOK'
  BY NameFacts DEF Goto, Aim, Inv, TypeOK, Busy, Syncing, history
<1>4. pc'[q] = label
  BY DEF Goto, Inv, TypeOK
<1>5. Honest(q)' /\ Logged(q)' /\ Tracked(q)'
  BY <1>1, <1>4 DEF Honest, Logged, Tracked, Busy, Warming, Warm, Syncing, history
<1>6. QED
  BY <1>2, <1>3, <1>5, StepInv

LEMMA PickInv ==
    ASSUME Inv, NEW q \in Requests, Pick(q) \/ PickAny(q) \/ PickEmbedding(q)
    PROVE  Inv'
<1>1. installed \subseteq Models /\ Tag[Default] \in Models
  BY NameFacts DEF Inv, TypeOK
<1>2. CASE Pick(q)
  BY <1>1, <1>2, ChooseInv DEF Pick, ChatModels
<1>3. CASE PickEmbedding(q)
  BY <1>1, <1>3, ChooseInv, NameFacts DEF PickEmbedding, Resolved
<1>4. CASE PickAny(q) /\ installed \cap ChatModels # {}
  BY <1>1, <1>4, ChooseInv DEF PickAny
<1>5. CASE PickAny(q) /\ installed \cap ChatModels = {}
  <2>1. /\ pc[q] = "pickAny" /\ Leave(q)
        /\ UNCHANGED <<installed, registry, kind, told, history>>
    BY <1>5 DEF PickAny
  <2>2. kind[q] \in Warm /\ done[q] = {} /\ told[q] = {} /\ Tracked(q)
    BY <2>1 DEF Inv, Honest, Warming
  <2>3. \A r \in Requests \ {q} : Still(r)
    BY <2>1, LocalStep DEF Leave, history
  <2>4. \A r \in Requests \ {q} : Spared(r)
    BY <2>1, LeaveStep DEF Spared, history
  <2>5. TypeOK'
    BY <2>1, LeaveStep DEF Inv, TypeOK, history
  <2>6. Honest(q)' /\ Logged(q)' /\ Tracked(q)'
    BY <2>1, <2>2, LeaveStep
    DEF Honest, Logged, Tracked, Busy, Warming, Syncing, Agree, history
  <2>7. QED
    BY <2>3, <2>4, <2>5, <2>6, StepInv
<1>6. QED
  BY <1>2, <1>3, <1>4, <1>5

\* The name that was handed over will be told, and matches what is loaded.
LEMMA ResolveInv ==
    ASSUME Inv, NEW q \in Requests, Resolve(q)
    PROVE  Inv'
<1>1. pc[q] = "resolve" /\ Honest(q) /\ Logged(q) /\ Tracked(q) /\ target[q] \in Names
  BY DEF Resolve, Inv, TypeOK
<1>2. PICK m \in Resolved(target[q]) : Aim(q, m)
  BY DEF Resolve
<1>3. m \in Models /\ Match(target[q], m)
  BY <1>1, <1>2, NameFacts DEF Resolved, Match, Inv, TypeOK
<1>4. kind[q] \in Warm /\ Agree(subject[q] \cup {target[q]}, done[q] \cup {m})
  BY <1>1, <1>3, AgreeGrows DEF Honest, Busy, Warming
<1>5. \A r \in Requests \ {q} : Still(r) /\ Spared(r)
  BY <1>2, LocalStep DEF Resolve, history, Spared
<1>6. TypeOK'
  BY <1>1, <1>2, <1>3, NameFacts DEF Resolve, Goto, Aim, WillTell, Inv, TypeOK, Busy, Syncing, history
<1>7. /\ pc'[q] = "load" /\ target'[q] = m /\ subject'[q] = subject[q] \cup {target[q]}
      /\ UNCHANGED <<installed, registry, claim, kind, todo, told, history>>
  BY <1>2 DEF Resolve, Goto, Aim, WillTell, Inv, TypeOK
<1>8. Honest(q)' /\ Logged(q)' /\ Tracked(q)'
  BY <1>1, <1>4, <1>7 DEF Honest, Logged, Tracked, Busy, Warming, Warm, Syncing, history
<1>9. QED
  BY <1>5, <1>6, <1>8, StepInv

LEMMA LoadInv ==
    ASSUME Inv, NEW q \in Requests, Load(q)
    PROVE  Inv'
<1> DEFINE label == IF todo[q] = {} THEN "audit" ELSE "embed"
<1>1. label \in {"embed", "audit"} /\ Goto(q, label)
  BY DEF Load
<1> HIDE DEF label
<1>2. /\ pc[q] = "load" /\ Honest(q) /\ Logged(q) /\ Tracked(q) /\ kind[q] \in Warm
      /\ target[q] \in installed /\ installed \subseteq Models /\ Agree(subject[q], done[q] \cup {target[q]})
  BY DEF Load, Inv, TypeOK, Honest, Warming
<1>3. \A r \in Requests \ {q} : Still(r) /\ Spared(r)
  BY <1>1, LocalStep DEF Load, Spared
<1>4. TypeOK'
  BY <1>1, <1>2 DEF Load, Goto, Did, Inv, TypeOK, Busy, Syncing
<1>5. /\ pc'[q] = label /\ done'[q] = done[q] \cup {target[q]}
      /\ UNCHANGED <<installed, registry, claim, kind, target, todo, subject, told, removed, broken>>
  BY <1>1 DEF Load, Goto, Did, Inv, TypeOK
<1>6. Honest(q)' /\ Logged(q)' /\ Tracked(q)'
  BY <1>1, <1>2, <1>5 DEF Honest, Logged, Tracked, Busy, Warming, Warm, Syncing
<1>7. QED
  BY <1>3, <1>4, <1>6, StepInv

-----------------------------------------------------------------------------

\* Models come and go elsewhere; the backend restarts.
LEMMA ElsewhereInv ==
    ASSUME Inv, NEW m \in Models, PullElsewhere(m) \/ DeleteElsewhere(m)
    PROVE  Inv'
<1>1. /\ removed \subseteq removed' /\ removed' \subseteq Models /\ installed' \subseteq Models
      /\ \A r \in Requests : \A n \in installed :
            kind[r] = "pull" /\ n \in done[r] => n \in installed' \cup removed'
  BY Remembered DEF PullElsewhere, DeleteElsewhere, history, Inv, TypeOK
<1>2. UNCHANGED <<registry, claim, handlers, done, broken>>
  BY DEF PullElsewhere, DeleteElsewhere, history
<1>3. \A r \in Requests : Still(r) /\ Spared(r)
  BY <1>1, <1>2 DEF Still, Spared, handlers
<1>4. TypeOK'
  BY <1>1, <1>2 DEF Inv, TypeOK, handlers
<1>5. QED
  BY <1>3, <1>4, StillInv DEF Inv

LEMMA CrashInv == Inv /\ Crash => Inv'
<1> SUFFICES ASSUME Inv, Crash PROVE Inv'
  OBVIOUS
<1>1. TypeOK'
  BY NameFacts DEF Crash, Inv, TypeOK, Busy
<1>2. ASSUME NEW r \in Requests
      PROVE  Honest(r)' /\ Logged(r)' /\ Tracked(r)'
  <2>1. Honest(r) /\ Logged(r) /\ Tracked(r)
    BY DEF Inv
  <2>2. /\ UNCHANGED <<installed, registry, kind, told, done, removed>>
        /\ subject'[r] = {} /\ broken \subseteq broken'
        /\ pc[r] \in Busy => pc'[r] = "ended" /\ r \in broken'
        /\ pc[r] \notin Busy => pc'[r] = pc[r] /\ pc[r] \in {"idle", "ended"} /\ (r \in broken' <=> r \in broken)
    BY DEF Crash, Inv, TypeOK
  <2>3. CASE pc[r] \in Busy
    <3>1. told[r] = {}
      BY <2>1, <2>3 DEF Honest, Busy
    <3>2. QED
      BY <2>2, <2>3, <3>1, TagsOfNames DEF Honest, Logged, Tracked, Busy, Warming, Syncing
  <2>4. CASE pc[r] \notin Busy
    BY <2>1, <2>2, <2>4 DEF Honest, Logged, Tracked, Busy, Warming, Syncing
  <2>5. QED
    BY <2>3, <2>4
<1>3. QED
  BY <1>1, <1>2 DEF Inv

\* The inductive invariant holds in every reachable state.
THEOREM InvHolds == Spec => []Inv
<1>1. Inv /\ Next => Inv'
  <2>1. ASSUME Inv, NEW q \in Requests, Handle(q) PROVE Inv'
    <3>1. CASE Conflict(q) \/ Fail(q)
      BY <2>1, <3>1, BreakInv DEF Conflict, Fail, Busy
    <3>2. QED
      BY <2>1, <3>1, ArriveInv, PullInv, DeleteInv, ListModelsInv, ReadRowInv, WriteRowInv,
         CommitSyncInv, PickInv, ResolveInv, LoadInv, AuditInv DEF Handle
  <2>2. QED
    BY <2>1, ElsewhereInv, CrashInv DEF Next
<1>2. Inv /\ UNCHANGED vars => Inv'
  BY StillInv DEF vars, handlers, history, Still, Spared, Inv, TypeOK
<1>3. QED
  BY InitInv, <1>1, <1>2, PTL DEF Spec

\* Every reachable state is well typed, and a row that waits for its commit
\* has one owner, who is still synchronising (sync_local_models).
THEOREM TypeCorrect == Spec => []TypeOK
  BY InvHolds, PTL DEF Inv

\* The audit log names what Ollama did (pull_model, delete_model,
\* models_warmup, models_warmup_all).
THEOREM AuditsAreExact == Spec => []AuditIsExact
<1>1. Inv => AuditIsExact
  <2> SUFFICES ASSUME Inv, NEW q \in Requests,
                      told[q] # {} \/ (pc[q] = "ended" /\ q \notin broken)
               PROVE  /\ kind[q] \notin Warm => done[q] = TagsOf(told[q])
                      /\ kind[q] \in Warm => Agree(told[q], done[q])
    BY DEF AuditIsExact, Warm, Agree, Match, TagsOf
  <2>1. QED
    BY DEF Inv, Honest, Logged
<1>2. QED
  BY <1>1, InvHolds, PTL

\* A model whose pull is recorded is in the registry (sync_local_models).
THEOREM PullsAreRegistered == Spec => []PulledIsRegistered
<1>1. Inv => PulledIsRegistered
  BY DEF Inv, Tracked, PulledIsRegistered, TagsOf
<1>2. QED
  BY <1>1, InvHolds, PTL
=============================================================================

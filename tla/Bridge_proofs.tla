---------------------------- MODULE Bridge_proofs ----------------------------
(***************************************************************************)
(* Proofs about Bridge, for any models, names, requests and number of      *)
(* changes.                                                                *)
(***************************************************************************)
EXTENDS Bridge, TLAPS

(***************************************************************************)
(* The inductive invariant.  The history tells at least what is there now  *)
(* (Recorded); a cached capability was true of some variant of the name,   *)
(* or stands for a lookup that learned nothing (CacheIsExplained); and a   *)
(* request has tools, wants to show a model, or has one at all, only where *)
(* its handler put it (Staged).                                            *)
(***************************************************************************)
Over == {"idle", "done"}

Recorded ==
    /\ \A m \in Models : inventory[m] # "none" => inventory[m] \in was[m]
    /\ \A q \in Requests :
           pc[q] \notin Over => Available(inventory, loaded) \subseteq seen[q]

Backed(n, ability) == \E m \in Matching(n) : ability \in was[m]

CacheIsExplained ==
    \A n \in Names :
        /\ cache[n] = "tools" => Backed(n, "tools")
        /\ cache[n] = "plain" => n \in missed \/ Backed(n, "plain")

Staged ==
    \A q \in Requests :
        /\ tools[q] => pc[q] = "send"
        /\ pc[q] = "upstream" => kind[q] = "show"
        /\ pc[q] \notin Known => model[q] = None

Inv ==
    /\ TypeOK
    /\ Recorded
    /\ CacheIsExplained
    /\ Staged
    /\ AutoIsServable
    /\ ToolsNeedSupport
    /\ StripsAreExplained

-----------------------------------------------------------------------------

\* What Ollama takes a name for is one of the tags the bridge takes it for.
LEMMA DenotedMatches ==
    ASSUME NEW n \in Names
    PROVE  Denoted(n) \in Matching(n)
  BY NameAssumption DEF Denoted, Matching, Names, Bare

\* A name stands for tags, and a tag for itself.
LEMMA MatchesAreTags ==
    ASSUME NEW n
    PROVE  /\ Matching(n) \subseteq Models
           /\ n \in Models => Matching(n) = {n}
  BY DEF Matching

LEMMA InitInv == Init => Inv
  BY NameAssumption, ChangeAssumption
  DEF Init, Inv, TypeOK, Recorded, CacheIsExplained, Staged, AutoIsServable,
      ToolsNeedSupport, StripsAreExplained, Stripped, Over, Known, Abilities,
      Abilities0, Kinds, Names

\* A step that changes neither the history of the tags nor the cache leaves
\* what the cache holds explained, and so does one that only adds to them.
LEMMA CacheKept ==
    ASSUME Inv, UNCHANGED cache, missed \subseteq missed',
           \A m \in Models : was[m] \subseteq was'[m]
    PROVE  CacheIsExplained'
  BY MatchesAreTags DEF Inv, CacheIsExplained, Backed

\* What a lookup learns is explained: the capability of a matching tag, or
\* "completion" for want of any.
LEMMA LearnInv ==
    ASSUME Inv, NEW q \in Requests, NEW ability \in Abilities,
           pc[q] \in {"tags", "show"}, Learn(q, ability), UNCHANGED looking,
           \/ Backed(model[q], ability) /\ UNCHANGED <<missed, ownMiss>>
           \/ /\ ability = "plain"
              /\ missed' = missed \cup {model[q]}
              /\ ownMiss' = ownMiss \cup {q}
    PROVE  Inv'
<1> USE DEF looking, ollama, asked, Learn, Decide, Goto
<1>1. model[q] \in Names
  BY DEF Inv, TypeOK, Known
<1>2. TypeOK'
  BY <1>1 DEF Inv, TypeOK, Known, Abilities
<1>3. Recorded'
  BY DEF Inv, TypeOK, Recorded, Over
<1>4. CacheIsExplained'
  BY <1>1 DEF Inv, TypeOK, CacheIsExplained, Backed, Abilities
<1>5. Staged'
  BY DEF Inv, TypeOK, Staged, Known
<1>6. AutoIsServable'
  BY <1>1, NameAssumption DEF Inv, TypeOK, AutoIsServable, Known
<1>7. ToolsNeedSupport'
  BY DEF Inv, TypeOK, ToolsNeedSupport, Backed, Abilities
<1>8. StripsAreExplained'
  BY DEF Inv, TypeOK, StripsAreExplained, Stripped, Backed, Abilities
<1> QED
  BY <1>2, <1>3, <1>4, <1>5, <1>6, <1>7, <1>8 DEF Inv

\* A request is given a chat model that is there now.
LEMMA ResolvedInv ==
    ASSUME Inv, NEW q \in Requests, NEW m \in ChatModels,
           m \in Available(inventory, loaded),
           pc[q] \in {"running", "smallest", "default", "any"},
           Resolved(q, m), UNCHANGED resolving
    PROVE  Inv'
<1> USE DEF resolving, ollama, asked, Resolved, AskedFor, Goto
<1>1. m \in Names /\ m # None
  BY NameAssumption DEF Names, Models
<1>2. TypeOK'
  BY <1>1 DEF Inv, TypeOK, Known, Kinds
<1>3. Recorded' /\ Staged'
  BY DEF Inv, TypeOK, Recorded, Staged, Over, Known
<1>4. CacheIsExplained'
  BY DEF Inv, CacheIsExplained, Backed
<1>5. AutoIsServable'
  BY DEF Inv, TypeOK, Recorded, Over, AutoIsServable
<1>6. ToolsNeedSupport' /\ StripsAreExplained'
  BY DEF Inv, TypeOK, ToolsNeedSupport, StripsAreExplained, Stripped, Staged, Kinds
<1> QED
  BY <1>2, <1>3, <1>4, <1>5, <1>6 DEF Inv

\* A request goes on without a model.
LEMMA GoesOnInv ==
    ASSUME Inv, NEW q \in Requests, UNCHANGED <<resolving, model>>,
           \/ /\ pc[q] \in {"running", "smallest", "default"}
              /\ Goto(q, "smallest") \/ Goto(q, "default") \/ Goto(q, "any")
           \/ /\ pc[q] = "cache"
              /\ Goto(q, "tags")
           \/ /\ pc[q] = "tags"
              /\ Goto(q, "show")
           \/ /\ pc[q] = "upstream"
              /\ Goto(q, "cache")
    PROVE  Inv'
<1> USE DEF resolving, ollama, asked, Goto
<1>1. TypeOK'
  BY DEF Inv, TypeOK, Known
<1>2. Recorded' /\ Staged'
  BY DEF Inv, TypeOK, Recorded, Staged, Over, Known
<1>3. CacheIsExplained'
  BY DEF Inv, CacheIsExplained, Backed
<1>4. AutoIsServable'
  BY DEF Inv, TypeOK, AutoIsServable, Known
<1>5. ToolsNeedSupport' /\ StripsAreExplained'
  BY DEF Inv, TypeOK, ToolsNeedSupport, StripsAreExplained, Stripped, Staged
<1> QED
  BY <1>1, <1>2, <1>3, <1>4, <1>5 DEF Inv

\* A request ends.
LEMMA EndInv ==
    ASSUME Inv, NEW q \in Requests, End(q), UNCHANGED <<ollama, cache, was, missed>>
    PROVE  Inv'
<1> USE DEF ollama, End, Goto
<1>1. TypeOK'
  BY DEF Inv, TypeOK, Known, Kinds
<1>2. Recorded' /\ Staged'
  BY DEF Inv, TypeOK, Recorded, Staged, Over, Known
<1>3. CacheIsExplained'
  BY DEF Inv, CacheIsExplained, Backed
<1>4. AutoIsServable'
  BY DEF Inv, TypeOK, AutoIsServable, Known
<1>5. ToolsNeedSupport' /\ StripsAreExplained'
  BY DEF Inv, TypeOK, ToolsNeedSupport, StripsAreExplained, Stripped
<1> QED
  BY <1>1, <1>2, <1>3, <1>4, <1>5 DEF Inv

\* The decision of a request that learned nothing new: its capability is
\* backed, or it stands for a lookup that failed.
LEMMA DecideInv ==
    ASSUME Inv, NEW q \in Requests, NEW ability \in Abilities,
           pc[q] \in {"cache", "upstream"},
           Decide(q, ability), UNCHANGED <<looking, cache, missed, ownMiss>>,
           \/ Backed(model[q], ability)
           \/ ability = "plain" /\ model[q] \in missed
    PROVE  Inv'
<1> USE DEF looking, ollama, asked, Decide, Goto
<1>1. TypeOK'
  BY DEF Inv, TypeOK, Known
<1>2. Recorded' /\ Staged'
  BY DEF Inv, TypeOK, Recorded, Staged, Over, Known
<1>3. CacheIsExplained'
  BY DEF Inv, CacheIsExplained, Backed
<1>4. AutoIsServable'
  BY NameAssumption DEF Inv, TypeOK, AutoIsServable, Known
<1>5. ToolsNeedSupport'
  BY DEF Inv, TypeOK, ToolsNeedSupport, Backed, Abilities
<1>6. StripsAreExplained'
  BY DEF Inv, TypeOK, StripsAreExplained, Stripped, Backed, Abilities
<1> QED
  BY <1>1, <1>2, <1>3, <1>4, <1>5, <1>6 DEF Inv

-----------------------------------------------------------------------------

\* One step of a request.
LEMMA HandleInv ==
    ASSUME Inv, NEW q \in Requests, Handle(q)
    PROVE  Inv'
<1>1. CASE \E k \in Kinds, w \in Asked \cup {AutoModel} : Ask(q, k, w)
  <2> PICK k \in Kinds, w \in Asked \cup {AutoModel} : Ask(q, k, w)
    BY <1>1
  <2> USE NameAssumption DEF Ask, ollama, Goto
  <2>1. TypeOK'
    <3>1. /\ pc' \in [Requests -> {"idle", "done", "running", "smallest", "default", "any"} \cup Known]
          /\ kind' \in [Requests -> Kinds]
          /\ want' \in [Requests -> Names \cup {AutoModel}]
          /\ model' \in [Requests -> Names \cup {None}]
      BY DEF Inv, TypeOK, Known
    <3>2. \A p \in Requests : pc'[p] \in Known \ {"send"} => model'[p] # None
      BY DEF Inv, TypeOK, Known
    <3>3. seen' \in [Requests -> SUBSET Models]
      BY DEF Inv, TypeOK, Available
    <3> QED
      BY <3>1, <3>2, <3>3 DEF Inv, TypeOK
  <2>2. Recorded' /\ Staged'
    BY DEF Inv, TypeOK, Recorded, Staged, Over, Known
  <2>3. CacheIsExplained'
    BY DEF Inv, CacheIsExplained, Backed
  <2>4. AutoIsServable'
    BY DEF Inv, TypeOK, AutoIsServable, Known, Names
  <2>5. ToolsNeedSupport' /\ StripsAreExplained'
    BY DEF Inv, TypeOK, ToolsNeedSupport, StripsAreExplained, Stripped
  <2> QED
    BY <2>1, <2>2, <2>3, <2>4, <2>5 DEF Inv
<1>2. CASE PickLoaded(q)
  BY <1>2, ResolvedInv, GoesOnInv DEF PickLoaded, Available
<1>3. CASE PickSmallest(q)
  BY <1>3, ResolvedInv, GoesOnInv DEF PickSmallest, Installed, Available
<1>4. CASE PickDefault(q)
  <2>1. StandIns(Default) \subseteq Installed
    BY DEF StandIns
  <2> QED
    BY <1>4, <2>1, ResolvedInv, GoesOnInv DEF PickDefault, Installed, Available
<1>5. CASE PickAny(q)
  <2>1. ASSUME NEW m \in Installed \cap ChatModels, Resolved(q, m),
               UNCHANGED <<asked, tools, ownMiss>>
        PROVE  Inv'
    BY <1>5, <2>1, ResolvedInv DEF PickAny, resolving, Installed, Available
  <2>2. ASSUME kind[q] = "tags", Goto(q, "send"), UNCHANGED <<asked, model, tools, ownMiss>>
        PROVE  Inv'
    <3> USE <1>5, <2>2 DEF PickAny, ollama, asked, Goto
    <3>1. TypeOK'
      BY DEF Inv, TypeOK, Known
    <3>2. Recorded' /\ Staged'
      BY DEF Inv, TypeOK, Recorded, Staged, Over, Known
    <3>3. CacheIsExplained'
      BY DEF Inv, CacheIsExplained, Backed
    <3>4. AutoIsServable'
      BY DEF Inv, TypeOK, Staged, AutoIsServable, Known
    <3>5. ToolsNeedSupport' /\ StripsAreExplained'
      BY DEF Inv, TypeOK, Staged, ToolsNeedSupport, StripsAreExplained, Stripped
    <3> QED
      BY <3>1, <3>2, <3>3, <3>4, <3>5 DEF Inv
  <2> QED
    BY <1>5, <2>1, <2>2, EndInv DEF PickAny
<1>6. CASE ReadCache(q)
  <2>1. model[q] \in Names
    BY <1>6 DEF ReadCache, Inv, TypeOK, Known
  <2>2. CASE cache[model[q]] = None
    BY <1>6, <2>2, GoesOnInv DEF ReadCache, looking, resolving, asked
  <2>3. CASE cache[model[q]] # None
    <3>1. cache[model[q]] \in Abilities
      BY <2>1, <2>3 DEF Inv, TypeOK
    <3> QED
      BY <1>6, <2>1, <2>3, <3>1, DecideInv DEF ReadCache, Inv, CacheIsExplained, Abilities
  <2> QED
    BY <2>2, <2>3
<1>7. CASE ReadTags(q)
  <2>1. model[q] \in Names
    BY <1>7 DEF ReadTags, Inv, TypeOK, Known
  <2>2. ASSUME NEW m \in Matching(model[q]) \cap Installed, Learn(q, inventory[m])
        PROVE  Inv'
    <3>1. inventory[m] \in Abilities /\ inventory[m] \in was[m]
      BY <2>2, MatchesAreTags DEF Inv, TypeOK, Recorded, Installed
    <3> QED
      BY <1>7, <2>2, <3>1, LearnInv DEF ReadTags, Backed
  <2> QED
    BY <1>7, <2>2, GoesOnInv DEF ReadTags, looking, resolving, asked
<1>8. CASE ShowModel(q)
  <2>1. model[q] \in Names
    BY <1>8 DEF ShowModel, Inv, TypeOK, Known
  <2> DEFINE d == Denoted(model[q])
  <2>2. ASSUME d \in Installed, Learn(q, inventory[d]), UNCHANGED <<missed, ownMiss>>
        PROVE  Inv'
    <3>1. d \in Matching(model[q]) /\ inventory[d] \in Abilities /\ inventory[d] \in was[d]
      BY <2>1, <2>2, DenotedMatches DEF Inv, TypeOK, Recorded, Installed
    <3> QED
      BY <1>8, <2>2, <3>1, LearnInv DEF ShowModel, Backed
  <2>3. CASE AssumePlain(q)
    BY <1>8, <2>3, LearnInv DEF ShowModel, AssumePlain, Abilities
  <2> QED
    BY <1>8, <2>2, <2>3 DEF ShowModel
<1>9. CASE ShowAuto(q)
  <2>1. ASSUME model[q] \in Installed, Decide(q, inventory[model[q]])
        PROVE  Inv'
    <3>1. /\ Matching(model[q]) = {model[q]}
          /\ inventory[model[q]] \in Abilities
          /\ inventory[model[q]] \in was[model[q]]
      BY <2>1, MatchesAreTags DEF Inv, TypeOK, Recorded, Installed
    <3> QED
      BY <1>9, <2>1, <3>1, DecideInv DEF ShowAuto, Backed
  <2> QED
    BY <1>9, <2>1, GoesOnInv DEF ShowAuto, looking, resolving, asked
<1>10. CASE Forward(q)
  BY <1>10, EndInv DEF Forward
<1>11. CASE Fail(q)
  BY <1>11, EndInv DEF Fail
<1> QED
  BY <1>1, <1>2, <1>3, <1>4, <1>5, <1>6, <1>7, <1>8, <1>9, <1>10, <1>11 DEF Handle

\* A change of Ollama's inventory.
LEMMA InventoryInv ==
    ASSUME Inv, NEW inv \in [Models -> Abilities \cup {"none"}],
           NEW ld \in SUBSET Models, Inventory(inv, ld)
    PROVE  Inv'
<1> USE DEF Inventory, Abilities0
<1>1. TypeOK'
  BY ChangeAssumption DEF Inv, TypeOK, Known, Available, Abilities
<1>2. Recorded' /\ Staged'
  BY DEF Inv, TypeOK, Recorded, Staged, Over, Known, Available
<1>3. \A m \in Models : was[m] \subseteq was'[m]
  OBVIOUS
<1>4. CacheIsExplained'
  BY <1>3, CacheKept
<1>5. AutoIsServable'
  BY DEF Inv, TypeOK, AutoIsServable, Known
<1>6. ToolsNeedSupport' /\ StripsAreExplained'
  BY <1>3, MatchesAreTags DEF Inv, TypeOK, ToolsNeedSupport, StripsAreExplained, Stripped
<1> QED
  BY <1>1, <1>2, <1>4, <1>5, <1>6 DEF Inv

LEMMA RestartInv ==
    ASSUME Inv, Restart
    PROVE  Inv'
<1> USE DEF Restart, Abilities0
<1>1. TypeOK'
  BY NameAssumption, ChangeAssumption DEF Inv, TypeOK, Known, Abilities, Kinds, Names
<1>2. Recorded' /\ Staged'
  BY DEF Inv, TypeOK, Recorded, Staged, Over, Known
<1>3. CacheIsExplained'
  BY NameAssumption DEF CacheIsExplained, Abilities
<1>4. AutoIsServable' /\ ToolsNeedSupport' /\ StripsAreExplained'
  BY DEF AutoIsServable, Known, ToolsNeedSupport, StripsAreExplained, Stripped
<1> QED
  BY <1>1, <1>2, <1>3, <1>4 DEF Inv

\* The inductive invariant holds in every reachable state.
THEOREM InvHolds == Spec => []Inv
<1>1. Inv /\ [Next]_vars => Inv'
  <2> SUFFICES ASSUME Inv, [Next]_vars
               PROVE  Inv'
    OBVIOUS
  <2>1. ASSUME NEW q \in Requests, Handle(q)
        PROVE  Inv'
    BY <2>1, HandleInv
  <2>2. ASSUME NEW m \in Models, Delete(m) \/ Load(m) \/ Unload(m)
        PROVE  Inv'
    <3>1. CASE Delete(m)
      BY <3>1, InventoryInv DEF Delete, Inv, TypeOK, Abilities
    <3>2. CASE Load(m)
      BY <3>2, InventoryInv DEF Load, Inv, TypeOK
    <3>3. CASE Unload(m)
      BY <3>3, InventoryInv DEF Unload, Inv, TypeOK
    <3> QED
      BY <2>2, <3>1, <3>2, <3>3
  <2>3. ASSUME NEW m \in Models, NEW ability \in Abilities, Pull(m, ability)
        PROVE  Inv'
    BY <2>3, InventoryInv DEF Pull, Inv, TypeOK
  <2>4. CASE Restart
    BY <2>4, RestartInv
  <2>5. CASE UNCHANGED vars
    BY <2>5 DEF vars, ollama, asked, Inv, TypeOK, Recorded, CacheIsExplained, Staged,
        AutoIsServable, ToolsNeedSupport, StripsAreExplained, Stripped, Backed
  <2> QED
    BY <2>1, <2>2, <2>3, <2>4, <2>5 DEF Next
<1> QED
  BY InitInv, <1>1, PTL DEF Spec

\* Every reachable state is well typed.
THEOREM TypeCorrect == Spec => []TypeOK
<1>1. Inv => TypeOK
  BY DEF Inv
<1> QED
  BY InvHolds, <1>1, PTL

\* `auto' is given only chat models that Ollama had while the request ran.
THEOREM AutoResolves == Spec => []AutoIsServable
<1>1. Inv => AutoIsServable
  BY DEF Inv
<1> QED
  BY InvHolds, <1>1, PTL

\* Tools are sent to, and advertised of, models that could use them.
THEOREM ToolsAreSupported == Spec => []ToolsNeedSupport
<1>1. Inv => ToolsNeedSupport
  BY DEF Inv
<1> QED
  BY InvHolds, <1>1, PTL

\* A strip of tools has a cause.
THEOREM StripsHaveCauses == Spec => []StripsAreExplained
<1>1. Inv => StripsAreExplained
  BY DEF Inv
<1> QED
  BY InvHolds, <1>1, PTL
=============================================================================

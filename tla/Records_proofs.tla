---------------------------- MODULE Records_proofs ----------------------------
(***************************************************************************)
(* Proofs about Records, for any number of requests, of connections, of    *)
(* texts and of values.                                                    *)
(***************************************************************************)
EXTENDS Records, FiniteSetTheorems, TLAPS

Labels == {"idle", "waiting", "working", "probing", "probed", "reporting", "ended"}

PcType == pc \in [Requests -> Labels]

(***************************************************************************)
(* The inductive invariant. A request that has not arrived has left no     *)
(* trace (Fresh), an answered one has ended (Over). A handler that is      *)
(* about to commit holds an older row: if it saw a title, the chat has     *)
(* one; if it saw the default title, no user message was there when it     *)
(* read (Informed). There is a chat before it has messages, and it is      *)
(* created once (Created). A message stored by a request that failed was   *)
(* stored before its refresh failed (Stored), and of two requests with one *)
(* text at least one has failed (Resent).                                  *)
(***************************************************************************)
Fresh ==
    \A q \in Writers : pc[q] = "idle" =>
        op[q] = None /\ stage[q] = "none" /\ q \notin messages

Over == \A q \in Writers : stage[q] \in {"ok", "failed"} => pc[q] = "ended"

Reading(q) == pc[q] = "working" /\ stage[q] = "read" /\ op[q] \notin SettingOps

Informed ==
    \A q \in Writers : Reading(q) =>
        /\ snap[q] \in Chat
        /\ snap[q].title # None => chat.title # None
        /\ snap[q].title \in Texts => chat.title \in Texts
        /\ snap[q].title = NewChat /\ op[q] \in MessageOps => q \in openers

Created ==
    /\ chat.title = None => messages = {} /\ ~chat.archived
    /\ \A q \in Writers : Wants(q, "create") /\ stage[q] \in {"none", "read"} => chat.title = None
    /\ \A q1, q2 \in Writers : Wants(q1, "create") /\ Wants(q2, "create") => q1 = q2

Stored ==
    \A q \in messages :
        /\ stage[q] \notin {"none", "read"}
        /\ stage[q] = "failed" => q \in robbed

Resent ==
    \A q1, q2 \in Writers :
        q1 # q2 /\ op[q1] = op[q2] /\ op[q1] \in MessageOps =>
            stage[q1] = "failed" \/ stage[q2] = "failed"

Inv ==
    /\ TypeOK
    /\ PcType
    /\ Fresh
    /\ Over
    /\ Informed
    /\ Created
    /\ Stored
    /\ Resent
    /\ TitleIsOpening

-----------------------------------------------------------------------------

\* What a request does to the pool moves that request and no other.
LEMMA PoolStep ==
    ASSUME PcType, NEW q \in Requests, NEW n,
           \/ Arrive(q, n) \/ Begin(q) \/ GiveUp(q) \/ Commit(q) \/ Finish(q) \/ Reporting(q)
    PROVE  /\ PcType'
           /\ pc'[q] # "idle"
           /\ \A r \in Requests : r # q => pc'[r] = pc[r]
<1> USE DEF PcType, Labels, Goto
<1>1. CASE Arrive(q, n)
  BY <1>1 DEF Arrive
<1>2. CASE Begin(q)
  BY <1>2 DEF Begin
<1>3. CASE GiveUp(q)
  BY <1>3 DEF GiveUp, Close
<1>4. CASE Commit(q)
  BY <1>4 DEF Commit
<1>5. CASE Finish(q)
  BY <1>5 DEF Finish, Close
<1>6. CASE Reporting(q)
  BY <1>6 DEF Reporting, Report, Probe, ProbeGivesUp, ProbeDone
<1>7. QED
  BY <1>1, <1>2, <1>3, <1>4, <1>5, <1>6

\* The initial states satisfy the invariant.
LEMMA InitInv == Init => Inv
<1> SUFFICES ASSUME Init PROVE Inv
  OBVIOUS
<1> USE TitleAssumption DEF Init, PoolInit
<1>1. TypeOK
  <2>1. chat \in Chat
    BY DEF Chat
  <2>2. QED
    BY <2>1 DEF TypeOK, Stages
<1>2. PcType /\ Fresh /\ Over /\ Informed /\ Stored
  BY DEF PcType, Labels, Fresh, Over, Informed, Reading, Stored, Writers
<1>3. Resent
  BY WantedAssumption DEF Resent, Ops
<1>4. Created
  BY DEF Created, Wants
<1>5. TitleIsOpening
  BY DEF TitleIsOpening, UserMessages
<1>6. QED
  BY <1>1, <1>2, <1>3, <1>4, <1>5 DEF Inv

\* A request arrives: it has left no trace, and nobody else sends its text.
LEMMA ArriveInv ==
    ASSUME Inv, NEW q \in Writers, NEW o \in Wanted, ArriveWriting(q, o)
    PROVE  Inv'
<1> DEFINE n == IF o.kind \in Refreshing THEN 2 ELSE 1
<1>1. /\ PcType'
      /\ pc'[q] # "idle"
      /\ \A r \in Requests : r # q => pc'[r] = pc[r]
      /\ q \in Requests /\ Writers \subseteq Requests
  BY PoolStep DEF ArriveWriting, Inv, Writers
<1>2. pc[q] = "idle" /\ pc'[q] = "waiting"
  BY DEF ArriveWriting, Arrive, Goto, Inv, PcType, Writers
<1>3. /\ o \in Ops /\ o # None
      /\ op' = [op EXCEPT ![q] = o]
      /\ UNCHANGED <<tables, snap, stage, order, ghosts>>
  BY WantedAssumption DEF ArriveWriting, Ops
<1>4. op[q] = None /\ stage[q] = "none" /\ q \notin messages
  BY <1>2 DEF Inv, Fresh
<1>5. TypeOK'
  BY <1>3, <1>4 DEF Inv, TypeOK, tables, order, ghosts
<1>6. Fresh' /\ Over'
  BY <1>1, <1>3, <1>4 DEF Inv, TypeOK, Fresh, Over, tables
<1>7. Informed'
  <2>1. \A r \in Writers : Reading(r)' => r # q /\ Reading(r)
    BY <1>1, <1>2, <1>3 DEF Inv, TypeOK, Reading
  <2>2. QED
    BY <1>3, <2>1 DEF Inv, TypeOK, Informed, tables, order, ghosts
<1>8. Created'
  <2>1. \A r \in Writers : r # q => op'[r] = op[r]
    BY <1>3 DEF Inv, TypeOK
  <2>2. CASE o.kind = "create"
    <3>1. chat.title = None /\ \A r \in Writers : ~Wants(r, "create")
      BY <2>2 DEF ArriveWriting, Sendable
    <3>2. QED
      BY <1>3, <2>1, <3>1 DEF Inv, TypeOK, Created, Wants, tables
  <2>3. CASE o.kind # "create"
    BY <1>3, <2>1, <2>3 DEF Inv, TypeOK, Created, Wants, tables
  <2>4. QED
    BY <2>2, <2>3
<1>9. Stored'
  BY <1>3 DEF Inv, Stored, tables, order, ghosts
<1>10. Resent'
  <2>1. op'[q] = o /\ \A r \in Writers : r # q => op'[r] = op[r]
    BY <1>3 DEF Inv, TypeOK
  <2>2. o \in MessageOps => \A r \in Writers : op[r] = o => stage[r] = "failed"
    BY DEF ArriveWriting, Sendable, MessageOps
  <2>3. QED
    BY <1>3, <2>1, <2>2 DEF Inv, Resent
<1>11. TitleIsOpening'
  BY <1>3, <1>4 DEF Inv, TypeOK, TitleIsOpening, UserMessages, tables, order, ghosts
<1>12. QED
  BY <1>1, <1>5, <1>6, <1>7, <1>8, <1>9, <1>10, <1>11 DEF Inv

\* A handler reads its row.
LEMMA ReadInv ==
    ASSUME Inv, NEW q \in Writers, ReadRow(q)
    PROVE  Inv'
<1>1. /\ UNCHANGED <<poolVars, tables, op, order, robbed, amiss>>
      /\ openers \subseteq openers' /\ openers' \subseteq openers \cup {q}
      /\ snap' = [snap EXCEPT ![q] = IF op[q] \in SettingOps THEN setting ELSE chat]
      /\ stage' = [stage EXCEPT ![q] = "read"]
      /\ pc[q] = "working" /\ stage[q] = "none"
      /\ op[q] \in MessageOps /\ UserMessages = {} => q \in openers'
  BY DEF ReadRow, Stage
<1>2. stage' \in [Writers -> Stages] /\ \A r \in Writers : r # q => stage'[r] = stage[r]
  BY <1>1 DEF Inv, TypeOK, Stages
<1>3. TypeOK' /\ PcType'
  BY <1>1, <1>2 DEF Inv, TypeOK, PcType, tables, order, poolVars
<1>4. Informed'
  <2>1. ASSUME NEW r \in Writers, r # q, Reading(r)'
        PROVE  Reading(r) /\ snap'[r] = snap[r]
    BY <1>1, <1>2, <2>1 DEF Inv, TypeOK, Reading, poolVars
  <2>2. Reading(q)' => snap'[q] = chat
    BY <1>1 DEF Inv, TypeOK, Reading
  <2>3. chat \in Chat /\ chat' = chat /\ op' = op
    BY <1>1 DEF Inv, TypeOK, tables
  <2>4. chat.title = NewChat /\ op[q] \in MessageOps => q \in openers'
    BY <1>1 DEF Inv, TitleIsOpening
  <2>5. QED
    BY <1>1, <2>1, <2>2, <2>3, <2>4 DEF Inv, Informed
<1>5. Fresh' /\ Over' /\ Created' /\ Stored' /\ Resent'
  BY <1>1, <1>2 DEF Inv, TypeOK, Fresh, Over, Created, Wants, Stored, Resent, tables, poolVars
<1>6. TitleIsOpening'
  BY <1>1 DEF Inv, TitleIsOpening, UserMessages, tables
<1>7. QED
  BY <1>3, <1>4, <1>5, <1>6 DEF Inv

\* What every commit leaves in order, given what it does to the tables: it
\* neither unnames a chat nor finds one where the handler saw none.
LEMMA SaveFrame ==
    ASSUME Inv, NEW q \in Writers, Save(q)
    PROVE  /\ PcType' /\ Fresh' /\ Over' /\ Stored' /\ Resent'
           /\ \A r \in Writers : Reading(r)' => r # q /\ Reading(r) /\ snap'[r] = snap[r]
           /\ pc[q] = "working" /\ stage[q] = "read" /\ pc[q] # "idle"
           /\ elder' = elder
           /\ stage'[q] \in {"saved", "ok"}
           /\ \A r \in Writers : r # q => stage'[r] = stage[r]
           /\ stage' \in [Writers -> Stages]
           /\ snap' \in [Writers -> Chat \cup Values \cup {None}]
           /\ UNCHANGED <<op, openers, robbed>>
<1>1. /\ PcType'
      /\ pc'[q] # "idle"
      /\ \A r \in Requests : r # q => pc'[r] = pc[r]
      /\ Writers \subseteq Requests
  BY PoolStep DEF Save, Inv, Writers
<1>2. /\ stage'[q] \in {"saved", "ok"}
      /\ \A r \in Writers : r # q => stage'[r] = stage[r]
      /\ stage' \in [Writers -> Stages]
  BY DEF Save, Stage, Inv, TypeOK, Stages
<1>3. /\ pc[q] = "working" /\ stage[q] = "read"
      /\ UNCHANGED <<op, elder, openers, robbed>>
      /\ snap' = [snap EXCEPT ![q] = None]
  BY DEF Save
<1>4. messages' \subseteq messages \cup {q}
  BY DEF Save, Write, CreateChat, AddMessage, ArchiveChat, UpsertSetting
<1>5. Fresh' /\ Stored' /\ Resent'
  BY <1>1, <1>2, <1>3, <1>4 DEF Inv, TypeOK, Fresh, Stored, Resent
<1>6. ASSUME NEW r \in Writers, Reading(r)'
      PROVE  r # q /\ Reading(r) /\ snap'[r] = snap[r]
  BY <1>1, <1>2, <1>3, <1>6 DEF Inv, TypeOK, Reading
<1>7. snap' \in [Writers -> Chat \cup Values \cup {None}]
  BY <1>3 DEF Inv, TypeOK
<1>8. Over'
  <2>1. stage'[q] = "ok" => pc'[q] = "ended"
    BY DEF Save, Stage, Finish, Close, Goto, Inv, TypeOK, PcType, Writers
  <2>2. QED
    BY <1>1, <1>2, <2>1 DEF Inv, Over
<1>9. QED
  BY <1>1, <1>2, <1>3, <1>5, <1>6, <1>7, <1>8

\* A chat is created where there is none: no message, no handler knows it.
LEMMA CreateInv ==
    ASSUME Inv, NEW q \in Writers, Save(q), CreateChat(q)
    PROVE  Inv'
<1>1. /\ chat.title = None /\ chat' = [title |-> NewChat, archived |-> FALSE]
      /\ messages = {} /\ Wants(q, "create")
      /\ UNCHANGED <<messages, setting, audited, overtaken, amiss>>
  BY SaveFrame DEF CreateChat, Inv, Created
<1>2. chat' \in Chat /\ chat'.title = NewChat /\ chat'.title # None
  BY <1>1, TitleAssumption DEF Chat
<1>3. TypeOK'
  BY <1>1, <1>2, SaveFrame DEF Inv, TypeOK
<1>4. Informed'
  BY <1>1, <1>2, SaveFrame, TitleAssumption DEF Inv, Informed
<1>5. Created'
  BY <1>1, <1>2, SaveFrame DEF Inv, Created, Wants
<1>6. TitleIsOpening'
  BY <1>1, <1>2, SaveFrame, TitleAssumption DEF Inv, TitleIsOpening, UserMessages
<1>7. QED
  BY <1>3, <1>4, <1>5, <1>6, SaveFrame DEF Inv

\* A message is added; the chat is named at most once by a handler's leave.
LEMMA AddInv ==
    ASSUME Inv, NEW q \in Writers, Save(q), AddMessage(q)
    PROVE  Inv'
<1>1. /\ op[q] \in MessageOps /\ messages' = messages \cup {q}
      /\ UNCHANGED <<setting, audited, overtaken, amiss>>
      /\ chat' = Retitled(q) /\ snap[q].title # None
  BY DEF AddMessage
<1>2. Reading(q)
  BY <1>1, SaveFrame DEF Reading, MessageOps, SettingOps
<1>3. /\ op[q].kind \in {"message", "reply"} /\ op[q].arg \in Texts
      /\ snap[q] \in Chat /\ chat \in Chat /\ chat.title # None
      /\ snap[q].title \in Texts => chat.title \in Texts
      /\ snap[q].title = NewChat => q \in openers
  BY <1>1, <1>2 DEF Inv, TypeOK, Informed, MessageOps
<1>4. /\ chat' \in Chat /\ chat'.archived = chat.archived
      /\ snap[q].title = NewChat /\ op[q].kind = "message" => chat'.title = op[q].arg
      /\ ~(snap[q].title = NewChat /\ op[q].kind = "message") => chat' = chat
  BY <1>1, <1>3 DEF Retitled, Chat
<1>5. /\ chat'.title # None
      /\ chat.title \in Texts => chat'.title \in Texts
  BY <1>3, <1>4, TitleAssumption
<1>6. TypeOK'
  <2>1. messages' \subseteq {r \in Writers : op'[r] \in MessageOps}
    BY <1>1, SaveFrame DEF Inv, TypeOK
  <2>2. QED
    BY <1>1, <1>4, <2>1, SaveFrame DEF Inv, TypeOK
<1>7. Informed'
  BY <1>5, SaveFrame DEF Inv, Informed
<1>8. Created'
  BY <1>3, <1>5, SaveFrame DEF Inv, Created, Wants
<1>9. TitleIsOpening'
  <2>1. UserMessages' = IF op[q].kind = "message" THEN UserMessages \cup {q} ELSE UserMessages
    BY <1>1, SaveFrame DEF UserMessages
  <2>2. CASE snap[q].title = NewChat /\ op[q].kind = "message"
    BY <1>1, <1>3, <1>4, <2>1, <2>2, TitleAssumption, SaveFrame DEF TitleIsOpening
  <2>3. CASE snap[q].title = NewChat /\ op[q].kind # "message"
    BY <1>4, <2>1, <2>3, SaveFrame DEF Inv, TitleIsOpening
  <2>4. CASE snap[q].title \in Texts
    BY <1>3, <1>4, <2>1, <2>4, TitleAssumption, SaveFrame DEF Inv, TitleIsOpening
  <2>5. QED
    BY <1>1, <1>3, <2>2, <2>3, <2>4 DEF Chat
<1>10. QED
  BY <1>6, <1>7, <1>8, <1>9, SaveFrame DEF Inv

\* The chat is archived, whatever its title has become meanwhile.
LEMMA ArchiveInv ==
    ASSUME Inv, NEW q \in Writers, Save(q), ArchiveChat(q)
    PROVE  Inv'
<1>1. /\ Wants(q, "archive") /\ snap[q].title # None
      /\ chat' = [chat EXCEPT !.archived = TRUE]
      /\ UNCHANGED <<messages, setting, audited, overtaken, amiss>>
  BY DEF ArchiveChat
<1>2. Reading(q)
  BY <1>1, SaveFrame DEF Reading, Wants, SettingOps
<1>3. chat' \in Chat /\ chat'.title = chat.title /\ chat.title # None
  BY <1>1, <1>2 DEF Inv, TypeOK, Informed, Chat
<1>4. TypeOK'
  BY <1>1, <1>3, SaveFrame DEF Inv, TypeOK
<1>5. Informed'
  BY <1>3, SaveFrame DEF Inv, Informed
<1>6. Created'
  BY <1>3, SaveFrame DEF Inv, Created, Wants
<1>7. TitleIsOpening'
  BY <1>1, <1>3, SaveFrame DEF Inv, TitleIsOpening, UserMessages
<1>8. QED
  BY <1>4, <1>5, <1>6, <1>7, SaveFrame DEF Inv

\* The setting is inserted, updated or found unchanged, and audited.
LEMMA UpsertInv ==
    ASSUME Inv, NEW q \in Writers, Save(q), UpsertSetting(q)
    PROVE  Inv'
<1>1. /\ op[q] \in SettingOps /\ op[q].arg \in Values
      /\ setting' = IF snap[q] = op[q].arg THEN setting ELSE op[q].arg
      /\ audited' \in {audited, op[q].arg}
      /\ overtaken' = overtaken \cup elder[q]
      /\ UNCHANGED <<chat, messages>>
  BY DEF UpsertSetting, Audit, SettingOps
<1>2. TypeOK'
  <2>1. amiss' = (q \in overtaken \/ (setting # snap[q] /\ snap[q] = op[q].arg))
    BY DEF UpsertSetting
  <2>2. amiss' \in BOOLEAN
    BY <2>1, Zenon
  <2>3. overtaken' \subseteq Writers
    BY <1>1 DEF Inv, TypeOK
  <2>4. QED
    BY <1>1, <2>2, <2>3, SaveFrame DEF Inv, TypeOK
<1>3. Informed'
  BY <1>1, SaveFrame DEF Inv, Informed
<1>4. Created'
  BY <1>1, SaveFrame DEF Inv, Created, Wants
<1>5. TitleIsOpening'
  BY <1>1, SaveFrame DEF Inv, TitleIsOpening, UserMessages
<1>6. QED
  BY <1>2, <1>3, <1>4, <1>5, SaveFrame DEF Inv

\* The refresh, the answer, a failure and a report write no table.
LEMMA QuietInv ==
    ASSUME Inv, NEW q \in Requests, UNCHANGED tables, UNCHANGED <<op, openers, overtaken, amiss>>,
           elder' \in [Writers -> SUBSET Writers],
           /\ PcType' /\ pc'[q] # "idle" /\ \A r \in Requests : r # q => pc'[r] = pc[r],
           \A r \in Writers : Reading(r)' => Reading(r) /\ snap'[r] = snap[r],
           snap' \in [Writers -> Chat \cup Values \cup {None}],
           stage' \in [Writers -> Stages],
           \A r \in Writers : r # q => stage'[r] = stage[r],
           robbed' \subseteq {r \in Writers : stage'[r] = "failed"},
           robbed \subseteq robbed',
           q \in Writers /\ stage'[q] \in {"ok", "failed"} => pc'[q] = "ended",
           q \in Writers /\ stage[q] = "failed" => stage'[q] = "failed",
           q \in Writers /\ stage[q] # "none" => stage'[q] # "none",
           q \in messages => stage'[q] \notin {"none", "read"},
           q \in messages /\ stage'[q] = "failed" => q \in robbed',
           q \in Writers /\ Wants(q, "create") /\ stage'[q] \in {"none", "read"} =>
               stage[q] \in {"none", "read"}
    PROVE  Inv'
<1>1. TypeOK'
  BY DEF Inv, TypeOK, tables
<1>2. Fresh' /\ Over'
  BY DEF Inv, Fresh, Over, Writers, tables
<1>3. Informed'
  BY DEF Inv, Informed, tables
<1>4. Created'
  BY DEF Inv, Created, Wants, tables
<1>5. Stored' /\ Resent'
  BY DEF Inv, TypeOK, Stored, Resent, tables
<1>6. TitleIsOpening'
  BY DEF Inv, TitleIsOpening, UserMessages, tables
<1>7. QED
  BY <1>1, <1>2, <1>3, <1>4, <1>5, <1>6 DEF Inv

LEMMA AnsweringInv ==
    ASSUME Inv, NEW q \in Writers, Authenticate(q) \/ RefreshRow(q) \/ Answer(q) \/ Fail(q)
    PROVE  Inv'
<1>1. /\ PcType'
      /\ pc'[q] # "idle"
      /\ \A r \in Requests : r # q => pc'[r] = pc[r]
      /\ q \in Requests /\ Writers \subseteq Requests
  BY PoolStep DEF Authenticate, RefreshRow, Answer, Fail, Inv, Writers
<1>2. q \in messages => stage[q] \notin {"none", "read"} /\ (stage[q] = "failed" => q \in robbed)
  BY DEF Inv, Stored
<1>3. CASE RefreshRow(q)
  BY <1>1, <1>2, <1>3, QuietInv DEF RefreshRow, Reading, Inv, TypeOK, order, ghosts
<1>4. CASE Answer(q)
  <2>1. pc'[q] = "ended"
    BY <1>1, <1>4 DEF Answer, Finish, Close, Goto, Inv, PcType
  <2>2. QED
    BY <1>1, <1>2, <1>4, <2>1, QuietInv DEF Answer, Stage, Stages, Reading, Inv, TypeOK, order, ghosts
<1>5. CASE Fail(q)
  <2>1. pc'[q] = "ended" /\ pc[q] # "ended"
    BY <1>1, <1>5 DEF Fail, Finish, GiveUp, Close, Goto, Inv, PcType
  <2>2. /\ stage'[q] = "failed" /\ \A r \in Writers : r # q => stage'[r] = stage[r]
        /\ stage' \in [Writers -> Stages]
        /\ stage[q] \in {"none", "read", "saved"}
    BY <1>5, <2>1 DEF Fail, Stage, Inv, TypeOK, Stages, Over
  <2>3. /\ UNCHANGED <<tables, op, order, openers, amiss>>
        /\ snap' \in [Writers -> Chat \cup Values \cup {None}]
        /\ \A r \in Writers : r # q => snap'[r] = snap[r]
        /\ robbed' = IF stage[q] = "saved" THEN robbed \cup {q} ELSE robbed
    BY <1>5 DEF Fail, Inv, TypeOK
  <2>4. \A r \in Writers : Reading(r)' => Reading(r) /\ snap'[r] = snap[r]
    BY <1>1, <2>1, <2>2, <2>3 DEF Reading
  <2>5. /\ robbed' \subseteq {r \in Writers : stage'[r] = "failed"} /\ robbed \subseteq robbed'
        /\ q \in messages => q \in robbed'
    BY <1>2, <2>2, <2>3 DEF Inv, TypeOK
  <2>6. QED
    BY <1>1, <2>1, <2>2, <2>3, <2>4, <2>5, QuietInv DEF order, Inv, TypeOK
<1>6. CASE Authenticate(q)
  <2>1. /\ UNCHANGED <<tables, op, snap, stage, overtaken, ghosts>> /\ stage[q] = "none"
        /\ elder' \in [Writers -> SUBSET Writers]
    BY <1>6 DEF Authenticate, Setting, Inv, TypeOK
  <2>2. \A r \in Writers : Reading(r)' => Reading(r)
    BY <1>1, <2>1 DEF Reading
  <2>3. QED
    BY <1>1, <1>2, <2>1, <2>2, QuietInv DEF Inv, TypeOK, ghosts
<1>7. QED
  BY <1>3, <1>4, <1>5, <1>6

LEMMA ReportInv ==
    ASSUME Inv, NEW q \in Reports,
           ReportHealth(q) \/ (Arrive(q, 1) /\ UNCHANGED <<tables, op, snap, stage, order, ghosts>>)
    PROVE  Inv'
<1>1. /\ PcType'
      /\ pc'[q] # "idle"
      /\ \A r \in Requests : r # q => pc'[r] = pc[r]
      /\ q \in Requests /\ q \notin Writers /\ Writers \subseteq Requests
  BY PoolStep, PoolAssumption DEF ReportHealth, Inv, Writers
<1>2. UNCHANGED <<tables, op, snap, stage, order, ghosts>>
  BY DEF ReportHealth
<1>3. QED
  BY <1>1, <1>2, QuietInv DEF Reading, Inv, TypeOK, order, ghosts

LEMMA StutterInv == ASSUME Inv, UNCHANGED vars PROVE Inv'
  BY DEF vars, poolVars, tables, order, ghosts, Inv, TypeOK, PcType, Fresh, Over, Informed, Reading, Created,
     Wants, Stored, Resent, TitleIsOpening, UserMessages

\* The inductive invariant holds in every reachable state.
THEOREM InvHolds == Spec => []Inv
<1>1. Inv /\ [Next]_vars => Inv'
  BY ArriveInv, ReadInv, CreateInv, AddInv, ArchiveInv, UpsertInv, AnsweringInv, ReportInv,
     StutterInv DEF Next, Writing, Save, Write
<1>2. QED
  BY InitInv, <1>1, PTL DEF Spec

\* Every reachable state is well typed.
THEOREM TypeCorrect == Spec => []TypeOK
  BY InvHolds, PTL DEF Inv

\* A chat is named after an opening message (add_message).
THEOREM TitlesOpen == Spec => []TitleIsOpening
  BY InvHolds, PTL DEF Inv

\* Duplicates were saved and not acknowledged (add_message).
THEOREM DuplicatesAreExplained == Spec => []DuplicatesExplained
<1>1. Inv => DuplicatesExplained
  BY DEF Inv, TypeOK, Stored, Resent, DuplicatesExplained
<1>2. QED
  BY <1>1, InvHolds, PTL

\* No request undoes what another committed (chats.py, upsert_setting).
THEOREM NothingUndone == Spec => NothingIsUndone
<1> DEFINE Kept == /\ chat.archived => chat'.archived
                   /\ chat.title \in Texts => chat'.title \in Texts
                   /\ setting # None => setting' # None
<1>1. Inv /\ [Next]_vars => [Kept]_vars
  <2> SUFFICES ASSUME Inv, Next PROVE Kept
    OBVIOUS
  <2>1. CASE UNCHANGED tables
    BY <2>1 DEF tables
  <2>2. ASSUME NEW q \in Writers, Save(q) PROVE Kept
    <3>1. CASE CreateChat(q)
      BY <2>2, <3>1, SaveFrame, TitleAssumption DEF CreateChat, Inv, Created
    <3>2. CASE AddMessage(q)
      <4>1. /\ op[q] \in MessageOps /\ op[q].arg \in Texts /\ chat \in Chat
            /\ UNCHANGED <<setting, audited, overtaken, amiss>>
            /\ chat' = Retitled(q)
        BY <3>2 DEF AddMessage, MessageOps, Inv, TypeOK
      <4>2. QED
        BY <4>1 DEF Retitled, Chat
    <3>3. CASE ArchiveChat(q)
      BY <3>3 DEF ArchiveChat, Inv, TypeOK, Chat
    <3>4. CASE UpsertSetting(q)
      BY <3>4, TitleAssumption DEF UpsertSetting, SettingOps, Inv, TypeOK
    <3>5. QED
      BY <2>2, <3>1, <3>2, <3>3, <3>4 DEF Save, Write
  <2>3. QED
    BY <2>1, <2>2
    DEF Next, Writing, ArriveWriting, Authenticate, ReadRow, RefreshRow, Answer, Fail, ReportHealth
<1>2. QED
  BY <1>1, InvHolds, PTL DEF Spec, NothingIsUndone
-----------------------------------------------------------------------------
(***************************************************************************)
(* The order of the audit records.  Of two requests for the setting whose  *)
(* transactions are under way, one is the elder of the other; and only     *)
(* where there have been two can one be overtaken, or the setting change   *)
(* while a handler holds an older value.                                   *)
(***************************************************************************)
Overlap == \E q \in Writers : elder[q] # {}

Ordered ==
    /\ \A q \in Writers : pc[q] \in {"idle", "waiting"} /\ stage[q] = "none" => elder[q] = {}
    /\ \A q, r \in Setting : q # r => r \in elder[q] \/ q \in elder[r]
    /\ overtaken # {} => Overlap
    /\ \A q \in Setting : stage[q] = "read" => snap[q] = setting \/ Overlap

OrderInv == Ordered /\ SettingAudited

\* A step that begins no transaction, reads no setting and writes none.
LEMMA OrderKept ==
    ASSUME OrderInv, UNCHANGED <<setting, audited, amiss, order>>,
           \A r \in Writers : r \in Setting' =>
               r \in Setting /\ stage'[r] = stage[r] /\ snap'[r] = snap[r],
           \A r \in Writers : pc'[r] \in {"idle", "waiting"} /\ stage'[r] = "none" =>
               pc[r] \in {"idle", "waiting"} /\ stage[r] = "none"
    PROVE  OrderInv'
<1>1. \A r \in Setting' : r \in Writers /\ r \in Setting
  BY DEF Setting
<1>2. QED
  BY <1>1 DEF OrderInv, Ordered, SettingAudited, Overlap, order

\* A transaction begins: those that are under way are its elders.
LEMMA AuthenticateOrder ==
    ASSUME Inv, OrderInv, NEW q \in Writers, Authenticate(q)
    PROVE  OrderInv'
<1>1. /\ pc[q] = "waiting" /\ stage[q] = "none" /\ q \in Requests
      /\ pc' = [pc EXCEPT ![q] = "working"]
      /\ elder' = [elder EXCEPT ![q] = IF op[q] \in SettingOps THEN Setting ELSE {}]
      /\ UNCHANGED <<setting, audited, op, snap, stage, overtaken, amiss>>
  BY DEF Authenticate, Begin, Goto, tables, ghosts, Writers
<1>2. /\ elder'[q] = IF op[q] \in SettingOps THEN Setting ELSE {}
      /\ \A r \in Writers : r # q => elder'[r] = elder[r] /\ pc'[r] = pc[r]
      /\ elder[q] = {}
  BY <1>1 DEF Inv, TypeOK, PcType, OrderInv, Ordered, Writers
<1>3. Setting' = IF op[q] \in SettingOps THEN Setting \cup {q} ELSE Setting
  BY <1>1, <1>2 DEF Setting, Inv, PcType
<1>4. Overlap => Overlap'
  BY <1>2 DEF Overlap
<1>5. \A r \in Writers : pc'[r] \in {"idle", "waiting"} => r # q
  BY <1>1 DEF Inv, PcType
<1>6. \A r \in Setting : r \in Writers /\ r # q
  BY <1>1 DEF Setting
<1>7. Ordered'
  <2>1. \A p, r \in Setting' : p # r => r \in elder'[p] \/ p \in elder'[r]
    BY <1>2, <1>3, <1>6 DEF OrderInv, Ordered
  <2>2. \A r \in Setting' : stage'[r] = "read" => snap'[r] = setting' \/ Overlap'
    BY <1>1, <1>3, <1>4 DEF OrderInv, Ordered
  <2>3. QED
    BY <1>1, <1>2, <1>4, <1>5, <2>1, <2>2 DEF OrderInv, Ordered
<1>8. SettingAudited'
  BY <1>1, <1>4 DEF OrderInv, SettingAudited, Overlap
<1>9. QED
  BY <1>7, <1>8 DEF OrderInv

\* The setting is read.
LEMMA ReadOrder ==
    ASSUME Inv, OrderInv, NEW q \in Writers, ReadRow(q)
    PROVE  OrderInv'
<1>1. /\ pc[q] = "working" /\ stage[q] = "none"
      /\ UNCHANGED <<pc, setting, audited, op, elder, overtaken, amiss>>
      /\ snap'[q] = IF op[q] \in SettingOps THEN setting ELSE chat
      /\ stage'[q] = "read"
      /\ \A r \in Writers : r # q => stage'[r] = stage[r] /\ snap'[r] = snap[r]
  BY DEF ReadRow, Stage, poolVars, tables, order, Inv, TypeOK
<1>2. Setting' = Setting
  BY <1>1 DEF Setting
<1>3. \A r \in Setting : stage'[r] = "read" => snap'[r] = setting \/ Overlap
  BY <1>1 DEF Setting, OrderInv, Ordered
<1>4. \A r \in Writers : stage'[r] = "none" => stage[r] = "none"
  BY <1>1
<1>5. QED
  BY <1>1, <1>2, <1>3, <1>4 DEF OrderInv, Ordered, SettingAudited, Overlap

\* The setting is written and its record put where its transaction began.
LEMMA UpsertOrder ==
    ASSUME Inv, OrderInv, NEW q \in Writers, Save(q), UpsertSetting(q)
    PROVE  OrderInv'
<1>1. /\ op[q] \in SettingOps /\ op[q].arg \in Values
      /\ setting' = IF snap[q] = op[q].arg THEN setting ELSE op[q].arg
      /\ audited' = IF q \in overtaken THEN audited ELSE op[q].arg
      /\ overtaken' = overtaken \cup elder[q]
      /\ amiss' <=> (q \in overtaken \/ (setting # snap[q] /\ snap[q] = op[q].arg))
      /\ elder' = elder /\ op' = op
  BY SaveFrame DEF UpsertSetting, Audit, SettingOps
<1>2. q \in Setting /\ stage[q] = "read"
  BY <1>1, SaveFrame DEF Setting
<1>3. pc' \in [Requests -> Labels] /\ \A r \in Requests : r # q => pc'[r] = pc[r]
  BY PoolStep DEF Save, Inv, Writers, PcType
<1>4. \A r \in Setting' : r # q /\ r \in Setting /\ stage'[r] = stage[r] /\ snap'[r] = snap[r]
  <2>1. \A r \in Writers : r # q => snap'[r] = snap[r]
    BY DEF Save, Inv, TypeOK
  <2>2. QED
    BY <1>1, <1>3, <2>1, SaveFrame DEF Setting, Writers
<1>5. \A r \in Setting' : Overlap'
  BY <1>1, <1>2, <1>4 DEF OrderInv, Ordered, Overlap, Setting
<1>6. Overlap' <=> Overlap
  BY <1>1 DEF Overlap
<1>7. \A r \in Writers : pc'[r] \in {"idle", "waiting"} /\ stage'[r] = "none" =>
        pc[r] \in {"idle", "waiting"} /\ stage[r] = "none"
  BY <1>3, SaveFrame DEF Writers
<1>8. Ordered'
  <2>1. \A p, r \in Setting' : p # r => r \in elder'[p] \/ p \in elder'[r]
    BY <1>1, <1>4 DEF OrderInv, Ordered
  <2>2. overtaken' # {} => Overlap'
    BY <1>1, <1>6 DEF OrderInv, Ordered, Overlap
  <2>3. QED
    BY <1>1, <1>5, <1>7, <2>1, <2>2 DEF OrderInv, Ordered
<1>9. SettingAudited'
  <2>1. amiss' => Overlap
    BY <1>1, <1>2 DEF OrderInv, Ordered
  <2>2. ~amiss' => setting' = audited'
    BY <1>1
  <2>3. QED
    BY <1>6, <2>1, <2>2 DEF SettingAudited, Overlap
<1>10. QED
  BY <1>8, <1>9 DEF OrderInv

\* All other steps leave the order, the setting and its record alone.
LEMMA OrderStep ==
    ASSUME Inv, OrderInv, [Next]_vars
    PROVE  OrderInv'
<1>1. CASE UNCHANGED vars
  BY <1>1, OrderKept DEF vars, poolVars, tables, ghosts, Setting
<1>2. ASSUME NEW q \in Writers, NEW o \in Wanted, ArriveWriting(q, o)
      PROVE  OrderInv'
  <2>1. /\ pc[q] = "idle" /\ pc' = [pc EXCEPT ![q] = "waiting"]
        /\ op' = [op EXCEPT ![q] = o]
        /\ UNCHANGED <<setting, audited, snap, stage, order, amiss>>
    BY <1>2 DEF ArriveWriting, Arrive, Goto, tables, ghosts
  <2>2. \A r \in Writers : r \in Setting' => r \in Setting
    BY <2>1 DEF Setting, Inv, TypeOK, PcType, Writers
  <2>3. \A r \in Writers : pc'[r] \in {"idle", "waiting"} => pc[r] \in {"idle", "waiting"}
    BY <2>1 DEF Inv, PcType, Writers
  <2>4. QED
    BY <2>1, <2>2, <2>3, OrderKept
<1>3. ASSUME NEW q \in Writers, Save(q), ~UpsertSetting(q)
      PROVE  OrderInv'
  <2>1. UNCHANGED <<setting, audited, amiss, order>>
    BY <1>3, SaveFrame DEF Save, Write, CreateChat, AddMessage, ArchiveChat, order
  <2>2. /\ \A r \in Requests : r # q => pc'[r] = pc[r]
        /\ \A r \in Writers : r # q => snap'[r] = snap[r]
    BY <1>3, PoolStep DEF Save, Inv, TypeOK, Writers
  <2>3. /\ \A r \in Writers : r \in Setting' => r \in Setting /\ r # q
        /\ \A r \in Writers : stage'[r] = "none" => r # q
    BY <1>3, <2>2, SaveFrame DEF Setting, Writers
  <2>4. QED
    BY <1>3, <2>1, <2>2, <2>3, SaveFrame, OrderKept DEF Writers
<1>4. ASSUME NEW q \in Writers, RefreshRow(q) \/ Answer(q) \/ Fail(q)
      PROVE  OrderInv'
  <2>1. /\ UNCHANGED <<setting, audited, amiss, order, op>>
        /\ \A r \in Writers : r # q => snap'[r] = snap[r] /\ stage'[r] = stage[r]
        /\ stage'[q] \in {"saved", "ok", "failed"}
    BY <1>4 DEF RefreshRow, Answer, Fail, Stage, tables, ghosts, Inv, TypeOK
  <2>2. \A r \in Requests : r # q => pc'[r] = pc[r]
    BY <1>4, PoolStep DEF RefreshRow, Answer, Fail, Inv, Writers
  <2>3. \A r \in Writers : r \in Setting' => r \in Setting /\ r # q
    BY <2>1, <2>2 DEF Setting, Writers
  <2>4. QED
    BY <2>1, <2>2, <2>3, OrderKept DEF Writers
<1>5. ASSUME NEW q \in Reports,
             ReportHealth(q) \/ (Arrive(q, 1) /\ UNCHANGED <<tables, op, snap, stage, order, ghosts>>)
      PROVE  OrderInv'
  <2>1. UNCHANGED <<setting, audited, amiss, order, op, snap, stage>>
    BY <1>5 DEF ReportHealth, tables, ghosts
  <2>2. \A r \in Writers : pc'[r] = pc[r]
    BY <1>5, PoolStep, PoolAssumption DEF ReportHealth, Inv, Writers
  <2>3. \A r \in Writers : r \in Setting' => r \in Setting
    BY <2>1, <2>2 DEF Setting
  <2>4. QED
    BY <2>1, <2>2, <2>3, OrderKept
<1>6. QED
  BY <1>1, <1>2, <1>3, <1>4, <1>5, AuthenticateOrder, ReadOrder, UpsertOrder DEF Next, Writing

\* The setting is what its newest audit record tells, but where two requests
\* for it overlapped and the last to write was overtaken or had nothing to
\* write (upsert_setting, settings_save).
THEOREM SettingsAreAudited == Spec => []SettingAudited
<1>1. Init => OrderInv
  <2> SUFFICES ASSUME Init PROVE OrderInv
    OBVIOUS
  <2>1. Setting = {}
    BY DEF Init, PoolInit, Setting, Writers
  <2>2. \A q \in Writers : elder[q] = {}
    BY DEF Init
  <2>3. QED
    BY <2>1, <2>2 DEF Init, OrderInv, Ordered, SettingAudited
<1>2. Inv /\ OrderInv /\ [Next]_vars => OrderInv'
  BY OrderStep
<1>3. OrderInv => SettingAudited
  BY DEF OrderInv
<1>4. QED
  BY <1>1, <1>2, <1>3, InvHolds, PTL DEF Spec

-----------------------------------------------------------------------------
(***************************************************************************)
(* The pool of connections, for any number of requests and connections.    *)
(* What a request holds follows from where it is (Holding), and one that   *)
(* waits has a transaction to begin.  With that, each step takes one       *)
(* connection from the pool or brings one back, and the count of           *)
(* CheckedOut moves by one the other way.                                  *)
(***************************************************************************)
Holding ==
    \A q \in Requests :
        /\ pc[q] \in {"idle", "waiting", "ended"} => held[q] = 0
        /\ pc[q] \in {"working", "probing", "reporting"} => held[q] = 1
        /\ pc[q] = "probed" => held[q] = 2
        /\ pc[q] = "waiting" => left[q] > 0

Balance == free + Cardinality(CheckedOut) = Capacity

PoolInv ==
    /\ free \in Nat
    /\ held \in [Requests -> 0..2]
    /\ PcType
    /\ left \in [Requests -> Nat]
    /\ Balance
    /\ Holding

LEMMA CheckedOutFinite ==
    /\ IsFiniteSet(CheckedOut)
    /\ Cardinality(CheckedOut) \in Nat
<1>1. IsFiniteSet({1, 2})
  <2>1. 1 \in Int /\ 2 \in Int /\ 1..2 = {1, 2}
    OBVIOUS
  <2>2. IsFiniteSet(1..2)
    BY <2>1, FS_Interval
  <2>3. QED
    BY <2>1, <2>2
<1>2. IsFiniteSet(Requests \X {1, 2})
  BY <1>1, FS_Product, PoolAssumption
<1>3. CheckedOut \in SUBSET (Requests \X {1, 2})
  BY DEF CheckedOut
<1>4. QED
  BY <1>2, <1>3, FS_Subset, FS_CardinalityType

\* A connection that is checked out is one more in the hands of its request.
LEMMA CheckOutBalance ==
    ASSUME PoolInv, NEW q \in Requests, held[q] < 2, CheckOut(q)
    PROVE  /\ free' \in Nat
           /\ held' \in [Requests -> 0..2]
           /\ Balance'
<1> DEFINE c == <<q, held[q] + 1>>
<1>1. held \in [Requests -> 0..2] /\ held[q] \in {0, 1}
  BY DEF PoolInv
<1>2. CheckedOut' = CheckedOut \cup {c}
  BY <1>1 DEF CheckedOut, CheckOut
<1>3. c \notin CheckedOut
  BY <1>1 DEF CheckedOut
<1>4. Cardinality(CheckedOut') = Cardinality(CheckedOut) + 1
  BY <1>2, <1>3, CheckedOutFinite, FS_AddElement
<1>5. free' \in Nat /\ held' \in [Requests -> 0..2]
  BY <1>1 DEF PoolInv, CheckOut
<1>6. Balance'
  BY <1>4, CheckedOutFinite, PoolAssumption DEF PoolInv, Balance, CheckOut
<1>7. QED
  BY <1>5, <1>6

\* A connection that is checked in is one less; checking in none is no change.
LEMMA CheckInBalance ==
    ASSUME PoolInv, NEW q \in Requests, NEW n \in {0, 1}, n <= held[q], CheckIn(q, n)
    PROVE  /\ free' \in Nat
           /\ held' \in [Requests -> 0..2]
           /\ Balance'
<1> DEFINE c == <<q, held[q]>>
<1>1. held \in [Requests -> 0..2] /\ held[q] \in 0..2 /\ free \in Nat
  BY DEF PoolInv
<1>2. free' \in Nat /\ held' \in [Requests -> 0..2]
  BY <1>1 DEF CheckIn
<1>3. CASE n = 1
  <2>1. CheckedOut' = CheckedOut \ {c}
    BY <1>1, <1>3 DEF CheckedOut, CheckIn
  <2>2. c \in CheckedOut
    BY <1>1, <1>3 DEF CheckedOut
  <2>3. Cardinality(CheckedOut') = Cardinality(CheckedOut) - 1
    BY <2>1, <2>2, CheckedOutFinite, FS_RemoveElement
  <2>4. Balance'
    BY <1>1, <1>3, <2>3, CheckedOutFinite, PoolAssumption DEF PoolInv, Balance, CheckIn
  <2>5. QED
    BY <1>2, <2>4
<1>4. CASE n = 0
  <2>1. free' = free /\ held' = held
    BY <1>1, <1>4 DEF CheckIn
  <2>2. QED
    BY <1>2, <2>1 DEF PoolInv, Balance, CheckedOut
<1>5. QED
  BY <1>3, <1>4

\* However it ends, a request gives back what it holds.
LEMMA CloseInv ==
    ASSUME PoolInv, NEW q \in Requests, pc[q] \in {"waiting", "working", "reporting"}, Close(q)
    PROVE  PoolInv'
<1>1. held[q] \in {0, 1} /\ held \in [Requests -> 0..2]
  BY DEF PoolInv, Holding
<1>2. free' \in Nat /\ held' \in [Requests -> 0..2] /\ Balance'
  BY <1>1, CheckInBalance DEF Close
<1>3. PcType' /\ left' \in [Requests -> Nat]
  BY DEF PoolInv, PcType, Labels, Close, Goto
<1>4. Holding'
  BY <1>1 DEF PoolInv, PcType, Holding, Close, CheckIn, Goto
<1>5. QED
  BY <1>2, <1>3, <1>4 DEF PoolInv

\* Every step of a request keeps the account of the pool.
LEMMA PoolStepInv ==
    ASSUME PoolInv, NEW q \in Requests, NEW n \in Nat \ {0},
           \/ Arrive(q, n) \/ Begin(q) \/ GiveUp(q) \/ Commit(q) \/ Finish(q) \/ Reporting(q)
    PROVE  PoolInv'
<1>0. PcType'
  BY PoolStep DEF PoolInv
<1>1. CASE Arrive(q, n)
  BY <1>0, <1>1 DEF Arrive, Goto, PoolInv, PcType, Holding, Balance, CheckedOut
<1>2. CASE Begin(q)
  <2>1. pc[q] = "waiting" /\ held[q] = 0 /\ left[q] > 0 /\ CheckOut(q)
    BY <1>2 DEF Begin, PoolInv, Holding
  <2>2. free' \in Nat /\ held' \in [Requests -> 0..2] /\ Balance'
    BY <2>1, CheckOutBalance
  <2>3. left' \in [Requests -> Nat]
    BY <1>2, <2>1 DEF Begin, PoolInv
  <2>4. Holding'
    BY <1>2, <2>1 DEF Begin, CheckOut, Goto, PoolInv, PcType, Holding
  <2>5. QED
    BY <1>0, <2>2, <2>3, <2>4 DEF PoolInv
<1>3. CASE GiveUp(q)
  BY <1>3, CloseInv DEF GiveUp
<1>4. CASE Commit(q)
  <2>1. pc[q] = "working" /\ held[q] = 1 /\ CheckIn(q, 1)
    BY <1>4 DEF Commit, PoolInv, Holding
  <2>2. free' \in Nat /\ held' \in [Requests -> 0..2] /\ Balance'
    BY <2>1, CheckInBalance
  <2>3. Holding'
    BY <1>4, <2>1 DEF Commit, CheckIn, Goto, PoolInv, PcType, Holding
  <2>4. QED
    BY <1>0, <1>4, <2>2, <2>3 DEF Commit, PoolInv
<1>5. CASE Finish(q)
  BY <1>5, CloseInv DEF Finish
<1>6. CASE Report(q) \/ ProbeGivesUp(q)
  BY <1>0, <1>6 DEF Report, ProbeGivesUp, Goto, PoolInv, PcType, Holding, Balance, CheckedOut
<1>7. CASE Probe(q)
  <2>1. pc[q] = "probing" /\ held[q] = 1 /\ CheckOut(q)
    BY <1>7 DEF Probe, PoolInv, Holding
  <2>2. free' \in Nat /\ held' \in [Requests -> 0..2] /\ Balance'
    BY <2>1, CheckOutBalance
  <2>3. Holding'
    BY <1>7, <2>1 DEF Probe, CheckOut, Goto, PoolInv, PcType, Holding
  <2>4. QED
    BY <1>0, <1>7, <2>2, <2>3 DEF Probe, PoolInv
<1>8. CASE ProbeDone(q)
  <2>1. pc[q] = "probed" /\ held[q] = 2 /\ CheckIn(q, 1)
    BY <1>8 DEF ProbeDone, PoolInv, Holding
  <2>2. free' \in Nat /\ held' \in [Requests -> 0..2] /\ Balance'
    BY <2>1, CheckInBalance
  <2>3. Holding'
    BY <1>8, <2>1 DEF ProbeDone, CheckIn, Goto, PoolInv, PcType, Holding
  <2>4. QED
    BY <1>0, <1>8, <2>2, <2>3 DEF ProbeDone, PoolInv
<1>9. QED
  BY <1>1, <1>2, <1>3, <1>4, <1>5, <1>6, <1>7, <1>8 DEF Reporting

\* The account of the pool holds in every reachable state.
THEOREM PoolInvHolds == Spec => []PoolInv
<1>1. Init => PoolInv
  <2> SUFFICES ASSUME PoolInit PROVE PoolInv
    BY DEF Init
  <2>1. CheckedOut = {}
    BY DEF PoolInit, CheckedOut
  <2>2. Balance
    BY <2>1, FS_EmptySet, PoolAssumption DEF PoolInit, Balance
  <2>3. QED
    BY <2>2, PoolAssumption DEF PoolInit, PoolInv, PcType, Labels, Holding
<1>2. PoolInv /\ [Next]_vars => PoolInv'
  <2> SUFFICES ASSUME PoolInv, [Next]_vars PROVE PoolInv'
    OBVIOUS
  <2>1. CASE UNCHANGED vars
    BY <2>1 DEF vars, poolVars, PoolInv, PcType, Holding, Balance, CheckedOut
  <2>2. ASSUME NEW q \in Writers, NEW o \in Wanted, ArriveWriting(q, o)
        PROVE  PoolInv'
    BY <2>2, PoolStepInv DEF ArriveWriting, Writers
  <2>3. ASSUME NEW q \in Writers, Writing(q)
        PROVE  PoolInv'
    <3>1. \/ Begin(q) \/ Commit(q) \/ Finish(q) \/ GiveUp(q)
          \/ UNCHANGED poolVars
      BY <2>3 DEF Writing, Authenticate, ReadRow, Save, RefreshRow, Answer, Fail
    <3>2. CASE UNCHANGED poolVars
      BY <3>2 DEF poolVars, PoolInv, PcType, Holding, Balance, CheckedOut
    <3>3. QED
      BY <3>1, <3>2, PoolStepInv DEF Writers
  <2>4. ASSUME NEW q \in Reports, ReportHealth(q) \/ Arrive(q, 1)
        PROVE  PoolInv'
    BY <2>4, PoolStepInv, PoolAssumption DEF ReportHealth
  <2>5. QED
    BY <2>1, <2>2, <2>3, <2>4 DEF Next
<1>3. QED
  BY <1>1, <1>2, PTL DEF Spec

\* No connection is lost or handed out twice (get_db, engine.connect).
THEOREM PoolBalances == Spec => []ConnectionsAccountedFor
<1>1. PoolInv => ConnectionsAccountedFor
  BY CheckedOutFinite, PoolAssumption
  DEF PoolInv, PcType, Labels, Balance, Holding, ConnectionsAccountedFor
<1>2. QED
  BY <1>1, PoolInvHolds, PTL

(***************************************************************************)
(* Why every request ends.  That it goes on is a matter of fairness and of *)
(* the pool's timeout, but that it cannot go on for ever is not: each of   *)
(* its steps lowers its Rank, however often others take the connection it  *)
(* waits for, and no step of another changes its place.  PoolRank is what  *)
(* the pool's part of it may still take; the reading of its row is Unread. *)
(***************************************************************************)
Weight(label) ==
    IF label \in {"waiting", "ended"} THEN 0
    ELSE IF label = "reporting" THEN 1
    ELSE IF label = "probed" THEN 2
    ELSE IF label = "probing" THEN 3
    ELSE 4

PoolRank(q) == IF pc[q] = "idle" THEN 11 ELSE 5 * left[q] + Weight(pc[q])
Unread(q) == IF q \in Writers /\ stage[q] = "none" THEN 1 ELSE 0
Rank(q) == PoolRank(q) + Unread(q)

Place(q) == <<pc[q], left[q]>>

Bounded == \A q \in Requests : Rank(q) \in Nat
Falling(q) == (Place(q)' = Place(q) /\ Unread(q)' = Unread(q)) \/ Rank(q)' < Rank(q)
RanksFall == [][\A q \in Requests : Falling(q)]_vars

\* A step of a request lowers its rank.
LEMMA StepRank ==
    ASSUME PoolInv, NEW q \in Requests, NEW n \in {1, 2},
           \/ Arrive(q, n) \/ Begin(q) \/ GiveUp(q) \/ Commit(q) \/ Finish(q) \/ Reporting(q)
    PROVE  PoolRank(q)' < PoolRank(q)
<1>0. pc \in [Requests -> Labels] /\ left \in [Requests -> Nat] /\ left[q] \in Nat
  BY DEF PoolInv, PcType
<1>1. CASE Arrive(q, n)
  <2>1. pc[q] = "idle" /\ pc'[q] = "waiting" /\ left'[q] = n
    BY <1>0, <1>1 DEF Arrive, Goto
  <2>2. QED
    BY <2>1 DEF PoolRank, Weight
<1>2. CASE Begin(q)
  <2>1. pc[q] = "waiting" /\ pc'[q] = "working" /\ left'[q] = left[q] - 1
    BY <1>0, <1>2 DEF Begin, Goto
  <2>2. QED
    BY <1>0, <2>1 DEF PoolRank, Weight
<1>3. CASE GiveUp(q)
  <2>1. pc[q] = "waiting" /\ left[q] > 0
    BY <1>3 DEF GiveUp, PoolInv, Holding
  <2>2. pc'[q] = "ended" /\ left'[q] = 0
    BY <1>0, <1>3 DEF GiveUp, Close, Goto
  <2>3. QED
    BY <1>0, <2>1, <2>2 DEF PoolRank, Weight
<1>4. CASE Commit(q)
  <2>1. pc[q] = "working" /\ pc'[q] = "waiting" /\ left'[q] = left[q]
    BY <1>0, <1>4 DEF Commit, Goto
  <2>2. QED
    BY <1>0, <2>1 DEF PoolRank, Weight
<1>5. CASE Finish(q)
  <2>1. /\ pc[q] \in {"working", "reporting"}
        /\ pc'[q] = "ended" /\ left'[q] = 0
    BY <1>0, <1>5 DEF Finish, Close, Goto
  <2>2. QED
    BY <1>0, <2>1 DEF PoolRank, Weight
<1>6. CASE Reporting(q)
  <2>1. left'[q] = left[q]
    BY <1>6 DEF Reporting, Report, Probe, ProbeGivesUp, ProbeDone
  <2>2. \/ pc[q] = "working" /\ pc'[q] = "probing"
        \/ pc[q] = "probing" /\ pc'[q] \in {"probed", "reporting"}
        \/ pc[q] = "probed" /\ pc'[q] = "reporting"
    BY <1>0, <1>6 DEF Reporting, Report, Probe, ProbeGivesUp, ProbeDone, Goto
  <2>3. QED
    BY <1>0, <2>1, <2>2 DEF PoolRank, Weight
<1>7. QED
  BY <1>1, <1>2, <1>3, <1>4, <1>5, <1>6

\* ... and leaves the others where they are.
LEMMA OthersStay ==
    ASSUME PoolInv, NEW q \in Requests, NEW n \in {1, 2},
           \/ Arrive(q, n) \/ Begin(q) \/ GiveUp(q) \/ Commit(q) \/ Finish(q) \/ Reporting(q),
           NEW r \in Requests, r # q
    PROVE  Place(r)' = Place(r)
<1>1. pc' = [pc EXCEPT ![q] = pc'[q]]
  BY DEF PoolInv, PcType, Arrive, Begin, GiveUp, Commit, Finish, Close, Reporting, Report,
         Probe, ProbeGivesUp, ProbeDone, Goto
<1>2. left' = [left EXCEPT ![q] = left'[q]]
  BY DEF PoolInv, Arrive, Begin, GiveUp, Commit, Finish, Close, Reporting, Report, Probe,
         ProbeGivesUp, ProbeDone
<1>3. QED
  BY <1>1, <1>2 DEF Place, PoolInv, PcType

\* Nobody goes back to where its row is unread.
LEMMA StepUnread ==
    ASSUME Inv, Next, NEW r \in Requests
    PROVE  Unread(r)' \in {0, 1} /\ Unread(r) \in {0, 1} /\ Unread(r)' <= Unread(r)
<1>1. ASSUME r \in Writers, stage'[r] = "none"
      PROVE  stage[r] = "none"
  BY <1>1 DEF Next, Writing, ArriveWriting, Authenticate, ReadRow, Save, RefreshRow, Answer, Fail,
              ReportHealth, Stage, Inv, TypeOK
<1>2. QED
  BY <1>1 DEF Unread

\* A request takes at most twelve steps from its arrival to its end, however
\* long it waits for each (get_db, admin_health).
THEOREM RequestsAreShort == Spec => []Bounded /\ RanksFall
<1>1. PoolInv => Bounded
  <2> SUFFICES ASSUME PoolInv, NEW q \in Requests PROVE Rank(q) \in Nat
    BY DEF Bounded
  <2>1. left[q] \in Nat
    BY DEF PoolInv
  <2>2. QED
    BY <2>1 DEF Rank, PoolRank, Unread, Weight
<1>2. Inv /\ PoolInv /\ [Next]_vars
        => [\A q \in Requests : Falling(q)]_vars
  <2> SUFFICES ASSUME Inv, PoolInv, Next, NEW r \in Requests
               PROVE  \/ Place(r)' = Place(r) /\ Unread(r)' = Unread(r)
                      \/ Rank(r)' < Rank(r)
    BY DEF Falling
  <2>1. CASE \E q \in Requests, n \in {1, 2} :
           \/ Arrive(q, n) \/ Begin(q) \/ GiveUp(q) \/ Commit(q) \/ Finish(q) \/ Reporting(q)
    <3>1. Place(r)' = Place(r) \/ PoolRank(r)' < PoolRank(r)
      BY <2>1, StepRank, OthersStay
    <3>2. Place(r)' = Place(r) => PoolRank(r)' = PoolRank(r)
      BY DEF Place, PoolRank
    <3>3. Unread(r)' \in {0, 1} /\ Unread(r) \in {0, 1} /\ Unread(r)' <= Unread(r)
      BY StepUnread
    <3>4. PoolRank(r) \in Nat /\ PoolRank(r)' \in Nat
      <4>1. left[r] \in Nat /\ left'[r] \in Nat
        BY <2>1, PoolStepInv DEF PoolInv
      <4>2. QED
        BY <4>1 DEF PoolRank, Weight
    <3>5. QED
      BY <3>1, <3>2, <3>3, <3>4 DEF Rank
  <2>2. CASE \E q \in Writers : ReadRow(q)
    <3>1. PICK q \in Writers : ReadRow(q)
      BY <2>2
    <3>2. /\ pc' = pc /\ left' = left /\ stage[q] = "none" /\ stage'[q] = "read"
          /\ \A p \in Writers : p # q => stage'[p] = stage[p]
      BY <3>1 DEF ReadRow, Stage, poolVars, Inv, TypeOK
    <3>3. Place(r)' = Place(r) /\ PoolRank(r)' = PoolRank(r) /\ PoolRank(r) \in Nat
      <4>1. left[r] \in Nat
        BY DEF PoolInv
      <4>2. QED
        BY <3>2, <4>1 DEF Place, PoolRank, Weight
    <3>4. CASE r = q
      BY <3>2, <3>3, <3>4 DEF Rank, Unread
    <3>5. CASE r # q
      BY <3>2, <3>3, <3>5 DEF Unread
    <3>6. QED
      BY <3>4, <3>5
  <2>3. QED
    BY <2>1, <2>2, PoolAssumption
    DEF Next, Writers, Writing, Authenticate, Save, RefreshRow, Answer, Fail, ArriveWriting,
        ReportHealth
<1>3. QED
  BY <1>1, <1>2, InvHolds, PoolInvHolds, PTL DEF Spec, RanksFall
=============================================================================

------------------------------ MODULE Records ------------------------------
(***************************************************************************)
(* Chats with their messages (api/routers/chats.py) and platform settings  *)
(* (api/routers/admin.py, admin_ui.py), written by requests that share the *)
(* pool of database connections with each other and with health reports.   *)
(*                                                                         *)
(* A handler reads a row, changes the object it has of it and commits:     *)
(* the ORM writes the columns the handler changed and no other, whatever   *)
(* was committed meanwhile.  Where db.refresh follows, it begins another   *)
(* transaction, which may fail or time out at the pool after the data have *)
(* been saved.                                                             *)
(*                                                                         *)
(* Audit records are ordered by created_at, the time when their            *)
(* transaction began: that is with the SELECT of the user, before the      *)
(* SELECT of the row.                                                      *)
(***************************************************************************)
EXTENDS ConnPool

CONSTANTS
    Texts,     \* contents of messages; as titles, distinct from the default
    Values,    \* values of the setting
    NewChat,   \* the default title "New chat"
    Wanted,    \* what the clients ask for, among Ops
    None

ASSUME TitleAssumption == NewChat \notin Texts /\ None \notin Texts \cup Values \cup {NewChat}

Writers == Requests \ Reports

VARIABLES
    chat,      \* the row of a chat; its title is None where there is no row
    messages,  \* requests whose message is stored
    setting,   \* the value of a setting; None where there is no row
    audited,   \* what the newest audit record of the setting, or its seed, says
    op,        \* what a request wants
    snap,      \* the row its handler has read
    stage,     \* how far its handler has got, or how it was answered
    elder,     \* settings' requests in a transaction when its own began
    overtaken, \* there is an audit record of a transaction begun after its own
    (***********************************************************************)
    (* History, read by no action.                                         *)
    (***********************************************************************)
    openers,   \* requests that read the chat before any user message
    robbed,    \* their refresh failed after their commit
    amiss      \* the last writer of the setting was overtaken, or had read it stale

tables == <<chat, messages, setting, audited>>
order == <<elder, overtaken>>
ghosts == <<openers, robbed, amiss>>
vars == <<poolVars, tables, op, snap, stage, order, ghosts>>

\* User messages and replies are both POST messages, by role; "put" is the
\* JSON route of the settings, "save" the form.
SettingOps == [kind : {"put", "save"}, arg : Values]
MessageOps == [kind : {"message", "reply"}, arg : Texts]
Ops == SettingOps \cup MessageOps \cup [kind : {"create", "archive"}, arg : {None}]

ASSUME WantedAssumption == Wanted \subseteq Ops /\ None \notin Ops

\* Their handlers call db.refresh after the commit.
Refreshing == {"create", "message", "reply", "put"}

Chat == [title : Texts \cup {NewChat, None}, archived : BOOLEAN]

Wants(q, kind) == op[q] # None /\ op[q].kind = kind

UserMessages == {q \in messages : op[q].kind = "message"}

Stages == {"none", "read", "saved", "ok", "failed"}

TypeOK ==
    /\ chat \in Chat
    /\ messages \subseteq {q \in Writers : op[q] \in MessageOps}
    /\ setting \in Values \cup {None}
    /\ audited \in Values \cup {None}
    /\ op \in [Writers -> Ops \cup {None}]
    /\ snap \in [Writers -> Chat \cup Values \cup {None}]
    /\ stage \in [Writers -> Stages]
    /\ elder \in [Writers -> SUBSET Writers]
    /\ overtaken \subseteq Writers
    /\ openers \subseteq Writers
    /\ robbed \subseteq {q \in Writers : stage[q] = "failed"}
    /\ amiss \in BOOLEAN

\* There is a chat or not; bootstrap_defaults has seeded the setting or not.
Init ==
    /\ PoolInit
    /\ chat \in [title : {NewChat, None}, archived : {FALSE}]
    /\ messages = {}
    /\ setting \in Values \cup {None}
    /\ audited = setting
    /\ op = [q \in Writers |-> None]
    /\ snap = [q \in Writers |-> None]
    /\ stage = [q \in Writers |-> "none"]
    /\ elder = [q \in Writers |-> {}]
    /\ overtaken = {}
    /\ openers = {}
    /\ robbed = {}
    /\ amiss = FALSE

Stage(q, o) == stage' = [stage EXCEPT ![q] = o]

\* The one chat is created once.  A client sends a text again only if it was
\* told that sending it failed.
Sendable(o) ==
    /\ o.kind = "create" => chat.title = None /\ \A q \in Writers : ~Wants(q, "create")
    /\ o.kind \in {"message", "reply"} =>
          \A q \in Writers : op[q] = o => stage[q] = "failed"

ArriveWriting(q, o) ==
    /\ Sendable(o)
    /\ Arrive(q, IF o.kind \in Refreshing THEN 2 ELSE 1)
    /\ op' = [op EXCEPT ![q] = o]
    /\ UNCHANGED <<tables, snap, stage, order, ghosts>>

\* Those whose first transaction is under way, and that will leave a record of
\* the setting.
Setting == {q \in Writers : pc[q] = "working" /\ stage[q] \in {"none", "read"} /\ op[q] \in SettingOps}

\* The SELECT of the user begins the handler's first transaction.
Authenticate(q) ==
    /\ stage[q] = "none"
    /\ Begin(q)
    /\ elder' = [elder EXCEPT ![q] = IF op[q] \in SettingOps THEN Setting ELSE {}]
    /\ UNCHANGED <<tables, op, snap, stage, overtaken, ghosts>>

\* The SELECT of the row.
ReadRow(q) ==
    /\ pc[q] = "working"
    /\ stage[q] = "none"
    /\ Stage(q, "read")
    /\ snap' = [snap EXCEPT ![q] = IF op[q] \in SettingOps THEN setting ELSE chat]
    /\ openers' = IF op[q] \in MessageOps /\ UserMessages = {} THEN openers \cup {q} ELSE openers
    /\ UNCHANGED <<poolVars, tables, op, order, robbed, amiss>>

(***************************************************************************)
(* What the commit of each handler writes.  Without a row there is no      *)
(* commit but a 404, which is among the failures below.                    *)
(***************************************************************************)
CreateChat(q) ==
    /\ Wants(q, "create")
    /\ chat' = [title |-> NewChat, archived |-> FALSE]
    /\ UNCHANGED <<messages, setting, audited, overtaken, amiss>>

\* The chat gets its title from a user message of a request that saw none.
RetitledWholeRow(q) ==
    IF snap[q].title = NewChat /\ op[q].kind = "message"
    THEN [snap[q] EXCEPT !.title = op[q].arg] ELSE chat

RetitledByAnyRole(q) ==
    IF snap[q].title = NewChat THEN [chat EXCEPT !.title = op[q].arg] ELSE chat

Retitled(q) ==
    IF snap[q].title = NewChat /\ op[q].kind = "message"
    THEN [chat EXCEPT !.title = op[q].arg] ELSE chat

AddMessage(q) ==
    /\ op[q] \in MessageOps
    /\ snap[q].title # None
    /\ messages' = messages \cup {q}
    /\ chat' = Retitled(q)
    /\ UNCHANGED <<setting, audited, overtaken, amiss>>

ArchiveChat(q) ==
    /\ Wants(q, "archive")
    /\ snap[q].title # None
    /\ chat' = [chat EXCEPT !.archived = TRUE]
    /\ UNCHANGED <<messages, setting, audited, overtaken, amiss>>

\* The unique key refuses a second row.  A value equal to the one that was
\* read is no change, so that the ORM has nothing to write but the audit.
AuditIfNew(q) == IF snap[q] = None /\ q \notin overtaken THEN op[q].arg ELSE audited

\* The newest record is the one whose transaction began last.
Audit(q) == IF q \in overtaken THEN audited ELSE op[q].arg

UpsertSetting(q) ==
    /\ op[q] \in SettingOps
    /\ snap[q] = None => setting = None
    /\ setting' = IF snap[q] = op[q].arg THEN setting ELSE op[q].arg
    /\ audited' = Audit(q)
    /\ overtaken' = overtaken \cup elder[q]
    /\ amiss' = (q \in overtaken \/ (setting # snap[q] /\ snap[q] = op[q].arg))
    /\ UNCHANGED <<chat, messages>>

Write(q) == CreateChat(q) \/ AddMessage(q) \/ ArchiveChat(q) \/ UpsertSetting(q)

\* The commit; where db.refresh follows, the answer waits for it.
Save(q) ==
    /\ pc[q] = "working"
    /\ stage[q] = "read"
    /\ Write(q)
    /\ \/ Commit(q) /\ Stage(q, "saved")
       \/ left[q] = 0 /\ Finish(q) /\ Stage(q, "ok")
    /\ snap' = [snap EXCEPT ![q] = None]
    /\ UNCHANGED <<op, elder, openers, robbed>>

RefreshRow(q) ==
    /\ stage[q] = "saved"
    /\ Begin(q)
    /\ UNCHANGED <<tables, op, snap, stage, order, ghosts>>

Answer(q) ==
    /\ pc[q] = "working"
    /\ stage[q] = "saved"
    /\ Finish(q)
    /\ Stage(q, "ok")
    /\ UNCHANGED <<tables, op, snap, order, ghosts>>

\* A statement or the commit raises, or the row is missing; or the pool's
\* timeout passes.  get_db rolls back what is not yet committed.
FailCommitting(q) ==
    /\ Finish(q) \/ GiveUp(q)
    /\ Stage(q, "failed")
    /\ messages' = IF /\ pc[q] = "working" /\ stage[q] = "read"
                      /\ op[q] \in MessageOps /\ snap[q].title # None
                   THEN messages \cup {q} ELSE messages
    /\ robbed' = IF stage[q] = "saved" THEN robbed \cup {q} ELSE robbed
    /\ snap' = [snap EXCEPT ![q] = None]
    /\ UNCHANGED <<chat, setting, audited, op, order, openers, amiss>>

Fail(q) ==
    /\ Finish(q) \/ GiveUp(q)
    /\ Stage(q, "failed")
    /\ robbed' = IF stage[q] = "saved" THEN robbed \cup {q} ELSE robbed
    /\ snap' = [snap EXCEPT ![q] = None]
    /\ UNCHANGED <<tables, op, order, openers, amiss>>

Writing(q) ==
    \/ Authenticate(q)
    \/ ReadRow(q)
    \/ Save(q)
    \/ RefreshRow(q)
    \/ Answer(q)
    \/ Fail(q)

ReportHealth(q) ==
    /\ Begin(q) \/ GiveUp(q) \/ Reporting(q) \/ Finish(q)
    /\ UNCHANGED <<tables, op, snap, stage, order, ghosts>>

Next ==
    \/ \E q \in Writers : Writing(q) \/ \E o \in Wanted : ArriveWriting(q, o)
    \/ \E q \in Reports :
        \/ ReportHealth(q)
        \/ Arrive(q, 1) /\ UNCHANGED <<tables, op, snap, stage, order, ghosts>>

Spec == Init /\ [][Next]_vars

\* Statements and calls of other services are answered or time out, and so
\* does every wait for the pool.
FairSpec ==
    /\ Spec
    /\ \A q \in Writers : WF_vars(Writing(q))
    /\ \A q \in Reports : WF_vars(ReportHealth(q))

-----------------------------------------------------------------------------
(***************************************************************************)
(* Properties                                                              *)
(***************************************************************************)

\* A chat keeps the default title until a user message is stored; then it is
\* named after one whose request saw none before it, however messages and
\* replies overlap (add_message).  (A message that reads "New chat" leaves
\* the title open: Texts has none.)
TitleIsOpening ==
    /\ chat.title = NewChat => UserMessages = {}
    /\ chat.title \in Texts =>
          \E q \in UserMessages \cap openers : op[q].arg = chat.title

\* No request undoes what another committed while it held an older row: an
\* archived chat stays archived, a named one is not unnamed, a setting does
\* not vanish (the ORM's update of changed columns only).
NothingIsUndone ==
    [][ /\ chat.archived => chat'.archived
        /\ chat.title \in Texts => chat'.title \in Texts
        /\ setting # None => setting' # None ]_vars

\* A text that its client sent again and that is stored twice was saved the
\* first time and not acknowledged: the refresh after the commit failed or
\* found no connection (add_message).
DuplicatesExplained ==
    \A q1, q2 \in messages :
        q1 # q2 /\ op[q1] = op[q2] => {q1, q2} \cap robbed # {}

\* The setting has the value that its newest audit record (by created_at) tells
\* of, unless the transactions of two requests for it overlapped and the last
\* of them to write was overtaken, so that its record is not the newest, or had
\* read the value it asked for, which then was no change to be written
\* (upsert_setting, settings_save).
SettingAudited ==
    setting = audited \/ (amiss /\ \E q \in Writers : elder[q] # {})
=============================================================================

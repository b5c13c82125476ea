------------------------------- MODULE Accounts -------------------------------
(***************************************************************************)
(* The users table and everyone who writes it: registration (auth.py,      *)
(* portal.py), administration (users.py, admin_ui.py), passwords           *)
(* (portal_settings.py) and bootstrap_admin.                               *)
(*                                                                         *)
(* Every handler reads and later commits, with awaits in between and no    *)
(* row lock.  What it commits depends on how the code writes: an INSERT    *)
(* guarded only by the unique email, a column set to the negation of what  *)
(* was read, or a column that the ORM leaves out of the UPDATE because the *)
(* row, as it was read, already has the new value.                         *)
(*                                                                         *)
(* Audit records are ordered by created_at, which is now(): the time when  *)
(* their transaction began, before its handler had read anything, and not  *)
(* the time when they were committed.                                      *)
(***************************************************************************)
EXTENDS Naturals

CONSTANTS
    Emails,     \* in lower case, as every handler but bootstrap makes them
    Admin,      \* settings.admin_email
    Passwords,
    AdminPasswords, \* what ADMIN_PASSWORD of the .env may be set to
    Links,      \* password reset tokens
    Requests,   \* handlers in flight at the same time
    Operations, \* what a client may ask for
    RegistrationEnabled, \* settings.registration_enabled
    None

Given == {"admin", "user", "other"}     \* any string is a role

\* Who asks (None: not signed in), for what, and the fields of the form that
\* the handler looks at, None where it has none.
OperationType ==
    [kind: {"register", "create", "form", "toggle", "patch", "change", "reset"},
     by: Emails \cup {None}, email: Emails \cup {None}, link: Links \cup {None},
     role: Given \cup {None}, active: BOOLEAN \cup {None},
     pw: Passwords \cup {None}, cur: Passwords \cup {None}]

Rows == [active: BOOLEAN, role: Given, pw: Passwords]

ByAdmin == {"create", "form", "toggle", "patch"}

\* The fields that the handler of each kind cannot do without.
WellFormed(o) ==
    /\ (o.kind \in ByAdmin \cup {"change"}) = (o.by # None)
    /\ (o.kind = "reset") = (o.link # None)
    /\ o.kind \notin {"change", "reset"} => o.email # None
    /\ o.kind \notin {"toggle", "patch"} => o.pw # None
    /\ o.kind \in {"create", "form"} => o.role # None
    /\ o.kind = "change" => o.cur # None

ASSUME RegistrationAssumption == RegistrationEnabled \in BOOLEAN
ASSUME AdminAssumption == Admin \in Emails /\ AdminPasswords \subseteq Passwords
ASSUME NoneAssumption ==
    /\ None \notin Emails \cup Links \cup Passwords \cup Given
    /\ None \notin BOOLEAN /\ None \notin Operations /\ None \notin Rows
ASSUME OperationAssumption ==
    Operations \subseteq OperationType /\ \A o \in Operations : WellFormed(o)

VARIABLES
    account,    \* users: the row of an email, or None
    log,        \* admin_audit_logs: what the newest record of a column says
    up,         \* the backend runs
    setting,    \* settings.admin_password
    issued,     \* the email a reset token was made for, or None
    expired,    \* tokens older than an hour
    pc,         \* where a handler is
    op,         \* what it handles
    snap,       \* the row it has read, or None
    elder,      \* who administers its account in a transaction that began before
    later,      \* columns of its account with a record begun after it
    (***********************************************************************)
    (* History, read by no action.                                         *)
    (***********************************************************************)
    winners,    \* creations of an email that were committed (at most 2)
    amiss,      \* columns whose last writer was overtaken, or had read them stale
    met,        \* handlers whose account another one has administered meanwhile
    admins,     \* handlers whose caller was an active admin since they began
    proved,     \* handlers whose caller proved the account theirs since then
    byHand      \* emails whose password was written by a handler

table == <<account, log>>
process == <<up, setting>>
tokens == <<issued, expired>>
order == <<elder, later>>
ghosts == <<winners, amiss, met, admins, proved, byHand>>
vars == <<table, process, tokens, pc, op, snap, order, ghosts>>

Columns == {"active", "role"}    \* those that audit records tell of

Busy == {"auth", "check", "insert", "read", "link", "commit"}

TypeOK ==
    /\ account \in [Emails -> Rows \cup {None}]
    /\ log \in [Emails -> [active: BOOLEAN \cup {None}, role: Given \cup {None}]]
    /\ up \in BOOLEAN
    /\ setting \in Passwords
    /\ issued \in [Links -> Emails \cup {None}]
    /\ expired \subseteq Links
    /\ pc \in [Requests -> Busy \cup {"idle"}]
    /\ op \in [Requests -> Operations \cup {None}]
    /\ snap \in [Requests -> Rows \cup {None}]
    /\ \A q \in Requests :
        /\ pc[q] # "idle" => op[q] # None
        /\ pc[q] = "commit" => snap[q] # None
    /\ winners \in [Emails -> 0..2]
    /\ elder \in [Requests -> SUBSET Requests]
    /\ later \in [Requests -> SUBSET Columns]
    /\ amiss \in [Emails -> SUBSET Columns]
    /\ met \subseteq Requests
    /\ admins \subseteq Requests
    /\ proved \subseteq Requests
    /\ byHand \subseteq Emails

NoLog == [active |-> None, role |-> None]

Init ==
    /\ account = [e \in Emails |-> None]
    /\ log = [e \in Emails |-> NoLog]
    /\ up = FALSE
    /\ setting \in AdminPasswords
    /\ issued = [l \in Links |-> None]
    /\ expired = {}
    /\ pc = [q \in Requests |-> "idle"]
    /\ op = [q \in Requests |-> None]
    /\ snap = [q \in Requests |-> None]
    /\ winners = [e \in Emails |-> 0]
    /\ elder = [q \in Requests |-> {}]
    /\ later = [q \in Requests |-> {}]
    /\ amiss = [e \in Emails |-> {}]
    /\ met = {}
    /\ admins = {}
    /\ proved = {}
    /\ byHand = {}

Goto(q, label) == pc' = [pc EXCEPT ![q] = label]
ActiveAdmin(a) == a # None /\ a.active /\ a.role = "admin"

\* The handlers at work that administer the same account as o.
Rivals(o) ==
    {p \in Requests : op[p] # None /\ {o.kind, op[p].kind} \subseteq ByAdmin /\ op[p].email = o.email}

\* The account that a password operation is about.
Target(o) == IF o.kind = "reset" THEN issued[o.link] ELSE o.by

\* What a caller of o has to prove of its account, in the table t: that it
\* knows the password, or that the mailbox of an active account is its own.
Proves(o, t) ==
    \/ /\ o.kind = "change"
       /\ t[o.by] # None /\ t[o.by].pw = o.cur
    \/ /\ o.kind = "reset"
       /\ issued[o.link] # None /\ o.link \notin expired
       /\ t[issued[o.link]] # None /\ t[issued[o.link]].active

\* The history of who was what, over a step to the table t and operations f.
Witnessed(t, f, q) ==
    /\ admins' = (admins \ {q}) \cup
           {p \in Requests : f[p] # None /\ f[p].by # None /\ ActiveAdmin(t[f[p].by])}
    /\ proved' = (proved \ {q}) \cup
           {p \in Requests : f[p] # None /\ Proves(f[p], t)}

\* A handler answers, and its transaction is over.
Leave(q) ==
    /\ Goto(q, "idle")
    /\ snap' = [snap EXCEPT ![q] = None]
    /\ op' = [op EXCEPT ![q] = None]
    /\ elder' = [p \in Requests |-> IF p = q THEN {} ELSE elder[p] \ {q}]
    /\ met' = met \ {q}

\* It has changed no row, and leaves no record.
End(q) ==
    /\ Leave(q)
    /\ later' = [later EXCEPT ![q] = {}]
    /\ admins' = admins \ {q}
    /\ proved' = proved \ {q}

\* It has committed the row of e.
Commit(q, e, newRow) ==
    /\ Leave(q)
    /\ account' = [account EXCEPT ![e] = newRow]
    /\ Witnessed(account', op', q)

TellNothing(q) == UNCHANGED log /\ later' = [later EXCEPT ![q] = {}]

Told(active, role) ==
    {c \in Columns : (c = "active" /\ active # None) \/ (c = "role" /\ role # None)}

\* The commit of a record of q's account.  It is the newest of a column unless
\* there is one already whose transaction began later.
Tell(q, active, role) ==
    LET e == op[q].email
        told == Told(active, role) \ later[q]
    IN  /\ log' = [log EXCEPT ![e] =
            [active |-> IF "active" \in told THEN active ELSE @.active,
             role |-> IF "role" \in told THEN role ELSE @.role]]
        /\ later' = [p \in Requests |->
            CASE p = q -> {}
              [] p # q /\ p \in elder[q] -> later[p] \cup Told(active, role)
              [] OTHER -> later[p]]

\* The history of the columns that q writes and tells of.
Judge(q, columns, stale) ==
    amiss' = [amiss EXCEPT ![op[q].email] =
        (@ \ columns) \cup {c \in columns \cap (later[q] \cup stale) : q \in met}]

(***************************************************************************)
(* The process.  bootstrap_admin creates the administrator if there is no  *)
(* row of that email, and leaves the row alone if there is one.            *)
(***************************************************************************)
Boot(p) ==
    /\ ~up
    /\ up' = TRUE
    /\ setting' = p
    /\ account' =
        IF account[Admin] = None
        THEN [account EXCEPT ![Admin] = [active |-> TRUE, role |-> "admin", pw |-> p]]
        ELSE account
    /\ UNCHANGED <<log, tokens, pc, op, snap, order, ghosts>>

Stop ==
    /\ up
    /\ up' = FALSE
    /\ pc' = [q \in Requests |-> "idle"]
    /\ op' = [q \in Requests |-> None]
    /\ snap' = [q \in Requests |-> None]
    /\ met' = {}
    /\ elder' = [q \in Requests |-> {}]
    /\ later' = [q \in Requests |-> {}]
    /\ admins' = {}
    /\ proved' = {}
    /\ UNCHANGED <<table, setting, tokens, winners, amiss, byHand>>

\* A request arrives, and its first statement begins its transaction.  (A
\* token is signed: nobody has it before it is issued.)
Arrive(q, o) ==
    /\ up
    /\ pc[q] = "idle"
    /\ o.kind = "reset" => issued[o.link] # None
    /\ o.kind = "register" => RegistrationEnabled
    /\ Goto(q, CASE o.kind = "register" -> "check"
                 [] o.kind = "reset" -> "link"
                 [] OTHER -> "auth")
    /\ op' = [op EXCEPT ![q] = o]
    /\ elder' = [elder EXCEPT ![q] = Rivals(o)]
    /\ met' = met \cup Rivals(o) \cup {p \in {q} : Rivals(o) # {}}
    /\ Witnessed(account, op', q)
    /\ UNCHANGED <<table, process, tokens, snap, later, winners, amiss, byHand>>

\* A commit or a SELECT raises.
Fail(q) ==
    /\ pc[q] # "idle"
    /\ End(q)
    /\ UNCHANGED <<table, process, tokens, winners, amiss, byHand>>

(***************************************************************************)
(* get_current_user, require_admin and user_from_request: the caller's row *)
(* is read and kept by the session.                                        *)
(***************************************************************************)
MayIfRoleSaysSo(o, a) ==
    IF o.kind \in ByAdmin
    THEN a # None /\ a.role = "admin"
    ELSE a # None /\ a.active

May(o, a) ==
    IF o.kind \in ByAdmin
    THEN ActiveAdmin(a)
    ELSE a # None /\ a.active /\ a.pw = o.cur   \* "Current password is incorrect"

Authenticate(q) ==
    LET a == account[op[q].by]
    IN  /\ pc[q] = "auth"
        /\ IF May(op[q], a)
           THEN /\ Goto(q, CASE op[q].kind \in {"create", "form"} -> "check"
                             [] op[q].kind \in {"toggle", "patch"} -> "read"
                             [] op[q].kind = "change" -> "commit")
                /\ snap' = [snap EXCEPT ![q] = a]
                /\ UNCHANGED <<op, order, met, admins, proved>>
           ELSE End(q)
        /\ UNCHANGED <<table, process, tokens, winners, amiss, byHand>>

(***************************************************************************)
(* register, register_submit, admin_create_user, users_create: SELECT by   *)
(* email, then INSERT.                                                     *)
(***************************************************************************)
CheckEmail(q) ==
    /\ pc[q] = "check"
    /\ IF account[op[q].email] = None
       THEN Goto(q, "insert") /\ UNCHANGED <<op, snap, order, met, admins, proved>>
       ELSE End(q)
    /\ UNCHANGED <<table, process, tokens, winners, amiss, byHand>>

\* users_create stores an unknown role as `user', and logs it as it came.
RoleOf(o) ==
    CASE o.kind = "register" -> "user"
      [] o.kind = "form" /\ o.role = "other" -> "user"
      [] OTHER -> o.role

InsertOver(q) ==
    LET o == op[q]
    IN  /\ pc[q] = "insert"
        /\ Commit(q, o.email, [active |-> TRUE, role |-> RoleOf(o), pw |-> o.pw])
        /\ winners' = [winners EXCEPT ![o.email] = IF @ = 2 THEN 2 ELSE @ + 1]
        /\ TellNothing(q)
        /\ UNCHANGED <<process, tokens, amiss, byHand>>

Insert(q) ==
    LET o == op[q]
    IN  /\ pc[q] = "insert"
        /\ IF account[o.email] = None
           THEN /\ Commit(q, o.email, [active |-> TRUE, role |-> RoleOf(o), pw |-> o.pw])
                /\ winners' = [winners EXCEPT ![o.email] = IF @ = 2 THEN 2 ELSE @ + 1]
                /\ byHand' = byHand \cup {o.email}
                /\ IF o.kind = "register"
                   THEN TellNothing(q) /\ UNCHANGED amiss
                   ELSE Tell(q, None, o.role) /\ Judge(q, {"role"}, {})
           ELSE End(q) /\ UNCHANGED <<table, winners, byHand, amiss>>   \* IntegrityError
        /\ UNCHANGED <<process, tokens>>

(***************************************************************************)
(* users_toggle and admin_update_user.  A session that has the row already *)
(* (one's own) keeps the values it read first.                             *)
(***************************************************************************)
ReadTargetUnchecked(q) ==
    /\ pc[q] = "read"
    /\ Goto(q, "commit")
    /\ snap' = [snap EXCEPT ![q] = account[op[q].email]]
    /\ UNCHANGED <<table, process, tokens, op, order, ghosts>>

ReadTarget(q) ==
    LET o == op[q]
    IN  /\ pc[q] = "read"
        /\ IF account[o.email] = None
           THEN End(q)
           ELSE /\ Goto(q, "commit")
                /\ snap' = [snap EXCEPT ![q] = IF o.by = o.email THEN @ ELSE account[o.email]]
                /\ UNCHANGED <<op, order, met, admins, proved>>
        /\ UNCHANGED <<table, process, tokens, winners, amiss, byHand>>

CommitToggleLoggingOld(q) ==
    LET e == op[q].email
        new == ~snap[q].active
    IN  /\ pc[q] = "commit" /\ op[q].kind = "toggle"
        /\ Commit(q, e, [account[e] EXCEPT !.active = new])
        /\ Tell(q, snap[q].active, None)
        /\ Judge(q, {"active"}, {})
        /\ UNCHANGED <<process, tokens, winners, byHand>>

CommitToggle(q) ==
    LET e == op[q].email
        new == ~snap[q].active
    IN  /\ pc[q] = "commit" /\ op[q].kind = "toggle"
        /\ Commit(q, e, [account[e] EXCEPT !.active = new])
        /\ Tell(q, new, None)
        /\ Judge(q, {"active"}, {})
        /\ UNCHANGED <<process, tokens, winners, byHand>>

\* The value of a column after the commit: asked for, as read, as it is.
Written(want, seen, now) == IF want = None \/ want = seen THEN now ELSE want

CommitPatch(q) ==
    LET o == op[q]
        now == account[o.email]
    IN  /\ pc[q] = "commit" /\ o.kind = "patch"
        /\ Commit(q, o.email,
               [active |-> Written(o.active, snap[q].active, now.active),
                role |-> Written(o.role, snap[q].role, now.role),
                pw |-> IF o.pw = None THEN now.pw ELSE o.pw])
        /\ Tell(q, o.active, o.role)
        /\ Judge(q, Told(o.active, o.role), {c \in Columns : o[c] = snap[q][c] /\ snap[q][c] # now[c]})
        /\ byHand' = IF o.pw = None THEN byHand ELSE byHand \cup {o.email}
        /\ UNCHANGED <<process, tokens, winners>>

(***************************************************************************)
(* password_change, forgot_password_submit and reset_password_submit.      *)
(***************************************************************************)
CommitPassword(q) ==
    LET o == op[q]
        e == Target(o)
    IN  /\ pc[q] = "commit" /\ o.kind \in {"change", "reset"}
        /\ Commit(q, e, [account[e] EXCEPT !.pw = o.pw])
        /\ byHand' = byHand \cup {e}
        /\ TellNothing(q)
        /\ UNCHANGED <<process, tokens, winners, amiss>>

\* A token for an active account, mailed or logged.  It carries all there is
\* to know of it: until it expires the link can be followed again, since no row
\* records its use (the text that goes with a logged link calls it one-time).
Forgot(l, e) ==
    /\ up
    /\ issued[l] = None
    /\ account[e] # None /\ account[e].active
    /\ issued' = [issued EXCEPT ![l] = e]
    /\ UNCHANGED <<table, process, expired, pc, op, snap, order, ghosts>>

Expire(l) ==
    /\ issued[l] # None
    /\ expired' = expired \cup {l}
    /\ UNCHANGED <<table, process, issued, pc, op, snap, order, ghosts>>

OpenLinkAnyUser(q) ==
    LET e == issued[op[q].link]
    IN  /\ pc[q] = "link"
        /\ e # None /\ op[q].link \notin expired
        /\ Goto(q, "commit")
        /\ snap' = [snap EXCEPT ![q] = account[e]]
        /\ UNCHANGED <<table, process, tokens, op, order, ghosts>>

OpenLink(q) ==
    LET l == op[q].link
        e == issued[l]
    IN  /\ pc[q] = "link"
        /\ IF e # None /\ l \notin expired /\ account[e].active
           THEN /\ Goto(q, "commit")
                /\ snap' = [snap EXCEPT ![q] = account[e]]
                /\ UNCHANGED <<op, order, met, admins, proved>>
           ELSE End(q)
        /\ UNCHANGED <<table, process, tokens, winners, amiss, byHand>>

Handle(q) ==
    \/ \E o \in Operations : Arrive(q, o)
    \/ Authenticate(q)
    \/ CheckEmail(q)
    \/ Insert(q)
    \/ ReadTarget(q)
    \/ CommitToggle(q)
    \/ CommitPatch(q)
    \/ CommitPassword(q)
    \/ OpenLink(q)
    \/ Fail(q)

Next ==
    \/ \E q \in Requests : Handle(q)
    \/ \E l \in Links : Expire(l) \/ \E e \in Emails : Forgot(l, e)
    \/ \E p \in AdminPasswords : Boot(p)
    \/ Stop

Spec == Init /\ [][Next]_vars

-----------------------------------------------------------------------------
(***************************************************************************)
(* Properties                                                              *)
(***************************************************************************)

\* Of all the registrations and creations of an email, whatever their order,
\* at most one is told that it created the account: the SELECT does not
\* ensure it, the unique column does.
OneWinnerPerEmail == \A e \in Emails : winners[e] <= 1

\* The audit log tells the state of an account: what its newest record (by
\* created_at) says of is_active or role is what the row has.  It may say
\* otherwise only where another handler administered the account while the one
\* that last wrote about the column did, and that one
\*   - was overtaken: it committed after a record whose transaction had begun
\*     later than its own, which therefore stays the newest; or
\*   - was a PATCH that had read the value it asked for, which is the row's no
\*     more: the ORM left the column out, and the record tells what was not done.
\* Toggles that overlap may undo one another, but tell what they write.  A
\* role that does not exist is excepted: users_create stores `user' and tells
\* what the form said.
AuditTellsTheState ==
    \A e \in Emails : account[e] # None =>
        /\ log[e].active \in {None, account[e].active} \/ "active" \in amiss[e]
        /\ log[e].role \in {None, "other", account[e].role} \/ "role" \in amiss[e]

\* Accounts are administered by administrators: whoever gets past the check
\* was an active one at some moment since the request arrived.
OnlyAdminsChange ==
    \A q \in Requests :
        pc[q] \in {"check", "insert", "read", "commit"} /\ op[q].kind \in ByAdmin =>
            q \in admins

\* A password is replaced only on proof: of the current password, or of a
\* reset token that has not expired while the account was active, at some
\* moment since the request arrived (password_change, reset_password_submit).
\* That the token has not been used before is no part of it.
PasswordsNeedProof ==
    \A q \in Requests :
        pc[q] = "commit" /\ op[q].kind \in {"change", "reset"} => q \in proved

\* The administrator's password is ADMIN_PASSWORD of the .env that the backend
\* was started with, unless it was changed in the application: what the
\* rotation of secrets relies on.
RotationTakesEffect ==
    up /\ Admin \notin byHand => account[Admin].pw = setting
=============================================================================

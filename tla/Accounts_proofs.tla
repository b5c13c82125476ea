--------------------------- MODULE Accounts_proofs ---------------------------
(***************************************************************************)
(* Proofs about Accounts, for any emails, passwords, reset tokens, requests *)
(* and operations.                                                         *)
(***************************************************************************)
EXTENDS Accounts, TLAPS

(***************************************************************************)
(* The inductive invariant.  A handler is where its kind of operation      *)
(* takes it, and none runs while the backend is down (Placed).  Rows do    *)
(* not go, so the row a handler is about to change is there (Present);     *)
(* where there is none, nothing was created or logged (Unborn).  Whoever   *)
(* asks as an active administrator, or could prove an account its own, has *)
(* been noted (Noted).                                                     *)
(*                                                                         *)
(* The log errs only where two handlers meet.  Two that administer one     *)
(* account at a time have met, and only those overtake one another         *)
(* (Rivalry); for one that has met nobody, the row is as it read it (Seen). *)
(***************************************************************************)
Course(k, label) ==
    \/ label = "auth" /\ k \in ByAdmin \cup {"change"}
    \/ label \in {"check", "insert"} /\ k \in {"register", "create", "form"}
    \/ label = "read" /\ k \in {"toggle", "patch"}
    \/ label = "link" /\ k = "reset"
    \/ label = "commit" /\ k \in {"toggle", "patch", "change", "reset"}

Placed ==
    \A q \in Requests :
        /\ op[q] = None <=> pc[q] = "idle"
        /\ op[q] # None => up /\ Course(op[q].kind, pc[q])

Whose(o) == IF o.kind \in {"toggle", "patch"} THEN o.email ELSE Target(o)

Present ==
    /\ \A q \in Requests :
        /\ pc[q] = "commit" => account[Whose(op[q])] # None
        /\ pc[q] = "read" => snap[q] # None /\ account[op[q].by] # None
    /\ \A q \in Requests :
        op[q] # None /\ op[q].kind = "reset" => issued[op[q].link] # None
    /\ \A l \in Links : issued[l] # None => account[issued[l]] # None

Unborn ==
    \A e \in Emails : account[e] = None => log[e] = NoLog /\ winners[e] = 0

Noted ==
    \A q \in Requests : op[q] # None =>
        /\ op[q].by # None /\ ActiveAdmin(account[op[q].by]) => q \in admins
        /\ Proves(op[q], account) => q \in proved

Rivalry ==
    /\ \A q \in Requests : op[q] # None => Rivals(op[q]) \subseteq met \cup {q}
    /\ \A q \in Requests : \A p \in elder[q] : p # q /\ p \in met /\ op[p] # None
    /\ \A q \in Requests : later[q] # {} => q \in met

AsRead(a, b) == a.active = b.active /\ a.role = b.role

Reads(o, label) ==
    o.kind \in {"toggle", "patch"} /\ (label = "commit" \/ (label = "read" /\ o.by = o.email))

Seen ==
    \A q \in Requests :
        op[q] # None /\ Reads(op[q], pc[q]) /\ q \notin met =>
            AsRead(snap[q], account[op[q].email])

Inv ==
    /\ TypeOK
    /\ Placed
    /\ Present
    /\ Unborn
    /\ Noted
    /\ Rivalry
    /\ Seen
    /\ OneWinnerPerEmail
    /\ AuditTellsTheState
    /\ OnlyAdminsChange
    /\ PasswordsNeedProof

-----------------------------------------------------------------------------

\* What the assumptions say of an operation.
LEMMA OperationFields ==
    ASSUME NEW o \in Operations
    PROVE  /\ o \in OperationType /\ WellFormed(o) /\ o # None
           /\ o.kind \in ByAdmin \cup {"change"} <=> o.by # None
           /\ o.by # None => o.by \in Emails
           /\ o.kind \notin {"change", "reset"} => o.email \in Emails
           /\ o.kind \notin {"toggle", "patch"} => o.pw \in Passwords
           /\ o.kind = "reset" <=> o.link # None
           /\ o.link # None => o.link \in Links
  BY OperationAssumption, NoneAssumption DEF OperationType, WellFormed, ByAdmin

\* The row a password form or an administrator's form is about.
LEMMA WhoseRow ==
    ASSUME Inv, NEW q \in Requests, pc[q] # "idle",
           op[q].kind \in {"toggle", "patch", "change", "reset"}
    PROVE  op[q] \in Operations /\ Whose(op[q]) \in Emails
<1>1. op[q] \in Operations
  BY DEF Inv, TypeOK
<1>2. op[q].kind = "reset" => issued[op[q].link] \in Emails
  BY <1>1, OperationFields DEF Inv, TypeOK, Present
<1> QED
  BY <1>1, <1>2, OperationFields DEF Whose, Target, ByAdmin

LEMMA InitInv == Init => Inv
<1> SUFFICES ASSUME Init PROVE Inv
  OBVIOUS
<1> USE DEF Init
<1>1. TypeOK
  <2>1. NoLog \in [active: BOOLEAN \cup {None}, role: Given \cup {None}]
    BY DEF NoLog
  <2>2. log \in [Emails -> [active: BOOLEAN \cup {None}, role: Given \cup {None}]]
    BY <2>1
  <2>3. winners \in [Emails -> 0..2]
    OBVIOUS
  <2>4. up \in BOOLEAN
    BY Zenon
  <2>5. /\ elder \in [Requests -> SUBSET Requests] /\ later \in [Requests -> SUBSET Columns]
        /\ amiss \in [Emails -> SUBSET Columns]
    OBVIOUS
  <2>6. setting \in Passwords
    BY AdminAssumption
  <2> QED
    BY <2>2, <2>3, <2>4, <2>5, <2>6 DEF TypeOK, Busy
<1>2. Placed /\ Present /\ Unborn /\ Noted /\ Rivalry /\ Seen
  BY DEF Placed, Present, Unborn, Noted, Rivalry, Seen
<1>3. OneWinnerPerEmail /\ AuditTellsTheState /\ OnlyAdminsChange /\ PasswordsNeedProof
  BY DEF OneWinnerPerEmail, AuditTellsTheState, OnlyAdminsChange, PasswordsNeedProof
<1> QED
  BY <1>1, <1>2, <1>3 DEF Inv

\* Who leaves, whatever the rows it leaves behind to those that it has not met.
LEMMA LeaveWatched ==
    ASSUME TypeOK, Rivalry, Seen, NEW q \in Requests, Leave(q), later'[q] = {},
           \A p \in Requests \ {q} : later'[p] = later[p] \/ p \in elder[q],
           \A p \in Requests \ {q} :
               op[p] # None /\ Reads(op[p], pc[p]) /\ p \notin met =>
                   AsRead(account'[op[p].email], account[op[p].email])
    PROVE  Rivalry' /\ Seen'
<1> USE DEF Leave, Goto
<1>1. /\ \A p \in Requests \ {q} : op'[p] = op[p] /\ pc'[p] = pc[p] /\ snap'[p] = snap[p]
      /\ op'[q] = None /\ met' = met \ {q} /\ q \notin elder'[q] /\ elder'[q] = {}
      /\ \A p \in Requests \ {q} : elder'[p] = elder[p] \ {q}
  BY DEF TypeOK
<1>2. \A p \in Requests : op'[p] # None => p # q /\ Rivals(op[p])' \subseteq Rivals(op[p]) \ {q}
  BY <1>1 DEF Rivals
<1>3. Rivalry'
  <2>1. \A p \in Requests : op'[p] # None => Rivals(op[p])' \subseteq met' \cup {p}
    BY <1>1, <1>2 DEF Rivalry
  <2>2. \A p \in Requests : \A x \in elder'[p] : x # p /\ x \in met' /\ op'[x] # None
    BY <1>1 DEF Rivalry, TypeOK
  <2>3. \A p \in Requests : later'[p] # {} => p \in met'
    BY <1>1 DEF Rivalry
  <2> QED
    BY <2>1, <2>2, <2>3 DEF Rivalry
<1>4. Seen'
  BY <1>1 DEF Seen, Reads, AsRead
<1> QED
  BY <1>3, <1>4

\* A handler that answers without a commit leaves nothing behind.
LEMMA EndInv ==
    ASSUME Inv, NEW q \in Requests, End(q),
           UNCHANGED <<table, process, tokens, winners, amiss, byHand>>
    PROVE  Inv'
<1> USE DEF End, Leave, Goto, table, process, tokens
<1>1. TypeOK'
  BY DEF Inv, TypeOK, Busy
<1>2. Placed' /\ Noted'
  BY DEF Inv, TypeOK, Placed, Noted, Proves, ActiveAdmin
<1>3. Present'
  BY DEF Inv, TypeOK, Present, Whose, Target
<1>4. Unborn' /\ OneWinnerPerEmail' /\ AuditTellsTheState'
  BY DEF Inv, Unborn, OneWinnerPerEmail, AuditTellsTheState
<1>5. OnlyAdminsChange' /\ PasswordsNeedProof'
  BY DEF Inv, TypeOK, OnlyAdminsChange, PasswordsNeedProof
<1>6. Rivalry' /\ Seen'
  <2>1. /\ later'[q] = {} /\ \A p \in Requests \ {q} : later'[p] = later[p]
        /\ \A p \in Requests : AsRead(account'[op[p].email], account[op[p].email])
    BY DEF Inv, TypeOK, AsRead
  <2> QED
    BY <2>1, LeaveWatched DEF Inv
<1> QED
  BY <1>1, <1>2, <1>3, <1>4, <1>5, <1>6 DEF Inv

\* A handler goes on, having read rows and written none.
LEMMA AdvanceInv ==
    ASSUME Inv, NEW q \in Requests, pc[q] # "idle", NEW label \in Busy, Goto(q, label),
           NEW seen \in Rows \cup {None}, snap' = [snap EXCEPT ![q] = seen],
           UNCHANGED <<table, process, tokens, op, order, ghosts>>,
           Course(op[q].kind, label),
           label = "commit" => account[Whose(op[q])] # None,
           label = "read" => account[op[q].by] # None,
           Reads(op[q], label) /\ q \notin met => AsRead(seen, account[op[q].email]),
           label \in {"read", "commit"} => seen # None,
           label \notin {"auth", "link"} /\ op[q].kind \in ByAdmin => q \in admins,
           label = "commit" /\ op[q].kind \in {"change", "reset"} => q \in proved
    PROVE  Inv'
<1> USE DEF Goto, table, process, tokens, order, ghosts
<1>1. TypeOK'
  BY DEF Inv, TypeOK, Placed, Busy
<1>2. Placed' /\ Noted'
  BY DEF Inv, TypeOK, Placed, Noted, Proves, ActiveAdmin, Busy
<1>3. Present'
  BY DEF Inv, TypeOK, Present, Whose, Target
<1>4. Unborn' /\ OneWinnerPerEmail' /\ AuditTellsTheState'
  BY DEF Inv, Unborn, OneWinnerPerEmail, AuditTellsTheState
<1>5. OnlyAdminsChange' /\ PasswordsNeedProof'
  BY DEF Inv, TypeOK, OnlyAdminsChange, PasswordsNeedProof
<1>6. Rivalry' /\ Seen'
  BY DEF Inv, TypeOK, Rivalry, Rivals, Seen, AsRead
<1> QED
  BY <1>1, <1>2, <1>3, <1>4, <1>5, <1>6 DEF Inv

\* A handler that commits a row, whatever it tells of it.
LEMMA CommitInv ==
    ASSUME Inv, NEW q \in Requests, pc[q] # "idle", NEW e \in Emails, NEW newRow \in Rows,
           Commit(q, e, newRow), UNCHANGED <<process, tokens>>,
           log' \in [Emails -> [active: BOOLEAN \cup {None}, role: Given \cup {None}]],
           winners' \in [Emails -> 0..2], amiss' \in [Emails -> SUBSET Columns],
           later' \in [Requests -> SUBSET Columns], byHand' \subseteq Emails,
           \A f \in Emails : f # e =>
               log'[f] = log[f] /\ winners'[f] = winners[f] /\ amiss'[f] = amiss[f],
           winners'[e] <= 1,
           later'[q] = {},
           \A p \in Requests \ {q} : later'[p] = later[p] \/ p \in elder[q],
           \/ op[q].kind \in ByAdmin /\ op[q].email = e
           \/ account[e] = None
           \/ AsRead(newRow, account[e]),
           log'[e].active \in {None, newRow.active} \/ "active" \in amiss'[e],
           log'[e].role \in {None, "other", newRow.role} \/ "role" \in amiss'[e]
    PROVE  Inv'
<1> USE DEF Commit, process, tokens
<1>1. newRow # None
  BY NoneAssumption
<1>2. /\ pc' = [pc EXCEPT ![q] = "idle"] /\ op' = [op EXCEPT ![q] = None]
      /\ snap' = [snap EXCEPT ![q] = None] /\ met' = met \ {q}
      /\ elder' \in [Requests -> SUBSET Requests]
  BY DEF Leave, Goto, Inv, TypeOK
<1>3. TypeOK'
  BY <1>2 DEF Inv, TypeOK, Witnessed, Busy
<1>4. Placed'
  BY <1>2 DEF Inv, TypeOK, Placed
<1>5. Present'
  BY <1>1, <1>2 DEF Inv, TypeOK, Present, Whose, Target
<1>6. Noted'
  BY <1>2 DEF Inv, TypeOK, Noted, Witnessed, Proves
<1>7. Unborn' /\ OneWinnerPerEmail' /\ AuditTellsTheState'
  BY <1>1 DEF Inv, TypeOK, Unborn, OneWinnerPerEmail, AuditTellsTheState
<1>8. OnlyAdminsChange' /\ PasswordsNeedProof'
  BY <1>2 DEF Inv, TypeOK, OnlyAdminsChange, PasswordsNeedProof, Witnessed
<1>9. Rivalry' /\ Seen'
  <2>1. /\ account' = [account EXCEPT ![e] = newRow] /\ Leave(q)
        /\ op[q] # None
    BY DEF Inv, Placed
  <2>2. ASSUME NEW p \in Requests \ {q}, op[p] # None, Reads(op[p], pc[p]), p \notin met
        PROVE  AsRead(account'[op[p].email], account[op[p].email])
    <3>1. CASE op[p].email # e
      BY <2>1, <3>1 DEF AsRead
    <3>2. CASE op[p].email = e
      <4>1. account[e] # None
        BY <2>2, <3>2 DEF Inv, Present, Reads, Whose
      <4>2. ~(op[q].kind \in ByAdmin /\ op[q].email = e)
        <5>1. op[q].kind \in ByAdmin /\ op[q].email = e => p \in Rivals(op[q])
          BY <2>2, <3>2 DEF Rivals, Reads, ByAdmin
        <5> QED
          BY <2>1, <2>2, <5>1 DEF Inv, Rivalry
      <4> QED
        BY <2>1, <3>2, <4>1, <4>2 DEF Inv, TypeOK
    <3> QED
      BY <3>1, <3>2
  <2> QED
    BY <2>1, <2>2, LeaveWatched DEF Inv
<1> QED
  BY <1>3, <1>4, <1>5, <1>6, <1>7, <1>8, <1>9 DEF Inv

\* What the record of a handler that administers e does to the order of the
\* records, and to the history of its account.
LEMMA TellOrder ==
    ASSUME Inv, NEW q \in Requests, NEW e \in Emails, op[q] # None, op[q].email = e,
           NEW active, NEW role, Tell(q, active, role)
    PROVE  /\ later' \in [Requests -> SUBSET Columns] /\ later'[q] = {}
           /\ \A p \in Requests \ {q} : later'[p] = later[p] \/ p \in elder[q]
           /\ \A f \in Emails : f # e => log'[f] = log[f]
           /\ log'[e].active = IF active # None /\ "active" \notin later[q]
                               THEN active ELSE log[e].active
           /\ log'[e].role = IF role # None /\ "role" \notin later[q]
                             THEN role ELSE log[e].role
           /\ active \in BOOLEAN \cup {None} /\ role \in Given \cup {None} =>
                log' \in [Emails -> [active: BOOLEAN \cup {None}, role: Given \cup {None}]]
           /\ later[q] # {} => q \in met
<1> DEFINE told == Told(active, role) \ later[q]
           news == [active |-> IF "active" \in told THEN active ELSE log[e].active,
                    role |-> IF "role" \in told THEN role ELSE log[e].role]
<1>1. Told(active, role) \in SUBSET Columns
  BY DEF Told
<1>2. later' \in [Requests -> SUBSET Columns] /\ later'[q] = {}
  BY <1>1 DEF Tell, Inv, TypeOK
<1>3. \A p \in Requests \ {q} : later'[p] = later[p] \/ p \in elder[q]
  BY DEF Tell
<1>4. log' = [log EXCEPT ![e] = news]
  BY DEF Tell
<1>5. /\ "active" \in told <=> active # None /\ "active" \notin later[q]
      /\ "role" \in told <=> role # None /\ "role" \notin later[q]
  BY DEF Told, Columns
<1>6. log[e] \in [active: BOOLEAN \cup {None}, role: Given \cup {None}]
  BY DEF Inv, TypeOK
<1>7. active \in BOOLEAN \cup {None} /\ role \in Given \cup {None} =>
        news \in [active: BOOLEAN \cup {None}, role: Given \cup {None}]
  BY <1>6
<1>8. /\ news.active = IF "active" \in told THEN active ELSE log[e].active
      /\ news.role = IF "role" \in told THEN role ELSE log[e].role
  OBVIOUS
<1> HIDE DEF news, told
<1>9. /\ \A f \in Emails : f # e => log'[f] = log[f]
      /\ log'[e] = news
      /\ news \in [active: BOOLEAN \cup {None}, role: Given \cup {None}] =>
           log' \in [Emails -> [active: BOOLEAN \cup {None}, role: Given \cup {None}]]
  BY <1>4 DEF Inv, TypeOK
<1> QED
  BY <1>2, <1>3, <1>5, <1>7, <1>8, <1>9 DEF Inv, Rivalry

LEMMA JudgeOf ==
    ASSUME Inv, NEW q \in Requests, NEW e \in Emails, op[q].email = e,
           NEW columns \in SUBSET Columns, NEW stale, Judge(q, columns, stale)
    PROVE  /\ amiss' \in [Emails -> SUBSET Columns]
           /\ \A f \in Emails : f # e => amiss'[f] = amiss[f]
           /\ \A c \in Columns :
                /\ c \in columns => (c \in amiss'[e] <=> c \in later[q] \cup stale /\ q \in met)
                /\ c \notin columns => (c \in amiss'[e] <=> c \in amiss[e])
  BY DEF Judge, Inv, TypeOK

-----------------------------------------------------------------------------

\* get_current_user, user_from_request: the row decides, and who is an active
\* administrator or knows the password now has been noted.
LEMMA AuthenticateInv ==
    ASSUME Inv, NEW q \in Requests, Authenticate(q)
    PROVE  Inv'
<1> DEFINE o == op[q]
           a == account[o.by]
<1>1. /\ o \in Operations /\ o.kind \in ByAdmin \cup {"change"}
      /\ o.by \in Emails /\ pc[q] = "auth"
  BY OperationFields DEF Inv, TypeOK, Placed, Course, Authenticate
<1>2. CASE ~May(o, a)
  BY <1>2, EndInv DEF Authenticate
<1>3. CASE May(o, a) /\ o.kind \in {"create", "form"}
  <2>1. q \in admins
    BY <1>1, <1>3, NoneAssumption DEF Inv, Noted, May, ByAdmin
  <2>2. a \in Rows /\ Goto(q, "check")
    BY <1>1, <1>3 DEF Authenticate, Inv, TypeOK, May, ActiveAdmin, ByAdmin
  <2> QED
    BY <1>1, <1>3, <2>1, <2>2, AdvanceInv DEF Authenticate, Course, Busy, Reads, ghosts
<1>4. CASE May(o, a) /\ o.kind \in {"toggle", "patch"}
  <2>1. q \in admins /\ a # None
    BY <1>1, <1>4, NoneAssumption DEF Inv, Noted, May, ByAdmin, ActiveAdmin
  <2>2. a \in Rows /\ Goto(q, "read")
    BY <1>1, <1>4 DEF Authenticate, Inv, TypeOK, May, ActiveAdmin, ByAdmin
  <2>3. Reads(o, "read") => AsRead(a, account[o.email])
    BY DEF Reads, AsRead
  <2> QED
    BY <1>1, <1>4, <2>1, <2>2, <2>3, AdvanceInv DEF Authenticate, Course, Busy, ghosts
<1>5. CASE May(o, a) /\ o.kind = "change"
  <2>1. q \in proved /\ a # None
    BY <1>1, <1>5, NoneAssumption DEF Inv, Noted, Proves, May, ByAdmin
  <2>2. a \in Rows /\ Goto(q, "commit") /\ Whose(o) = o.by
    BY <1>1, <1>5, <2>1 DEF Authenticate, Inv, TypeOK, Whose, Target
  <2> QED
    BY <1>1, <1>5, <2>1, <2>2, AdvanceInv DEF Authenticate, Course, Busy, Reads, ByAdmin, ghosts
<1> QED
  BY <1>1, <1>2, <1>3, <1>4, <1>5 DEF ByAdmin

\* The SELECT by email.
LEMMA CheckEmailInv ==
    ASSUME Inv, NEW q \in Requests, CheckEmail(q)
    PROVE  Inv'
<1>1. CASE account[op[q].email] # None
  BY <1>1, EndInv DEF CheckEmail
<1>2. CASE account[op[q].email] = None
  <2>1. /\ Course(op[q].kind, "insert") /\ snap[q] \in Rows \cup {None}
        /\ op[q].kind \in ByAdmin => q \in admins
        /\ snap' = [snap EXCEPT ![q] = snap[q]]
    BY <1>2 DEF CheckEmail, Inv, TypeOK, Placed, Course, OnlyAdminsChange
  <2> QED
    BY <1>2, <2>1, AdvanceInv DEF CheckEmail, Busy, Reads, ghosts
<1> QED
  BY <1>1, <1>2

\* The INSERT, which the unique email refuses or not.
LEMMA InsertInv ==
    ASSUME Inv, NEW q \in Requests, Insert(q)
    PROVE  Inv'
<1> DEFINE o == op[q]
           newRow == [active |-> TRUE, role |-> RoleOf(o), pw |-> o.pw]
<1>1. /\ o \in Operations /\ o.kind \in {"register", "create", "form"}
      /\ o.email \in Emails /\ o.pw \in Passwords
  BY OperationFields DEF Inv, TypeOK, Placed, Course, Insert
<1>2. CASE account[o.email] # None
  BY <1>2, EndInv DEF Insert, table
<1>3. CASE account[o.email] = None
  <2>1. /\ o.kind # "register" => o.role \in Given
        /\ RoleOf(o) \in Given
        /\ o.kind # "register" => o.role \in {"other", RoleOf(o)}
    BY <1>1, OperationFields DEF RoleOf, Given, OperationType, WellFormed
  <2>2. newRow \in Rows
    BY <1>1, <2>1 DEF Rows
  <2>3. log[o.email] = NoLog /\ winners[o.email] = 0
    BY <1>1, <1>3 DEF Inv, Unborn
  <2>4. /\ Commit(q, o.email, newRow) /\ pc[q] # "idle" /\ o # None
        /\ winners' = [winners EXCEPT ![o.email] = 1]
        /\ byHand' = byHand \cup {o.email}
        /\ UNCHANGED <<process, tokens>>
    BY <1>1, <1>3, <2>3, OperationFields DEF Insert, Inv, TypeOK
  <2>5. /\ winners' \in [Emails -> 0..2] /\ winners'[o.email] <= 1
        /\ \A f \in Emails : f # o.email => winners'[f] = winners[f]
        /\ byHand' \subseteq Emails
    BY <1>1, <2>4 DEF Inv, TypeOK
  <2> HIDE DEF newRow
  <2>6. newRow.role = RoleOf(o)
    BY DEF newRow
  <2>7. CASE o.kind = "register"
    <3>1. /\ log' = log /\ amiss' = amiss /\ later' = [later EXCEPT ![q] = {}]
          /\ log[o.email].active = None /\ log[o.email].role = None
      BY <1>3, <2>3, <2>7 DEF Insert, TellNothing, NoLog
    <3>2. /\ later' \in [Requests -> SUBSET Columns] /\ later'[q] = {}
          /\ \A p \in Requests \ {q} : later'[p] = later[p]
      BY <3>1 DEF Inv, TypeOK
    <3> QED
      BY <1>1, <1>3, <2>2, <2>4, <2>5, <2>6, <3>1, <3>2, CommitInv DEF Inv, TypeOK
  <2>8. CASE o.kind # "register"
    <3>1. Tell(q, None, o.role) /\ Judge(q, {"role"}, {}) /\ {"role"} \in SUBSET Columns
      BY <1>3, <2>8 DEF Insert, Columns
    <3>2. log[o.email].active = None /\ log[o.email].role = None
      BY <2>3 DEF NoLog
    <3>3. /\ later' \in [Requests -> SUBSET Columns] /\ later'[q] = {}
          /\ \A p \in Requests \ {q} : later'[p] = later[p] \/ p \in elder[q]
          /\ \A f \in Emails : f # o.email => log'[f] = log[f]
          /\ log' \in [Emails -> [active: BOOLEAN \cup {None}, role: Given \cup {None}]]
          /\ log'[o.email].active = None
          /\ log'[o.email].role \in {None, o.role}
      BY <1>1, <2>1, <2>4, <2>8, <3>1, <3>2, TellOrder
    <3>4. /\ amiss' \in [Emails -> SUBSET Columns]
          /\ \A f \in Emails : f # o.email => amiss'[f] = amiss[f]
      BY <1>1, <3>1, JudgeOf
    <3>5. log'[o.email].role \in {None, "other", newRow.role}
      BY <2>1, <2>6, <2>8, <3>3
    <3> QED
      BY <1>1, <1>3, <2>2, <2>4, <2>5, <3>3, <3>4, <3>5, CommitInv
  <2> QED
    BY <2>7, <2>8
<1> QED
  BY <1>2, <1>3

\* The SELECT of the row to be changed.
LEMMA ReadTargetInv ==
    ASSUME Inv, NEW q \in Requests, ReadTarget(q)
    PROVE  Inv'
<1> DEFINE o == op[q]
           seen == IF o.by = o.email THEN snap[q] ELSE account[o.email]
<1>1. /\ o \in Operations /\ o.kind \in {"toggle", "patch"} /\ o.email \in Emails
      /\ pc[q] = "read"
  BY OperationFields DEF Inv, TypeOK, Placed, Course, ReadTarget
<1>2. CASE account[o.email] = None
  BY <1>2, EndInv DEF ReadTarget
<1>3. CASE account[o.email] # None
  <2>1. seen \in Rows
    BY <1>1, <1>3 DEF Inv, TypeOK, Present
  <2>2. /\ seen # None /\ q \in admins
        /\ Course(o.kind, "commit") /\ Whose(o) = o.email
    BY <1>1, <2>1, NoneAssumption DEF Inv, OnlyAdminsChange, ByAdmin, Course, Whose
  <2>3. /\ Goto(q, "commit") /\ snap' = [snap EXCEPT ![q] = seen]
        /\ UNCHANGED <<table, process, tokens, op, order, ghosts>>
    BY <1>3 DEF ReadTarget, ghosts
  <2>4. q \notin met => AsRead(seen, account[o.email])
    BY <1>1, NoneAssumption, OperationFields DEF Inv, Seen, Reads, AsRead
  <2> HIDE DEF seen
  <2> QED
    BY <1>1, <1>3, <2>1, <2>2, <2>3, <2>4, AdvanceInv DEF Busy
<1> QED
  BY <1>2, <1>3

\* A reset token is looked at, and its account.
LEMMA OpenLinkInv ==
    ASSUME Inv, NEW q \in Requests, OpenLink(q)
    PROVE  Inv'
<1> DEFINE o == op[q]
           e == issued[o.link]
<1>1. o \in Operations /\ o.kind = "reset" /\ o.link \in Links /\ pc[q] = "link"
  BY OperationFields DEF Inv, TypeOK, Placed, Course, OpenLink
<1>2. e \in Emails /\ account[e] \in Rows /\ account[e] # None
  BY <1>1, NoneAssumption DEF Inv, TypeOK, Placed, Present
<1>3. CASE ~(o.link \notin expired /\ account[e].active)
  BY <1>3, EndInv DEF OpenLink
<1>4. CASE o.link \notin expired /\ account[e].active
  <2>1. q \in proved
    BY <1>1, <1>2, <1>4, NoneAssumption DEF Inv, Noted, Proves
  <2>2. Course(o.kind, "commit") /\ Whose(o) = e
    BY <1>1 DEF Course, Whose, Target
  <2>3. /\ Goto(q, "commit") /\ snap' = [snap EXCEPT ![q] = account[e]]
        /\ UNCHANGED <<table, process, tokens, op, order, ghosts>>
    BY <1>2, <1>4, NoneAssumption DEF OpenLink, ghosts
  <2> QED
    BY <1>1, <1>2, <2>1, <2>2, <2>3, AdvanceInv DEF Busy, Reads, ByAdmin
<1> QED
  BY <1>3, <1>4

\* A toggle logs the value it writes, whatever the row has become meanwhile.
LEMMA CommitToggleInv ==
    ASSUME Inv, NEW q \in Requests, CommitToggle(q)
    PROVE  Inv'
<1> DEFINE e == op[q].email
           new == ~snap[q].active
           newRow == [account[e] EXCEPT !.active = new]
<1>1. op[q] \in Operations /\ e \in Emails /\ account[e] # None /\ pc[q] # "idle"
  BY WhoseRow DEF Inv, Present, Whose, CommitToggle
<1>2. account[e] \in Rows /\ snap[q] \in Rows
  BY <1>1 DEF Inv, TypeOK, CommitToggle
<1>3. new \in BOOLEAN
  OBVIOUS
<1>4. newRow \in Rows /\ newRow.active = new /\ newRow.role = account[e].role
  BY <1>2, <1>3 DEF Rows
<1>5. new # None
  BY <1>3, NoneAssumption
<1>6. /\ Commit(q, e, newRow) /\ UNCHANGED <<process, tokens, winners, byHand>>
      /\ Tell(q, new, None) /\ Judge(q, {"active"}, {}) /\ {"active"} \in SUBSET Columns
      /\ op[q] # None /\ op[q].kind \in ByAdmin
  BY <1>1, OperationFields DEF CommitToggle, Columns, ByAdmin
<1> HIDE DEF newRow, new
<1>7. /\ later' \in [Requests -> SUBSET Columns] /\ later'[q] = {}
      /\ \A p \in Requests \ {q} : later'[p] = later[p] \/ p \in elder[q]
      /\ \A f \in Emails : f # e => log'[f] = log[f]
      /\ log' \in [Emails -> [active: BOOLEAN \cup {None}, role: Given \cup {None}]]
      /\ log'[e].active = IF "active" \notin later[q] THEN new ELSE log[e].active
      /\ log'[e].role = log[e].role
      /\ later[q] # {} => q \in met
  BY <1>1, <1>3, <1>5, <1>6, TellOrder
<1>8. /\ amiss' \in [Emails -> SUBSET Columns]
      /\ \A f \in Emails : f # e => amiss'[f] = amiss[f]
      /\ \A c \in Columns :
           /\ c \in {"active"} => (c \in amiss'[e] <=> c \in later[q] \cup {} /\ q \in met)
           /\ c \notin {"active"} => (c \in amiss'[e] <=> c \in amiss[e])
  BY <1>1, <1>6, JudgeOf
<1>9. /\ "active" \in amiss'[e] <=> "active" \in later[q]
      /\ "role" \in amiss'[e] <=> "role" \in amiss[e]
  BY <1>7, <1>8 DEF Columns
<1>10. log[e].role \in {None, "other", account[e].role} \/ "role" \in amiss[e]
  BY <1>1 DEF Inv, AuditTellsTheState
<1>11. winners[e] <= 1
  BY <1>1 DEF Inv, OneWinnerPerEmail
<1> QED
  BY <1>1, <1>4, <1>6, <1>7, <1>8, <1>9, <1>10, <1>11, CommitInv DEF Inv, TypeOK

\* A PATCH leaves out the columns that are as it read them: if nobody changed
\* the row since, they are as it wants them.
LEMMA CommitPatchInv ==
    ASSUME Inv, NEW q \in Requests, CommitPatch(q)
    PROVE  Inv'
<1> DEFINE o == op[q]
           e == o.email
           now == account[e]
           active == Written(o.active, snap[q].active, now.active)
           role == Written(o.role, snap[q].role, now.role)
           pw == IF o.pw = None THEN now.pw ELSE o.pw
           newRow == [active |-> active, role |-> role, pw |-> pw]
<1>1. o \in Operations /\ e \in Emails /\ now # None /\ pc[q] # "idle"
  BY WhoseRow DEF Inv, Present, Whose, CommitPatch
<1>2. now \in Rows /\ snap[q] \in Rows
  BY <1>1 DEF Inv, TypeOK, CommitPatch
<1>3. /\ o.active \in BOOLEAN \cup {None} /\ o.role \in Given \cup {None}
      /\ o.pw \in Passwords \cup {None}
  BY <1>1, OperationFields DEF OperationType
<1>4. active \in BOOLEAN /\ role \in Given /\ pw \in Passwords
  BY <1>2, <1>3 DEF Written, Rows
<1>5. newRow \in Rows
  BY <1>4 DEF Rows
<1> DEFINE columns == Told(o.active, o.role)
           stale == {c \in Columns : o[c] = snap[q][c] /\ snap[q][c] # now[c]}
<1>6. /\ "active" \in stale <=> o.active = snap[q].active /\ snap[q].active # now.active
      /\ "role" \in stale <=> o.role = snap[q].role /\ snap[q].role # now.role
      /\ "active" \in columns <=> o.active # None
      /\ "role" \in columns <=> o.role # None
      /\ columns \in SUBSET Columns
  BY DEF Columns, Told
<1>7. /\ Commit(q, e, newRow) /\ UNCHANGED <<process, tokens, winners>>
      /\ Tell(q, o.active, o.role) /\ Judge(q, columns, stale)
      /\ byHand' \in {byHand, byHand \cup {e}}
      /\ o # None /\ o.kind \in ByAdmin
  BY <1>1, OperationFields DEF CommitPatch, ByAdmin
<1>8. /\ later' \in [Requests -> SUBSET Columns] /\ later'[q] = {}
      /\ \A p \in Requests \ {q} : later'[p] = later[p] \/ p \in elder[q]
      /\ \A f \in Emails : f # e => log'[f] = log[f]
      /\ log' \in [Emails -> [active: BOOLEAN \cup {None}, role: Given \cup {None}]]
      /\ log'[e].active = IF o.active # None /\ "active" \notin later[q]
                          THEN o.active ELSE log[e].active
      /\ log'[e].role = IF o.role # None /\ "role" \notin later[q]
                        THEN o.role ELSE log[e].role
      /\ later[q] # {} => q \in met
  BY <1>1, <1>3, <1>7, TellOrder
<1>9. /\ "active" \in stale \/ "role" \in stale => q \in met
      /\ "active" \notin stale => o.active = None \/ active = o.active
      /\ "role" \notin stale => o.role = None \/ role = o.role
      /\ o.active = None => active = now.active
      /\ o.role = None => role = now.role
  <2>1. q \notin met => AsRead(snap[q], now)
    <3>1. pc[q] = "commit" /\ o.kind = "patch"
      BY DEF CommitPatch
    <3> QED
      BY <1>7, <3>1 DEF Inv, Seen, Reads
  <2> QED
    BY <1>6, <2>1 DEF AsRead, Written
<1> HIDE DEF columns, stale
<1>10. /\ amiss' \in [Emails -> SUBSET Columns]
       /\ \A f \in Emails : f # e => amiss'[f] = amiss[f]
       /\ \A c \in Columns :
            /\ c \in columns => (c \in amiss'[e] <=> c \in later[q] \cup stale /\ q \in met)
            /\ c \notin columns => (c \in amiss'[e] <=> c \in amiss[e])
  BY <1>1, <1>6, <1>7, JudgeOf
<1>11. /\ newRow.active = active /\ newRow.role = role
       /\ "active" \in Columns /\ "role" \in Columns
  BY DEF Columns
<1>12. /\ log[e].active \in {None, now.active} \/ "active" \in amiss[e]
       /\ log[e].role \in {None, "other", now.role} \/ "role" \in amiss[e]
  BY <1>1 DEF Inv, AuditTellsTheState
<1> HIDE DEF newRow, active, role, pw
<1>13. log'[e].active \in {None, newRow.active} \/ "active" \in amiss'[e]
  BY <1>6, <1>8, <1>9, <1>10, <1>11, <1>12
<1>14. log'[e].role \in {None, "other", newRow.role} \/ "role" \in amiss'[e]
  BY <1>6, <1>8, <1>9, <1>10, <1>11, <1>12
<1>15. winners'[e] <= 1 /\ byHand' \subseteq Emails /\ winners' \in [Emails -> 0..2]
  BY <1>1, <1>7 DEF Inv, TypeOK, OneWinnerPerEmail
<1> QED
  BY <1>1, <1>5, <1>7, <1>8, <1>10, <1>13, <1>14, <1>15, CommitInv

\* A new password changes nothing else.
LEMMA CommitPasswordInv ==
    ASSUME Inv, NEW q \in Requests, CommitPassword(q)
    PROVE  Inv'
<1> DEFINE o == op[q]
           e == Target(o)
           newRow == [account[e] EXCEPT !.pw = o.pw]
<1>1. /\ o \in Operations /\ e \in Emails /\ account[e] # None /\ pc[q] # "idle"
      /\ o.pw \in Passwords
  BY WhoseRow, OperationFields DEF Inv, Present, Whose, CommitPassword
<1>2. account[e] \in Rows
  BY <1>1 DEF Inv, TypeOK
<1>3. /\ newRow \in Rows /\ newRow.active = account[e].active
      /\ newRow.role = account[e].role
  BY <1>1, <1>2 DEF Rows
<1>4. /\ Commit(q, e, newRow) /\ byHand' = byHand \cup {e}
      /\ UNCHANGED <<log, process, tokens, winners, amiss>>
      /\ later' = [later EXCEPT ![q] = {}]
  BY DEF CommitPassword, TellNothing
<1>5. /\ log[e].active \in {None, account[e].active} \/ "active" \in amiss[e]
      /\ log[e].role \in {None, "other", account[e].role} \/ "role" \in amiss[e]
  BY <1>1 DEF Inv, AuditTellsTheState
<1>7. /\ later' \in [Requests -> SUBSET Columns] /\ later'[q] = {}
      /\ \A p \in Requests \ {q} : later'[p] = later[p]
  BY <1>4 DEF Inv, TypeOK
<1>8. AsRead(newRow, account[e])
  BY <1>3 DEF AsRead
<1>6. winners[e] <= 1
  BY <1>1 DEF Inv, OneWinnerPerEmail
<1> HIDE DEF newRow
<1> QED
  BY <1>1, <1>3, <1>4, <1>5, <1>6, <1>7, <1>8, CommitInv DEF Inv, TypeOK

\* A request arrives, and who asks is noted.
LEMMA ArriveInv ==
    ASSUME Inv, NEW q \in Requests, NEW o \in Operations, Arrive(q, o)
    PROVE  Inv'
<1> USE DEF table, process, tokens
<1> DEFINE label == CASE o.kind = "register" -> "check"
                      [] o.kind = "reset" -> "link"
                      [] OTHER -> "auth"
<1>1. /\ o # None
      /\ o.by # None => o.by \in Emails
      /\ o.kind = "reset" => o.link \in Links
  BY OperationFields
<1>2. /\ label \in {"check", "link", "auth"} /\ Course(o.kind, label)
      /\ label = "check" => o.kind \notin ByAdmin
  BY OperationFields DEF Course, OperationType, ByAdmin
<1>3. /\ pc' = [pc EXCEPT ![q] = label] /\ op' = [op EXCEPT ![q] = o]
      /\ o.kind = "reset" => issued[o.link] # None
      /\ Witnessed(account, op', q)
      /\ UNCHANGED <<table, process, tokens, snap, later, winners, amiss, byHand>>
      /\ elder' = [elder EXCEPT ![q] = Rivals(o)]
      /\ met' = met \cup Rivals(o) \cup {p \in {q} : Rivals(o) # {}}
  BY DEF Arrive, Goto
<1>up. up' /\ op[q] = None
  BY DEF Arrive, Inv, Placed
<1>rivals. Rivals(o) \in SUBSET Requests /\ \A p \in Rivals(o) : p # q /\ op[p] # None
  BY <1>up DEF Rivals
<1> HIDE DEF label
<1>4. TypeOK'
  BY <1>1, <1>2, <1>3, <1>rivals DEF Inv, TypeOK, Witnessed, Busy
<1>5. Placed'
  BY <1>1, <1>2, <1>3, <1>up DEF Inv, TypeOK, Placed
<1>6. Present'
  BY <1>1, <1>2, <1>3 DEF Inv, TypeOK, Present, Whose, Target
<1>7. Noted'
  BY <1>1, <1>2, <1>3 DEF Inv, TypeOK, Noted, Witnessed, Proves
<1>8. Unborn' /\ OneWinnerPerEmail' /\ AuditTellsTheState'
  BY <1>3 DEF Inv, Unborn, OneWinnerPerEmail, AuditTellsTheState
<1>9. OnlyAdminsChange' /\ PasswordsNeedProof'
  BY <1>1, <1>2, <1>3 DEF Inv, TypeOK, OnlyAdminsChange, PasswordsNeedProof, Witnessed
<1>10. Rivalry'
  <2>1. op'[q] = o /\ \A p \in Requests \ {q} : op'[p] = op[p]
    BY <1>3 DEF Inv, TypeOK
  <2>2. ASSUME NEW p \in Requests, op'[p] # None, NEW r \in Requests, r \in Rivals(op[p])',
               r # p
        PROVE  r \in met'
    <3>1. CASE p = q
      BY <1>3, <2>1, <2>2, <3>1 DEF Rivals
    <3>2. CASE r = q
      <4>1. p \in Rivals(o)
        BY <2>1, <2>2, <3>2 DEF Rivals
      <4> QED
        BY <1>3, <3>2, <4>1
    <3>3. CASE p # q /\ r # q
      BY <1>3, <2>1, <2>2, <3>3 DEF Inv, Rivalry, Rivals
    <3> QED
      BY <3>1, <3>2, <3>3
  <2>3. \A p \in Requests : op'[p] # None => Rivals(op[p])' \subseteq met' \cup {p}
    BY <2>2 DEF Rivals
  <2>4. \A p \in Requests : \A r \in elder'[p] : p # r /\ r \in met' /\ op'[r] # None
    BY <1>1, <1>3, <1>rivals, <2>1 DEF Inv, TypeOK, Rivalry
  <2>5. \A p \in Requests : later'[p] # {} => p \in met'
    BY <1>3 DEF Inv, Rivalry
  <2> QED
    BY <2>3, <2>4, <2>5 DEF Rivalry
<1>11. Seen'
  BY <1>2, <1>3 DEF Inv, TypeOK, Seen, Reads, AsRead
<1> QED
  BY <1>4, <1>5, <1>6, <1>7, <1>8, <1>9, <1>10, <1>11 DEF Inv

\* A token is made for an active account, or has become too old.
LEMMA TokenInv ==
    ASSUME Inv, NEW l \in Links, Expire(l) \/ \E e \in Emails : Forgot(l, e)
    PROVE  Inv'
<1> USE DEF table, process, order, ghosts, Expire, Forgot
<1>1. TypeOK' /\ Placed'
  BY DEF Inv, TypeOK, Placed
<1>2. \A k \in Links : issued[k] # None => issued'[k] = issued[k]
  BY DEF Inv, TypeOK
<1>3. \A q \in Requests : op[q] # None /\ op[q].kind = "reset" =>
        op[q].link \in Links /\ issued'[op[q].link] = issued[op[q].link]
  BY <1>2, OperationFields DEF Inv, TypeOK, Present
<1>4. Present'
  BY <1>3, NoneAssumption DEF Inv, TypeOK, Present, Placed, Whose, Target
<1>5. Noted'
  BY <1>3 DEF Inv, Noted, Proves
<1>6. Unborn' /\ OneWinnerPerEmail' /\ AuditTellsTheState'
  BY DEF Inv, Unborn, OneWinnerPerEmail, AuditTellsTheState
<1>7. OnlyAdminsChange' /\ PasswordsNeedProof'
  BY DEF Inv, OnlyAdminsChange, PasswordsNeedProof
<1>8. Rivalry' /\ Seen'
  BY DEF Inv, Rivalry, Rivals, Seen
<1> QED
  BY <1>1, <1>4, <1>5, <1>6, <1>7, <1>8 DEF Inv

\* While the backend is down nobody asks for anything, so that the row which
\* bootstrap_admin makes is seen by no handler under way.
LEMMA BootInv ==
    ASSUME Inv, NEW p \in AdminPasswords, Boot(p)
    PROVE  Inv'
<1> USE DEF tokens, order, ghosts, Boot
<1>0. p \in Passwords
  BY AdminAssumption
<1> DEFINE admin == [active |-> TRUE, role |-> "admin", pw |-> p]
<1>1. admin \in Rows
  BY <1>0 DEF Rows, Given
<1>2. account' = IF account[Admin] = None THEN [account EXCEPT ![Admin] = admin] ELSE account
  OBVIOUS
<1>3. \A q \in Requests : op[q] = None /\ pc[q] = "idle"
  BY DEF Inv, Placed
<1> HIDE DEF admin
<1>4. up' \in BOOLEAN /\ admin # None
  <2>1. up' \in BOOLEAN
    BY Zenon
  <2>2. admin # None
    BY <1>1, NoneAssumption
  <2> QED
    BY <2>1, <2>2
<1>5. TypeOK'
  BY <1>0, <1>1, <1>2, <1>4, AdminAssumption DEF Inv, TypeOK
<1>6. Placed' /\ Noted' /\ Seen' /\ OnlyAdminsChange' /\ PasswordsNeedProof'
  BY <1>3 DEF Placed, Noted, Seen, OnlyAdminsChange, PasswordsNeedProof
<1>10. Rivalry'
  BY DEF Inv, Rivalry, Rivals
<1>7. Present'
  BY <1>1, <1>2, <1>4, <1>3, AdminAssumption DEF Inv, TypeOK, Present
<1>8. Unborn' /\ OneWinnerPerEmail'
  BY <1>1, <1>2, <1>4, AdminAssumption DEF Inv, TypeOK, Unborn, OneWinnerPerEmail
<1>9. AuditTellsTheState'
  <2>1. account[Admin] = None => log[Admin].active = None /\ log[Admin].role = None
    BY AdminAssumption DEF Inv, Unborn, NoLog
  <2>2. \A e \in Emails :
          \/ account'[e] = account[e]
          \/ log[e].active = None /\ log[e].role = None
    BY <1>2, <2>1, AdminAssumption DEF Inv, TypeOK
  <2>3. log' = log /\ amiss' = amiss
    OBVIOUS
  <2> SUFFICES ASSUME NEW e \in Emails, account'[e] # None
               PROVE  /\ log[e].active \in {None, account'[e].active} \/ "active" \in amiss[e]
                      /\ \/ log[e].role \in {None, "other", account'[e].role}
                         \/ "role" \in amiss[e]
    BY <2>3 DEF AuditTellsTheState
  <2>4. CASE account'[e] = account[e]
    BY <2>4 DEF Inv, AuditTellsTheState
  <2> QED
    BY <2>2, <2>4
<1> QED
  BY <1>5, <1>6, <1>7, <1>8, <1>9, <1>10 DEF Inv

LEMMA StopInv ==
    ASSUME Inv, Stop
    PROVE  Inv'
<1> USE DEF table, tokens, Stop
<1>1. up' \in BOOLEAN
  BY Zenon
<1>2. TypeOK'
  BY <1>1 DEF Inv, TypeOK
<1>3. Placed' /\ Noted' /\ Seen' /\ Rivalry' /\ OnlyAdminsChange' /\ PasswordsNeedProof'
  BY DEF Placed, Noted, Seen, Rivalry, OnlyAdminsChange, PasswordsNeedProof
<1>4. Present' /\ Unborn' /\ OneWinnerPerEmail' /\ AuditTellsTheState'
  BY DEF Inv, Present, Unborn, OneWinnerPerEmail, AuditTellsTheState
<1> QED
  BY <1>2, <1>3, <1>4 DEF Inv

LEMMA StutterInv == Inv /\ UNCHANGED vars => Inv'
<1> SUFFICES ASSUME Inv, UNCHANGED vars PROVE Inv'
  OBVIOUS
<1> USE DEF vars, table, process, tokens, order, ghosts
<1>1. TypeOK' /\ Placed' /\ Unborn'
  BY DEF Inv, TypeOK, Placed, Unborn
<1>2. Present' /\ Noted'
  BY DEF Inv, Present, Noted, Whose, Target, Proves
<1>3. OneWinnerPerEmail' /\ AuditTellsTheState' /\ OnlyAdminsChange' /\ PasswordsNeedProof'
  BY DEF Inv, OneWinnerPerEmail, AuditTellsTheState, OnlyAdminsChange, PasswordsNeedProof
<1>4. Rivalry' /\ Seen'
  BY DEF Inv, Rivalry, Rivals, Seen
<1> QED
  BY <1>1, <1>2, <1>3, <1>4 DEF Inv

\* The invariant is inductive.
THEOREM InvHolds == Spec => []Inv
<1>1. Inv /\ [Next]_vars => Inv'
  <2> SUFFICES ASSUME Inv, [Next]_vars
               PROVE  Inv'
    OBVIOUS
  <2>1. ASSUME NEW q \in Requests, Handle(q)
        PROVE  Inv'
    BY <2>1, ArriveInv, AuthenticateInv, CheckEmailInv, InsertInv, ReadTargetInv, CommitToggleInv,
       CommitPatchInv, CommitPasswordInv, OpenLinkInv, EndInv DEF Handle, Fail
  <2> QED
    BY <2>1, TokenInv, BootInv, StopInv, StutterInv DEF Next
<1> QED
  BY InitInv, <1>1, PTL DEF Spec

\* Rows, tokens and handlers are always well formed.
THEOREM TypeCorrect == Spec => []TypeOK
<1>1. Inv => TypeOK
  BY DEF Inv
<1> QED
  BY InvHolds, <1>1, PTL

\* However many registrations and creations of one email overlap, one wins
\* (the unique column of users.email).
THEOREM EmailsAreUnique == Spec => []OneWinnerPerEmail
<1>1. Inv => OneWinnerPerEmail
  BY DEF Inv
<1> QED
  BY InvHolds, <1>1, PTL

\* The newest audit record, by created_at, tells the state of an account, but
\* where handlers of the account met and one was overtaken or left a column
\* out (users_toggle, users_create, admin_create_user, admin_update_user).
THEOREM AuditIsTrue == Spec => []AuditTellsTheState
<1>1. Inv => AuditTellsTheState
  BY DEF Inv
<1> QED
  BY InvHolds, <1>1, PTL

\* Only administrators administer accounts (require_admin).
THEOREM AdminsOnly == Spec => []OnlyAdminsChange
<1>1. Inv => OnlyAdminsChange
  BY DEF Inv
<1> QED
  BY InvHolds, <1>1, PTL

\* A password is replaced only on proof (password_change, reset_password_submit).
THEOREM ProofIsNeeded == Spec => []PasswordsNeedProof
<1>1. Inv => PasswordsNeedProof
  BY DEF Inv
<1> QED
  BY InvHolds, <1>1, PTL
=============================================================================

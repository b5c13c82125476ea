------------------------------ MODULE Sessions ------------------------------
(***************************************************************************)
(* Browser and API sessions: the refresh_tokens table, users.is_active,    *)
(* and the requests that create, rotate and revoke refresh tokens.         *)
(*                                                                         *)
(* Every request is a coroutine of the one backend process.  Between two   *)
(* awaits it is atomic; each SELECT and each COMMIT is an await of its     *)
(* own, so it is a step of its own here and any other request may run in   *)
(* between.  PostgreSQL runs at READ COMMITTED and no handler locks the    *)
(* rows it reads, so what a step writes may rest on a stale read.          *)
(*                                                                         *)
(* How users come to exist and who changes is_active is in Accounts.       *)
(***************************************************************************)
EXTENDS Naturals, FiniteSets

CONSTANTS
    Users,      \* users that have a row
    Jtis,       \* the uuid4 identifiers refresh tokens may get (the bound)
    Requests,   \* request slots: how many requests run at the same time
    None        \* no row, no token, no user

ASSUME NoneAssumption == None \notin Users /\ None \notin Jtis
ASSUME FiniteJtis == IsFiniteSet(Jtis)

VARIABLES
    active,     \* users.is_active
    owner,      \* refresh_tokens.user_id, None where there is no such row
    revoked,    \* the jtis whose row has revoked = TRUE
    expired,    \* the jtis whose expires_at has passed
    pc,         \* what each request does next
    usr,        \* the user a request is about
    tok,        \* the refresh token a request presented
    (***********************************************************************)
    (* History, read by no action.                                         *)
    (***********************************************************************)
    parent,     \* the token a token was rotated from, None for a login
    contended,  \* tokens two requests presented at overlapping times
    everActive  \* the user was active at some moment of the request

table == <<active, owner, revoked, expired>>
history == <<parent, contended, everActive>>
vars == <<table, pc, usr, tok, history>>

Rotating == {"refreshUser", "refreshCommit"}
Presenting == Rotating \cup {"refresh", "logout", "logoutCommit"}
Working == Presenting \cup {"login", "issue"}
Settled == {"loggedIn", "refreshed", "loggedOut", "refused", "failed", "swallowed"}

Issued == {j \in Jtis : owner[j] # None}
Successors(j) == {s \in Jtis : parent[s] = j}
Live(j) == owner[j] # None /\ j \notin revoked /\ j \notin expired

TypeOK ==
    /\ active \in [Users -> BOOLEAN]
    /\ owner \in [Jtis -> Users \cup {None}]
    /\ revoked \subseteq Issued
    /\ expired \subseteq Issued
    /\ pc \in [Requests -> Working \cup Settled \cup {"idle"}]
    /\ usr \in [Requests -> Users \cup {None}]
    /\ tok \in [Requests -> Jtis \cup {None}]
    /\ \A r \in Requests :
        /\ pc[r] \in Working => usr[r] \in Users
        /\ pc[r] \in Presenting => tok[r] \in Issued /\ usr[r] = owner[tok[r]]
    /\ parent \in [Jtis -> Jtis \cup {None}]
    /\ contended \subseteq Issued
    /\ everActive \in [Requests -> BOOLEAN]

Init ==
    /\ active \in [Users -> BOOLEAN]
    /\ owner = [j \in Jtis |-> None]
    /\ revoked = {}
    /\ expired = {}
    /\ pc = [r \in Requests |-> "idle"]
    /\ usr = [r \in Requests |-> None]
    /\ tok = [r \in Requests |-> None]
    /\ parent = [j \in Jtis |-> None]
    /\ contended = {}
    /\ everActive = [r \in Requests |-> FALSE]

\* Request r goes on to `label'; what it is about stays.
Goto(r, label) ==
    /\ pc' = [pc EXCEPT ![r] = label]
    /\ UNCHANGED <<usr, tok>>

(***************************************************************************)
(* Arrivals.  A free slot takes a new request; nothing is read yet (login  *)
(* first awaits the rate limiter, refresh and logout decode the JWT).      *)
(***************************************************************************)
Take(r, u, j, label) ==
    /\ pc[r] = "idle"
    /\ pc' = [pc EXCEPT ![r] = label]
    /\ usr' = [usr EXCEPT ![r] = u]
    /\ tok' = [tok EXCEPT ![r] = j]
    /\ everActive' = [everActive EXCEPT ![r] = active[u]]
    /\ UNCHANGED <<table, parent>>

ArriveLogin(r, u) == Take(r, u, None, "login") /\ UNCHANGED contended

\* The portal's POST /register, once the row of the new (active) user is
\* committed, goes on to issue_session without another check.
ArriveRegistered(r, u) ==
    /\ active[u]
    /\ Take(r, u, None, "issue")
    /\ UNCHANGED contended

\* A client presents a token the platform once issued to it.
ArriveWith(r, j, label) ==
    /\ j \in Issued
    /\ Take(r, owner[j], j, label)
    /\ contended' = IF \E q \in Requests : pc[q] \in Presenting /\ tok[q] = j
                    THEN contended \cup {j} ELSE contended

(***************************************************************************)
(* Login: POST /api/auth/login and POST /login.  One SELECT decides (right *)
(* password, is_active); one commit inserts the row with a fresh jti.      *)
(***************************************************************************)
LoginReadAnyUser(r) ==
    /\ pc[r] = "login"
    /\ \E label \in {"issue", "refused"} : Goto(r, label)
    /\ UNCHANGED <<table, history>>

LoginRead(r) ==
    /\ pc[r] = "login"
    /\ \/ active[usr[r]] /\ Goto(r, "issue")
       \/ Goto(r, "refused")      \* wrong password, or disabled
    /\ UNCHANGED <<table, history>>

IssueSession(r, j) ==
    /\ pc[r] = "issue"
    /\ owner[j] = None
    /\ owner' = [owner EXCEPT ![j] = usr[r]]
    /\ Goto(r, "loggedIn")
    /\ UNCHANGED <<active, revoked, expired, history>>

(***************************************************************************)
(* POST /api/auth/refresh: SELECT the token, SELECT the user, then one     *)
(* commit that revokes the presented row and inserts its successor.        *)
(***************************************************************************)
RefreshReadExpiryOnly(r) ==
    /\ pc[r] = "refresh"
    /\ Goto(r, IF tok[r] \in expired THEN "refused" ELSE "refreshUser")
    /\ UNCHANGED <<table, history>>

RefreshRead(r) ==
    /\ pc[r] = "refresh"
    /\ Goto(r, IF Live(tok[r]) THEN "refreshUser" ELSE "refused")
    /\ UNCHANGED <<table, history>>

RefreshReadUser(r) ==
    /\ pc[r] = "refreshUser"
    /\ Goto(r, IF active[usr[r]] THEN "refreshCommit" ELSE "refused")
    /\ UNCHANGED <<table, history>>

RefreshCommit(r, j) ==
    /\ pc[r] = "refreshCommit"
    /\ owner[j] = None
    /\ owner' = [owner EXCEPT ![j] = usr[r]]
    /\ revoked' = revoked \cup {tok[r]}
    /\ parent' = [parent EXCEPT ![j] = tok[r]]
    /\ Goto(r, "refreshed")
    /\ UNCHANGED <<active, expired, contended, everActive>>

(***************************************************************************)
(* Logout: POST /api/auth/logout, /logout and /admin/logout.  An expired   *)
(* JWT does not decode, and the logout is then a no-op that succeeds.      *)
(***************************************************************************)
LogoutRead(r) ==
    /\ pc[r] = "logout"
    /\ Goto(r, IF tok[r] \in expired THEN "loggedOut" ELSE "logoutCommit")
    /\ UNCHANGED <<table, history>>

LogoutCommitUnsaved(r) ==
    /\ pc[r] = "logoutCommit"
    /\ Goto(r, "loggedOut")
    /\ UNCHANGED <<table, history>>

LogoutCommit(r) ==
    /\ pc[r] = "logoutCommit"
    /\ revoked' = revoked \cup {tok[r]}
    /\ Goto(r, "loggedOut")
    /\ UNCHANGED <<active, owner, expired, history>>

(***************************************************************************)
(* A statement or a commit raises, or the client goes away: the database   *)
(* session is rolled back and the request ends.  The JSON logout swallows  *)
(* the error and answers ok all the same.                                  *)
(***************************************************************************)
Abort(r) ==
    /\ \/ pc[r] \in Working /\ Goto(r, "failed")
       \/ pc[r] \in {"logout", "logoutCommit"} /\ Goto(r, "swallowed")
    /\ UNCHANGED <<table, history>>

\* The response has been sent: the slot is free.
Done(r) ==
    /\ pc[r] \in Settled
    /\ pc' = [pc EXCEPT ![r] = "idle"]
    /\ usr' = [usr EXCEPT ![r] = None]
    /\ tok' = [tok EXCEPT ![r] = None]
    /\ everActive' = [everActive EXCEPT ![r] = FALSE]
    /\ UNCHANGED <<table, parent, contended>>

(***************************************************************************)
(* The rest of the platform: a commit of users.is_active by an             *)
(* administrator's request (Accounts), and the passing of time.            *)
(***************************************************************************)
SetActive(u) ==
    /\ active' = [active EXCEPT ![u] = ~@]
    /\ everActive' = [r \in Requests |-> everActive[r] \/ (usr[r] = u /\ active'[u])]
    /\ UNCHANGED <<owner, revoked, expired, pc, usr, tok, parent, contended>>

Expire(j) ==
    /\ j \in Issued \ expired
    /\ expired' = expired \cup {j}
    /\ UNCHANGED <<active, owner, revoked, pc, usr, tok, history>>

Arrive(r) ==
    \/ \E u \in Users : ArriveLogin(r, u) \/ ArriveRegistered(r, u)
    \/ \E j \in Jtis, label \in {"refresh", "logout"} : ArriveWith(r, j, label)

Step(r) ==
    \/ LoginRead(r)
    \/ \E j \in Jtis : IssueSession(r, j)
    \/ RefreshRead(r)
    \/ RefreshReadUser(r)
    \/ \E j \in Jtis : RefreshCommit(r, j)
    \/ LogoutRead(r)
    \/ LogoutCommit(r)
    \/ Abort(r)
    \/ Done(r)

Environment ==
    \/ \E u \in Users : SetActive(u)
    \/ \E j \in Jtis : Expire(j)

Next ==
    \/ \E r \in Requests : Arrive(r) \/ Step(r)
    \/ Environment

Spec == Init /\ [][Next]_vars

-----------------------------------------------------------------------------
(***************************************************************************)
(* Properties                                                              *)
(***************************************************************************)

\* Rotation is atomic: a successor exists only if the token it was rotated
\* from is revoked (refresh_token).
SuccessorSpendsParent ==
    \A j \in Jtis : parent[j] # None => parent[j] \in revoked

\* A refresh token buys at most one successor, unless two requests presented
\* it at overlapping times: refresh_token checks `revoked' and sets it with
\* two awaits in between and no lock, so overlapping requests may both
\* succeed, and that overlap is the only way to fork a session.
OneSuccessor ==
    \A j \in Jtis : j \notin contended => Cardinality(Successors(j)) <= 1

\* A session is issued or rotated only for a user that was active at some
\* moment between the request's arrival and its answer (login, issue_session
\* and refresh_token read is_active one or two awaits before they commit).
OnlyActiveUsers ==
    \A r \in Requests : pc[r] \in {"loggedIn", "refreshed"} => everActive[r]

\* A logout that answered without swallowing an error has put its token out
\* of use, and a token that is revoked buys no successor any more, unless two
\* requests presented it at overlapping times.  So a session outlives its
\* logout only by a refresh whose request overlapped that logout or another
\* refresh (logout, revoke_refresh_cookie, refresh_token).
LogoutEnds ==
    [][ /\ \A r \in Requests : pc'[r] = "loggedOut" => ~Live(tok[r])'
        /\ \A j \in revoked \ contended : Successors(j)' = Successors(j) ]_vars
=============================================================================

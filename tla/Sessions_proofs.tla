--------------------------- MODULE Sessions_proofs ---------------------------
(***************************************************************************)
(* Proofs about Sessions, for any users, tokens and number of requests.    *)
(***************************************************************************)
EXTENDS Sessions, FiniteSetTheorems, TLAPS

(***************************************************************************)
(* The inductive invariant.  OneSuccessor rests on who may still rotate a  *)
(* token: two requests that hold the same token have marked it contended   *)
(* (Marked), so as long as a token is not contended nobody else can revoke *)
(* it between the SELECT and the COMMIT of the one request that rotates it *)
(* (Unspent), and a token that is not revoked has no successor yet         *)
(* (SuccessorSpendsParent).                                                *)
(***************************************************************************)
Marked ==
    \A r, q \in Requests :
        r # q /\ pc[r] \in Presenting /\ pc[q] \in Presenting /\ tok[r] = tok[q]
            => tok[r] \in contended

Unspent ==
    \A r \in Requests :
        pc[r] \in Rotating /\ tok[r] \notin contended => tok[r] \notin revoked

Unforked ==
    \A j \in Jtis \ contended :
        \A s, t \in Jtis : parent[s] = j /\ parent[t] = j => s = t

BornWithParent == \A j \in Jtis : owner[j] = None => parent[j] = None

Witnessed ==
    \A r \in Requests :
        /\ pc[r] \in Working /\ active[usr[r]] => everActive[r]
        /\ pc[r] \in {"issue", "refreshCommit", "loggedIn", "refreshed"} => everActive[r]

Ended ==
    \A r \in Requests : pc[r] = "loggedOut" => tok[r] \in revoked \cup expired

Inv ==
    /\ TypeOK
    /\ SuccessorSpendsParent
    /\ Marked
    /\ Unspent
    /\ Unforked
    /\ BornWithParent
    /\ Witnessed
    /\ Ended

-----------------------------------------------------------------------------
(***************************************************************************)
(* The steps                                                               *)
(***************************************************************************)

LEMMA InitInv == Init => Inv
  BY NoneAssumption
  DEF Init, Inv, TypeOK, SuccessorSpendsParent, Marked, Unspent, Unforked,
      BornWithParent, Witnessed, Ended, Issued, Working, Presenting, Rotating,
      Settled

\* A request that only moves on keeps the invariant if the label it moves to
\* is justified: it may start rotating only an unrevoked token, may commit
\* only for a user it has seen active, and may report a logout only when the
\* token is of no use.
LEMMA MoveInv ==
    ASSUME Inv, NEW r \in Requests, pc[r] \in Working,
           NEW label \in Working \cup Settled,
           Goto(r, label), UNCHANGED <<table, history>>,
           label \in Presenting => pc[r] \in Presenting,
           label \in Rotating /\ tok[r] \notin contended => tok[r] \notin revoked,
           label \in {"issue", "refreshCommit", "loggedIn", "refreshed"}
               => everActive[r],
           label = "loggedOut" => tok[r] \in revoked \cup expired
    PROVE  Inv'
<1> USE DEF Inv, Goto, table, history
<1>1. TypeOK'
  BY DEF TypeOK, Issued, Working, Presenting, Rotating, Settled
<1>2. Marked'
  BY DEF TypeOK, Marked
<1>3. Unspent'
  BY DEF TypeOK, Unspent
<1>4. (SuccessorSpendsParent /\ Unforked /\ BornWithParent)'
  BY DEF SuccessorSpendsParent, Unforked, BornWithParent
<1>5. Witnessed'
  BY DEF TypeOK, Witnessed
<1>6. Ended'
  BY DEF TypeOK, Ended
<1>7. QED
  BY <1>1, <1>2, <1>3, <1>4, <1>5, <1>6

\* An arrival leaves the tables alone, and marks the token it presents if
\* another request is presenting it.
LEMMA ArriveInv ==
    ASSUME Inv, NEW r \in Requests, Arrive(r)
    PROVE  Inv'
<1> USE DEF Inv, Take, table
<1>1. ASSUME NEW u \in Users, ArriveLogin(r, u)
      PROVE  Inv'
  BY <1>1, NoneAssumption
  DEF ArriveLogin, TypeOK, SuccessorSpendsParent, Marked, Unspent, Unforked,
      BornWithParent, Witnessed, Ended, Issued, Working, Presenting, Rotating,
      Settled
<1>2. ASSUME NEW u \in Users, ArriveRegistered(r, u)
      PROVE  Inv'
  BY <1>2, NoneAssumption
  DEF ArriveRegistered, TypeOK, SuccessorSpendsParent, Marked, Unspent, Unforked,
      BornWithParent, Witnessed, Ended, Issued, Working, Presenting, Rotating,
      Settled
<1>3. ASSUME NEW j \in Jtis, NEW label \in {"refresh", "logout"},
             ArriveWith(r, j, label)
      PROVE  Inv'
  <2> USE DEF ArriveWith
  <2>1. TypeOK'
    BY <1>3, NoneAssumption
    DEF TypeOK, Issued, Working, Presenting, Rotating, Settled
  <2>2. Marked'
    BY <1>3 DEF TypeOK, Marked, Presenting, Rotating
  <2>3. Unspent'
    BY <1>3 DEF TypeOK, Unspent, Rotating
  <2>4. (SuccessorSpendsParent /\ Unforked /\ BornWithParent)'
    BY <1>3 DEF SuccessorSpendsParent, Unforked, BornWithParent
  <2>5. Witnessed'
    BY <1>3 DEF TypeOK, Witnessed
  <2>6. Ended'
    BY <1>3 DEF TypeOK, Ended
  <2>7. QED
    BY <2>1, <2>2, <2>3, <2>4, <2>5, <2>6
<1>4. QED
  BY <1>1, <1>2, <1>3 DEF Arrive

\* The two commits that insert a row: a login's, which rotates nothing, and
\* a refresh's, which spends the token it presented.
LEMMA IssueInv ==
    ASSUME Inv, NEW r \in Requests, NEW j \in Jtis, IssueSession(r, j)
    PROVE  Inv'
<1> USE DEF Inv, Goto, history, IssueSession
<1>0. pc[r] = "issue" /\ usr[r] \in Users /\ everActive[r] /\ Issued \subseteq Issued'
  BY NoneAssumption DEF TypeOK, Witnessed, Issued, Working
<1>1. TypeOK'
  BY <1>0, NoneAssumption DEF TypeOK, Issued, Working, Presenting, Rotating, Settled
<1>2. (Marked /\ Unspent)'
  BY <1>0 DEF TypeOK, Marked, Unspent, Presenting, Rotating
<1>3. (SuccessorSpendsParent /\ Unforked /\ BornWithParent)'
  BY <1>0, NoneAssumption DEF TypeOK, SuccessorSpendsParent, Unforked, BornWithParent
<1>4. (Witnessed /\ Ended)'
  BY <1>0 DEF TypeOK, Witnessed, Ended, Working, Presenting, Rotating
<1>5. QED
  BY <1>1, <1>2, <1>3, <1>4

LEMMA RefreshInv ==
    ASSUME Inv, NEW r \in Requests, NEW j \in Jtis, RefreshCommit(r, j)
    PROVE  Inv'
<1> USE DEF Inv, Goto, history, RefreshCommit
<1>0. /\ pc[r] = "refreshCommit" /\ usr[r] \in Users /\ everActive[r]
      /\ tok[r] \in Issued /\ tok[r] # j /\ parent[j] = None
      /\ Issued \subseteq Issued'
  BY NoneAssumption
  DEF TypeOK, Witnessed, BornWithParent, Issued, Working, Presenting, Rotating
<1>1. TypeOK'
  BY <1>0, NoneAssumption DEF TypeOK, Issued, Working, Presenting, Rotating, Settled
<1>2. Marked'
  BY <1>0 DEF TypeOK, Marked, Presenting, Rotating
\* Another request that is rotating the same token shares it with r.
<1>3. Unspent'
  BY <1>0 DEF TypeOK, Marked, Unspent, Presenting, Rotating
<1>4. (SuccessorSpendsParent /\ BornWithParent)'
  BY <1>0, NoneAssumption DEF TypeOK, SuccessorSpendsParent, BornWithParent, Issued
\* The presented token, if not contended, is unrevoked and so has no
\* successor before this step.
<1>5. Unforked'
  <2>1. tok[r] \notin contended => \A s \in Jtis : parent[s] # tok[r]
    BY <1>0, NoneAssumption DEF Unspent, Rotating, SuccessorSpendsParent, Issued
  <2>2. QED
    BY <1>0, <2>1, NoneAssumption DEF TypeOK, Unforked, Issued
<1>6. (Witnessed /\ Ended)'
  BY <1>0 DEF TypeOK, Witnessed, Ended, Working, Presenting, Rotating
<1>7. QED
  BY <1>1, <1>2, <1>3, <1>4, <1>5, <1>6

LEMMA LogoutInv ==
    ASSUME Inv, NEW r \in Requests, LogoutCommit(r)
    PROVE  Inv'
<1> USE DEF Inv, Goto, history, LogoutCommit
<1>0. pc[r] = "logoutCommit" /\ tok[r] \in Issued
  BY DEF TypeOK, Working, Presenting
<1>1. TypeOK'
  BY <1>0 DEF TypeOK, Issued, Working, Presenting, Rotating, Settled
<1>2. (Marked /\ Unspent)'
  BY <1>0 DEF TypeOK, Marked, Unspent, Presenting, Rotating
<1>3. (SuccessorSpendsParent /\ Unforked /\ BornWithParent)'
  BY DEF SuccessorSpendsParent, Unforked, BornWithParent
<1>4. (Witnessed /\ Ended)'
  BY <1>0 DEF TypeOK, Witnessed, Ended, Working, Presenting, Rotating
<1>5. QED
  BY <1>1, <1>2, <1>3, <1>4

LEMMA DoneInv ==
    ASSUME Inv, NEW r \in Requests, Done(r)
    PROVE  Inv'
  BY NoneAssumption
  DEF Inv, Done, table, TypeOK, SuccessorSpendsParent, Marked, Unspent, Unforked,
      BornWithParent, Witnessed, Ended, Issued, Working, Presenting, Rotating,
      Settled

LEMMA EnvironmentInv ==
    ASSUME Inv, Environment
    PROVE  Inv'
<1> USE DEF Inv, table, history
<1>1. ASSUME NEW u \in Users, SetActive(u)
      PROVE  Inv'
  <2> USE DEF SetActive
  <2>1. TypeOK'
    BY <1>1 DEF TypeOK, Issued
  <2>2. (Marked /\ Unspent /\ Ended)'
    BY <1>1 DEF Marked, Unspent, Ended
  <2>3. (SuccessorSpendsParent /\ Unforked /\ BornWithParent)'
    BY <1>1 DEF SuccessorSpendsParent, Unforked, BornWithParent
  <2>4. Witnessed'
    BY <1>1 DEF TypeOK, Witnessed
  <2>5. QED
    BY <2>1, <2>2, <2>3, <2>4
<1>2. ASSUME NEW j \in Jtis, Expire(j)
      PROVE  Inv'
  BY <1>2 DEF Expire, TypeOK, SuccessorSpendsParent, Marked, Unspent, Unforked,
              BornWithParent, Witnessed, Ended, Issued
<1>3. QED
  BY <1>1, <1>2 DEF Environment

\* What each remaining step of a request relies on: RefreshRead moves on only
\* with a live token, RefreshReadUser and LoginRead only with an active user.
LEMMA StepInv ==
    ASSUME Inv, NEW r \in Requests, Step(r)
    PROVE  Inv'
<1>1. CASE LoginRead(r)
  BY <1>1, MoveInv
  DEF LoginRead, Inv, Witnessed, Working, Presenting, Rotating, Settled
<1>2. CASE RefreshRead(r)
  BY <1>2, MoveInv
  DEF RefreshRead, Live, Working, Presenting, Rotating, Settled
<1>3. CASE RefreshReadUser(r)
  BY <1>3, MoveInv
  DEF RefreshReadUser, Inv, Witnessed, Unspent, Working, Presenting, Rotating, Settled
<1>4. CASE LogoutRead(r)
  BY <1>4, MoveInv
  DEF LogoutRead, Working, Presenting, Rotating, Settled
<1>5. CASE Abort(r)
  BY <1>5, MoveInv
  DEF Abort, Working, Presenting, Rotating, Settled
<1>6. QED
  BY <1>1, <1>2, <1>3, <1>4, <1>5, IssueInv, RefreshInv, LogoutInv, DoneInv DEF Step

LEMMA NextInv == Inv /\ [Next]_vars => Inv'
<1>1. Inv /\ Next => Inv'
  BY ArriveInv, StepInv, EnvironmentInv DEF Next
<1>2. Inv /\ UNCHANGED vars => Inv'
  BY DEF vars, table, history, Inv, TypeOK, SuccessorSpendsParent, Marked, Unspent,
         Unforked, BornWithParent, Witnessed, Ended, Issued
<1>3. QED
  BY <1>1, <1>2

-----------------------------------------------------------------------------
(***************************************************************************)
(* The theorems                                                            *)
(***************************************************************************)

\* The inductive invariant holds in every behaviour of the sessions handlers.
THEOREM InvHolds == Spec => []Inv
  BY InitInv, NextInv, PTL DEF Spec

\* The state of the tables and requests is always well formed; in particular a
\* request in flight never loses the row of the token it presented.
THEOREM TypeCorrect == Spec => []TypeOK
<1>1. Inv => TypeOK
  BY DEF Inv
<1>2. QED
  BY <1>1, InvHolds, PTL

\* No token has a successor while it is itself unrevoked (refresh_token).
THEOREM RotationSpends == Spec => []SuccessorSpendsParent
<1>1. Inv => SuccessorSpendsParent
  BY DEF Inv
<1>2. QED
  BY <1>1, InvHolds, PTL

\* A token that was never presented by two overlapping requests has at most
\* one successor, for any number of concurrent requests (refresh_token).
THEOREM RotationIsLinear == Spec => []OneSuccessor
<1>1. Inv => OneSuccessor
  <2> SUFFICES ASSUME Inv, NEW j \in Jtis, j \notin contended
               PROVE  Cardinality(Successors(j)) <= 1
    BY DEF OneSuccessor
  <2>1. CASE Successors(j) = {}
    BY <2>1, FS_EmptySet
  <2>2. CASE Successors(j) # {}
    <3>1. PICK s \in Successors(j) : TRUE
      BY <2>2
    <3>2. Successors(j) = {s}
      BY <3>1 DEF Successors, Inv, Unforked
    <3>3. QED
      BY <3>2, FS_Singleton
  <2>3. QED
    BY <2>1, <2>2
<1>2. QED
  BY <1>1, InvHolds, PTL

\* Nobody gets a session who was inactive throughout the request (login,
\* issue_session, refresh_token).
THEOREM SessionsNeedActiveUsers == Spec => []OnlyActiveUsers
<1>1. Inv => OnlyActiveUsers
  BY DEF Inv, Witnessed, OnlyActiveUsers
<1>2. QED
  BY <1>1, InvHolds, PTL

\* A logout that reports success has ended its token, and a revoked token buys
\* nothing unless requests that presented it overlapped (logout,
\* revoke_refresh_cookie, refresh_token).
THEOREM LogoutIsFinal == Spec => LogoutEnds
<1> DEFINE Kept == \A j \in revoked \ contended : Successors(j)' = Successors(j)
<1>1. Inv' => \A r \in Requests : pc'[r] = "loggedOut" => ~Live(tok[r])'
  BY DEF Inv, Ended, Live
<1>2. Inv /\ Next => Kept
  <2> SUFFICES ASSUME Inv, Next, NEW j \in revoked \ contended
               PROVE  Successors(j)' = Successors(j)
    OBVIOUS
  <2>1. ASSUME NEW r \in Requests, NEW k \in Jtis, RefreshCommit(r, k)
        PROVE  Successors(j)' = Successors(j)
    <3>1. tok[r] # j /\ j \in Jtis
      BY <2>1 DEF RefreshCommit, Rotating, Inv, Unspent, TypeOK, Issued
    <3>2. parent[k] = None /\ parent' = [parent EXCEPT ![k] = tok[r]]
      BY <2>1 DEF RefreshCommit, Inv, BornWithParent
    <3>3. QED
      BY <3>1, <3>2, NoneAssumption DEF Successors, Inv, TypeOK
  <2>2. CASE UNCHANGED parent
    BY <2>2 DEF Successors
  <2>3. (\E r \in Requests, k \in Jtis : RefreshCommit(r, k)) \/ UNCHANGED parent
    BY DEF Next, Arrive, ArriveLogin, ArriveRegistered, ArriveWith, Take, Step, Environment,
           LoginRead, IssueSession, RefreshRead, RefreshReadUser, LogoutRead, LogoutCommit,
           Abort, Done, SetActive, Expire, history
  <2>4. QED
    BY <2>1, <2>2, <2>3
<1>3. Inv /\ Inv' /\ [Next]_vars =>
         [ /\ \A r \in Requests : pc'[r] = "loggedOut" => ~Live(tok[r])'
           /\ \A j \in revoked \ contended : Successors(j)' = Successors(j) ]_vars
  BY <1>1, <1>2
<1>4. QED
  BY <1>3, InvHolds, PTL DEF Spec, LogoutEnds

-----------------------------------------------------------------------------
(***************************************************************************)
(* What one login buys.  A session is a login's token with all the tokens  *)
(* rotated from it: a map that takes each token to the one its session     *)
(* began with (Begins) tells the sessions apart.  One step of rotation     *)
(* says little of a whole session; that it never has two unspent tokens    *)
(* needs the history of all its rotations, in the form of an invariant     *)
(* over every such map.                                                    *)
(***************************************************************************)
Begins(f) == \A j \in Jtis : f[j] = IF parent[j] = None THEN j ELSE f[parent[j]]

\* No token of j's session was presented by two overlapping requests.
Orderly(f, j) == \A i \in contended : f[i] # f[j]

Unspents == Issued \ revoked

SessionsBegin ==
    /\ \E f \in [Jtis -> Jtis] : Begins(f)
    /\ \A f \in [Jtis -> Jtis] : Begins(f) => \A j \in Issued : f[j] \in Issued

OneUnspentPerSession ==
    \A f \in [Jtis -> Jtis] : Begins(f) =>
        \A s, t \in Unspents : f[s] = f[t] /\ Orderly(f, s) => s = t

Lineage == SessionsBegin /\ OneUnspentPerSession

\* Where no row is inserted, sessions stay what they are and can only lose
\* unspent tokens and good order.
LEMMA NoRowLineage ==
    ASSUME Inv, Lineage,
           UNCHANGED <<owner, parent>>, revoked \subseteq revoked', contended \subseteq contended'
    PROVE  Lineage'
<1>1. Issued' = Issued /\ Unspents' \subseteq Unspents
  BY DEF Issued, Unspents
<1>2. \A f : Begins(f)' = Begins(f)
  BY DEF Begins
<1>3. \A f, j : Orderly(f, j)' => Orderly(f, j)
  BY DEF Orderly
<1>4. SessionsBegin'
  BY <1>1, <1>2 DEF Lineage, SessionsBegin
<1>5. OneUnspentPerSession'
  BY <1>1, <1>2, <1>3 DEF Lineage, OneUnspentPerSession
<1>6. QED
  BY <1>4, <1>5 DEF Lineage

\* A login begins a session of its own.
LEMMA IssueLineage ==
    ASSUME Inv, Lineage, NEW r \in Requests, NEW j \in Jtis, IssueSession(r, j)
    PROVE  Lineage'
<1>1. parent[j] = None /\ j \notin Issued /\ usr[r] \in Users
  BY DEF IssueSession, Inv, TypeOK, BornWithParent, Issued, Working
<1>2. Issued' = Issued \cup {j} /\ Unspents' \subseteq Unspents \cup {j}
  BY <1>1, NoneAssumption DEF IssueSession, Inv, TypeOK, Issued, Unspents
<1>3. UNCHANGED <<parent, contended>>
  BY DEF IssueSession, history
<1>4. \A f : Begins(f)' = Begins(f)
  BY <1>3 DEF Begins
<1>5. \A f \in [Jtis -> Jtis] : Begins(f) => f[j] = j
  BY <1>1 DEF Begins
<1>6. SessionsBegin'
  BY <1>2, <1>4, <1>5 DEF Lineage, SessionsBegin
<1>7. OneUnspentPerSession'
  <2> SUFFICES ASSUME NEW f \in [Jtis -> Jtis], Begins(f),
                      NEW s \in Unspents \cup {j}, NEW t \in Unspents \cup {j},
                      f[s] = f[t], Orderly(f, s)
               PROVE  s = t
    BY <1>2, <1>3, <1>4 DEF OneUnspentPerSession, Orderly
  <2>1. \A i \in Unspents : f[i] # j
    BY <1>1 DEF Lineage, SessionsBegin, Unspents
  <2>2. QED
    BY <1>5, <2>1 DEF Lineage, OneUnspentPerSession
<1>8. QED
  BY <1>6, <1>7 DEF Lineage

\* A rotation replaces the one unspent token of its session by another.
LEMMA RefreshLineage ==
    ASSUME Inv, Lineage, NEW r \in Requests, NEW j \in Jtis, RefreshCommit(r, j)
    PROVE  Lineage'
<1> DEFINE k == tok[r]
<1>1. parent[j] = None /\ j \notin Issued /\ usr[r] \in Users /\ k \in Issued /\ k # j
  BY DEF RefreshCommit, Inv, TypeOK, BornWithParent, Issued, Working, Presenting, Rotating
<1>2. /\ Issued' = Issued \cup {j}
      /\ Unspents' \subseteq (Unspents \ {k}) \cup {j}
      /\ contended' = contended /\ j \notin contended
  BY <1>1, NoneAssumption DEF RefreshCommit, Inv, TypeOK, Issued, Unspents
<1>3. /\ parent \in [Jtis -> Jtis \cup {None}] /\ parent' = [parent EXCEPT ![j] = k]
      /\ \A i \in Jtis : parent[i] # j
  BY <1>1, NoneAssumption DEF RefreshCommit, Inv, TypeOK, SuccessorSpendsParent, Issued
\* Before the step j was alone in its session.
<1>4. ASSUME NEW f \in [Jtis -> Jtis], Begins(f)'
      PROVE  /\ [f EXCEPT ![j] = j] \in [Jtis -> Jtis]
             /\ Begins([f EXCEPT ![j] = j])
             /\ f[j] = f[k]
  BY <1>1, <1>3, <1>4, NoneAssumption DEF Begins, Issued
<1>5. ASSUME NEW f \in [Jtis -> Jtis], Begins(f),
             NEW g \in [Jtis -> Jtis], g = [f EXCEPT ![j] = f[k]]
      PROVE  Begins(g)'
  BY <1>1, <1>3, <1>5, NoneAssumption DEF Begins, Issued
<1>6. SessionsBegin'
  <2>1. \E f \in [Jtis -> Jtis] : Begins(f)'
    <3>1. PICK f \in [Jtis -> Jtis] : Begins(f)
      BY DEF Lineage, SessionsBegin
    <3>2. PICK g \in [Jtis -> Jtis] : g = [f EXCEPT ![j] = f[k]]
      BY <1>1 DEF Issued
    <3>3. QED
      BY <1>5, <3>1, <3>2
  <2>2. ASSUME NEW f \in [Jtis -> Jtis], Begins(f)', NEW i \in Issued'
        PROVE  f[i] \in Issued'
    <3> DEFINE g == [f EXCEPT ![j] = j]
    <3>1. \A h \in Issued : g[h] \in Issued
      BY <1>4, <2>2 DEF Lineage, SessionsBegin
    <3>2. \A h \in Issued : f[h] = g[h]
      BY <1>1 DEF Issued
    <3>3. QED
      BY <1>1, <1>2, <1>4, <2>2, <3>1, <3>2
  <2>3. QED
    BY <2>1, <2>2 DEF SessionsBegin
<1>7. OneUnspentPerSession'
  <2> SUFFICES ASSUME NEW f \in [Jtis -> Jtis], Begins(f)',
                      NEW s \in (Unspents \ {k}) \cup {j}, NEW t \in (Unspents \ {k}) \cup {j},
                      f[s] = f[t], Orderly(f, s)
               PROVE  s = t
    BY <1>2 DEF OneUnspentPerSession, Orderly
  <2> DEFINE g == [f EXCEPT ![j] = j]
  <2>1. g \in [Jtis -> Jtis] /\ Begins(g) /\ f[j] = f[k]
    BY <1>4
  <2>2. \A h \in Issued : h \in Jtis /\ h # j /\ g[h] = f[h]
    BY <1>1 DEF Issued
  <2>3. contended \subseteq Issued
    BY DEF Inv, TypeOK
  <2>4. \A h \in Issued : Orderly(f, h) => Orderly(g, h)
    BY <2>2, <2>3 DEF Orderly
  <2>5. \A h, i \in Unspents : f[h] = f[i] /\ Orderly(f, h) => h = i
    BY <2>1, <2>2, <2>4 DEF Lineage, OneUnspentPerSession, Unspents
  <2>6. Orderly(f, k) => k \in Unspents
    <3>1. k \notin contended => k \notin revoked
      BY DEF Inv, Unspent, RefreshCommit, Rotating
    <3>2. Orderly(f, k) => k \notin contended
      BY DEF Orderly
    <3>3. QED
      BY <1>1, <3>1, <3>2 DEF Unspents
  <2>7. f[s] = f[k] /\ Orderly(f, s) => Orderly(f, k)
    BY DEF Orderly
  <2>8. QED
    BY <2>1, <2>5, <2>6, <2>7
<1>8. QED
  BY <1>6, <1>7 DEF Lineage

\* A session whose tokens were never presented by two overlapping requests
\* has at most one unspent token, however often it was rotated (issue_session,
\* refresh_token).
THEOREM SessionsAreSingle == Spec => []Lineage
<1>1. Init => Lineage
  <2> SUFFICES ASSUME Init PROVE Lineage
    OBVIOUS
  <2>1. Issued = {}
    BY DEF Init, Issued
  <2>2. [j \in Jtis |-> j] \in [Jtis -> Jtis] /\ Begins([j \in Jtis |-> j])
    BY DEF Init, Begins
  <2>3. QED
    BY <2>1, <2>2 DEF Lineage, SessionsBegin, OneUnspentPerSession, Unspents
<1>2. Inv /\ Lineage /\ [Next]_vars => Lineage'
  <2> SUFFICES ASSUME Inv, Lineage, [Next]_vars PROVE Lineage'
    OBVIOUS
  <2>1. ASSUME NEW r \in Requests, NEW j \in Jtis, IssueSession(r, j) \/ RefreshCommit(r, j)
        PROVE  Lineage'
    BY <2>1, IssueLineage, RefreshLineage
  <2>2. ASSUME NEW r \in Requests, Arrive(r)
        PROVE  Lineage'
    <3>1. UNCHANGED <<owner, revoked, parent>> /\ contended \subseteq contended'
      BY <2>2 DEF Arrive, ArriveLogin, ArriveRegistered, ArriveWith, Take, table
    <3>2. QED
      BY <3>1, NoRowLineage
  <2>3. ASSUME NEW r \in Requests,
               \/ LoginRead(r) \/ RefreshRead(r) \/ RefreshReadUser(r) \/ LogoutRead(r)
               \/ LogoutCommit(r) \/ Abort(r) \/ Done(r)
        PROVE  Lineage'
    <3>1. UNCHANGED <<owner, parent, contended>> /\ revoked \subseteq revoked'
      BY <2>3
      DEF LoginRead, RefreshRead, RefreshReadUser, LogoutRead, LogoutCommit, Abort, Done,
          table, history
    <3>2. QED
      BY <3>1, NoRowLineage
  <2>4. CASE Environment \/ UNCHANGED vars
    <3>1. UNCHANGED <<owner, revoked, parent, contended>>
      BY <2>4 DEF Environment, SetActive, Expire, vars, table, history
    <3>2. QED
      BY <3>1, NoRowLineage
  <2>5. QED
    BY <2>1, <2>2, <2>3, <2>4 DEF Next, Step
<1>3. QED
  BY <1>1, <1>2, InvHolds, PTL DEF Spec
=============================================================================

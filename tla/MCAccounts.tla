------------------------------ MODULE MCAccounts ------------------------------
(***************************************************************************)
(* Accounts on a small instance: the administrator and one more email.     *)
(***************************************************************************)
EXTENDS Accounts, TLC

CONSTANTS adm, usr, p1, p2, l1

Blank == [kind |-> "register", by |-> None, email |-> None, link |-> None,
          role |-> None, active |-> None, pw |-> None, cur |-> None]

Registrations ==
    {[Blank EXCEPT !.email = usr, !.pw = p1],
     [Blank EXCEPT !.kind = "create", !.by = adm, !.email = usr, !.role = "admin", !.pw = p1],
     [Blank EXCEPT !.kind = "form", !.by = adm, !.email = usr, !.role = "other", !.pw = p1]}

Toggles ==
    {[Blank EXCEPT !.kind = "toggle", !.by = adm, !.email = usr],
     [Blank EXCEPT !.kind = "toggle", !.by = usr, !.email = adm],
     [Blank EXCEPT !.kind = "toggle", !.by = usr, !.email = usr]}

Patches ==
    {[Blank EXCEPT !.kind = "patch", !.by = adm, !.email = usr, !.role = "user",
      !.active = FALSE],
     [Blank EXCEPT !.kind = "patch", !.by = usr, !.email = usr, !.active = TRUE, !.pw = p2]}

PasswordForms ==
    {[Blank EXCEPT !.kind = "change", !.by = usr, !.cur = p1, !.pw = p2],
     [Blank EXCEPT !.kind = "reset", !.link = l1, !.pw = p1]}

Symmetry == Permutations(Requests)

MCOperations == Registrations \cup Toggles \cup Patches \cup PasswordForms
=============================================================================

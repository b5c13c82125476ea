---------------------------- MODULE DocumentLife ----------------------------
(***************************************************************************)
(* The life of the documents of a collection, as GET                       *)
(* collections/{id}/documents shows it: a document appears as processing,  *)
(* is settled once, and once deleted is gone for good.                     *)
(***************************************************************************)
CONSTANT Docs

VARIABLE status

vars == <<status>>

Outcomes == {"indexed", "empty", "error"}

Init == status = [d \in Docs |-> "none"]

Appear(d) ==
    /\ status[d] = "none"
    /\ status' = [status EXCEPT ![d] = "processing"]

Settle(d) ==
    /\ status[d] = "processing"
    /\ \E outcome \in Outcomes : status' = [status EXCEPT ![d] = outcome]

Vanish(d) ==
    /\ status[d] \in Outcomes \cup {"processing"}
    /\ status' = [status EXCEPT ![d] = "gone"]

Next == \E d \in Docs : Appear(d) \/ Settle(d) \/ Vanish(d)

Spec == Init /\ [][Next]_vars
=============================================================================

------------------------------ MODULE ConnPool ------------------------------
(***************************************************************************)
(* The pool of database connections (engine and get_db of db/session.py).  *)
(*                                                                         *)
(* The session of a request takes a connection with its first statement,   *)
(* keeps it through calls of Ollama, Redis and Qdrant until it commits, is *)
(* rolled back or closed, and takes another for its next statement.  The   *)
(* health reports (admin_health, dashboard, health_page) take a second     *)
(* connection from the engine while their session still holds the first.   *)
(* Nobody orders these waits: only the pool's timeout breaks them up.      *)
(*                                                                         *)
(* The module has what a request does to the pool; Records adds what some  *)
(* requests do to the tables meanwhile.                                    *)
(***************************************************************************)
EXTENDS Integers, FiniteSets

CONSTANTS
    Requests,
    Reports,   \* those that ask for the health report
    Capacity   \* pool_size + max_overflow

ASSUME PoolAssumption ==
    /\ Reports \subseteq Requests
    /\ IsFiniteSet(Requests)
    /\ Capacity \in Nat \ {0}

VARIABLES
    free,   \* connections that the pool has idle or may still open
    held,   \* connections that a request has checked out
    pc,
    left    \* transactions a request has still to begin

poolVars == <<free, held, pc, left>>

PoolInit ==
    /\ free = Capacity
    /\ held = [q \in Requests |-> 0]
    /\ pc = [q \in Requests |-> "idle"]
    /\ left = [q \in Requests |-> 0]

Goto(q, label) == pc' = [pc EXCEPT ![q] = label]

CheckOut(q) ==
    /\ free > 0
    /\ free' = free - 1
    /\ held' = [held EXCEPT ![q] = @ + 1]

CheckIn(q, n) ==
    /\ free' = free + n
    /\ held' = [held EXCEPT ![q] = @ - n]

\* get_db: however the handler ends, its session is closed.
Close(q) ==
    /\ CheckIn(q, held[q])
    /\ Goto(q, "ended")
    /\ left' = [left EXCEPT ![q] = 0]

\* A request whose handler will begin up to n transactions.
Arrive(q, n) ==
    /\ pc[q] = "idle"
    /\ left' = [left EXCEPT ![q] = n]
    /\ Goto(q, "waiting")
    /\ UNCHANGED <<free, held>>

\* The first statement of a transaction.
Begin(q) ==
    /\ pc[q] = "waiting"
    /\ CheckOut(q)
    /\ left' = [left EXCEPT ![q] = @ - 1]
    /\ Goto(q, "working")

\* The pool's timeout passes: an error of the statement, hence of the request.
GiveUp(q) ==
    /\ pc[q] = "waiting"
    /\ free = 0
    /\ Close(q)

\* Commit, and go on with another transaction.
Commit(q) ==
    /\ pc[q] = "working"
    /\ left[q] > 0
    /\ CheckIn(q, 1)
    /\ Goto(q, "waiting")
    /\ UNCHANGED left

\* The handler returns or raises, committed or not.
Finish(q) ==
    /\ pc[q] \in {"working", "reporting"}
    /\ Close(q)

\* The user is known, the counts are read: now to the second connection.
Report(q) ==
    /\ pc[q] = "working"
    /\ q \in Reports
    /\ Goto(q, "probing")
    /\ UNCHANGED <<free, held, left>>

\* engine.connect() ...
Probe(q) ==
    /\ pc[q] = "probing"
    /\ CheckOut(q)
    /\ Goto(q, "probed")
    /\ UNCHANGED left

ProbePatiently(q) == pc[q] = "probing" /\ free = 0 /\ UNCHANGED poolVars

\* ... whose timeout is caught and reported as an error of the database.
ProbeGivesUp(q) ==
    /\ pc[q] = "probing"
    /\ free = 0
    /\ Goto(q, "reporting")
    /\ UNCHANGED <<free, held, left>>

ProbeDoneKeeping(q) ==
    /\ pc[q] = "probed"
    /\ held' = [held EXCEPT ![q] = @ - 1]
    /\ Goto(q, "reporting")
    /\ UNCHANGED <<free, left>>

ProbeDone(q) ==
    /\ pc[q] = "probed"
    /\ CheckIn(q, 1)
    /\ Goto(q, "reporting")
    /\ UNCHANGED left

\* What a health report does once its user is known.
Reporting(q) ==
    \/ Report(q)
    \/ Probe(q)
    \/ ProbeGivesUp(q)
    \/ ProbeDone(q)

-----------------------------------------------------------------------------
(***************************************************************************)
(* Properties                                                              *)
(***************************************************************************)

\* A request checks out one connection, or two: the first and the second.
CheckedOut == {c \in Requests \X {1, 2} : c[2] <= held[c[1]]}

\* No connection is lost or handed out twice: what the pool has and what the
\* requests hold is its capacity, and only a request that works holds any.
ConnectionsAccountedFor ==
    /\ free \in 0..Capacity
    /\ held \in [Requests -> 0..2]
    /\ pc \in [Requests -> {"idle", "waiting", "working", "probing", "probed", "reporting", "ended"}]
    /\ left \in [Requests -> Nat]
    /\ free + Cardinality(CheckedOut) = Capacity
    /\ \A q \in Requests : pc[q] \in {"idle", "waiting", "ended"} => held[q] = 0

\* Every request ends, although reports hold one connection while they wait
\* for another and may hold all of them.
RequestsEnd == \A q \in Requests : pc[q] = "waiting" ~> pc[q] = "ended"
=============================================================================

------------------------------ MODULE MCRecords ------------------------------
(* Records on a small instance: two connections for two health reports and *)
(* two requests that read, write and commit.                               *)
EXTENDS Records

CONSTANTS t1, t2, v1, v2

MCWanted == {
    [kind |-> "create", arg |-> None],
    [kind |-> "archive", arg |-> None],
    [kind |-> "message", arg |-> t1],
    [kind |-> "message", arg |-> t2],
    [kind |-> "reply", arg |-> t1],
    [kind |-> "put", arg |-> v1],
    [kind |-> "save", arg |-> v2]}
=============================================================================

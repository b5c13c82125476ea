----------------------------- MODULE MCAgentLoop -----------------------------
(* AgentLoop on small instances.                                           *)
EXTENDS AgentLoop

CONSTANTS t1, t2

TwoTools == <<t1, t2>>
OneTool == <<t1>>
=============================================================================

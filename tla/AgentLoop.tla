------------------------------ MODULE AgentLoop ------------------------------
(***************************************************************************)
(* agents/graph.py, run_agent: the LangGraph loop of a model and its       *)
(* permission-gated tools, and agents/__init__.py, AgentRuntime.           *)
(*                                                                         *)
(* A run alternates two graph nodes.  `agent' asks the model, which may    *)
(* answer with text and with any calls (of tools it was not offered, or    *)
(* that do not exist); `tools' performs the calls one after the other.     *)
(* Each SELECT of a permission and each tool is an await: administrators   *)
(* switch permissions between any two of them.                             *)
(*                                                                         *)
(* POST /api/agents/tools/invoke performs one call and no answer of a      *)
(* model: a run of the tools node alone.                                   *)
(***************************************************************************)
EXTENDS Naturals, Sequences, Functions

CONSTANTS
    Runs,           \* POST /run and /tools/invoke requests in flight
    Roles,
    Registry,       \* TOOL_REGISTRY: the tools' names, in its order
    Unknown,        \* a name the model made up
    MaxIterations,  \* the largest max_iterations a request may ask for
    MaxCalls,       \* calls in one answer of the model (a bound)
    RecursionLimit  \* supersteps LangGraph grants one ainvoke

Tools == Range(Registry)
Names == Tools \cup {Unknown}

ASSUME RegistryAssumption == Registry \in Seq(Tools) /\ Registry # <<>>
ASSUME UnknownAssumption == Unknown \notin Tools
ASSUME BoundAssumption ==
    MaxIterations \in Nat \ {0} /\ MaxCalls \in Nat /\ RecursionLimit \in Nat

VARIABLES
    enabled,    \* tool_permissions: enabled, by <<tool, role>>
    pc,         \* where a run is
    role,       \* the caller's role, read once with the user
    max,        \* max_iterations
    unlisted,   \* tools whose permission the run has not read yet
    offered,    \* the tools offered to the model
    iteration,
    supersteps, \* graph nodes executed
    pending,    \* calls the tools node has still to perform
    traces,     \* tool_traces, reduced to the tools' names
    text,       \* some answer of the model had content
    reply,      \* "content", "earlier", "note" or "empty"
    (***********************************************************************)
    (* History, read by no action.                                         *)
    (***********************************************************************)
    asked,      \* every call that reached the tools node, in order
    granted,    \* the head of `pending' was enabled since it became head
    raised      \* the model, the database or a tool raised

setup == <<role, max, unlisted, offered>>
loop == <<iteration, supersteps, pending, traces, text, reply>>
ghosts == <<asked, granted, raised>>
vars == <<enabled, pc, setup, loop, ghosts>>

Busy == {"listing", "agent", "enter", "tools", "running"}
Labels == Busy \cup {"idle", "ended", "failed"}
Replies == {"content", "earlier", "note", "empty"}

TypeOK ==
    /\ enabled \in [Tools \X Roles -> BOOLEAN]
    /\ pc \in [Runs -> Labels]
    /\ role \in [Runs -> Roles]
    /\ max \in [Runs -> 1..MaxIterations]
    /\ unlisted \in [Runs -> Seq(Tools)]
    /\ offered \in [Runs -> SUBSET Tools]
    /\ iteration \in [Runs -> 0..MaxIterations]
    /\ supersteps \in [Runs -> Nat]
    /\ pending \in [Runs -> Seq(Names)]
    /\ traces \in [Runs -> Seq(Names)]
    /\ text \in [Runs -> BOOLEAN]
    /\ reply \in [Runs -> Replies]
    /\ asked \in [Runs -> Seq(Names)]
    /\ granted \in [Runs -> BOOLEAN]
    /\ raised \in [Runs -> BOOLEAN]
    /\ \A a \in Runs :
        /\ pc[a] = "listing" => unlisted[a] # <<>>
        /\ pc[a] \in {"enter", "tools", "running"} => pending[a] # <<>>

Init ==
    /\ enabled \in [Tools \X Roles -> BOOLEAN]
    /\ pc = [a \in Runs |-> "idle"]
    /\ role \in [Runs -> Roles]
    /\ max \in [Runs -> 1..MaxIterations]
    /\ unlisted = [a \in Runs |-> Registry]
    /\ offered = [a \in Runs |-> {}]
    /\ iteration = [a \in Runs |-> 0]
    /\ supersteps = [a \in Runs |-> 0]
    /\ pending = [a \in Runs |-> <<>>]
    /\ traces = [a \in Runs |-> <<>>]
    /\ text = [a \in Runs |-> FALSE]
    /\ reply = [a \in Runs |-> "empty"]
    /\ asked = [a \in Runs |-> <<>>]
    /\ granted = [a \in Runs |-> FALSE]
    /\ raised = [a \in Runs |-> FALSE]

Goto(a, label) == pc' = [pc EXCEPT ![a] = label]
IsEnabled(t, a) == t \in Tools /\ enabled[<<t, role[a]>>]

(***************************************************************************)
(* The request is admitted; allowed_tool_names then reads one permission   *)
(* per tool, so that what is offered is no snapshot.                       *)
(***************************************************************************)
Start(a) ==
    /\ pc[a] = "idle"
    /\ Goto(a, "listing")
    /\ UNCHANGED <<enabled, setup, loop, ghosts>>

\* The caller's own call, of any name; its result is the response.
Invoke(a, n) ==
    /\ pc[a] = "idle"
    /\ Goto(a, "tools")
    /\ pending' = [pending EXCEPT ![a] = <<n>>]
    /\ asked' = [asked EXCEPT ![a] = <<n>>]
    /\ granted' = [granted EXCEPT ![a] = IsEnabled(n, a)]
    /\ UNCHANGED <<enabled, setup, iteration, supersteps, traces, text, reply, raised>>

ListTool(a) ==
    LET t == Head(unlisted[a])
    IN  /\ pc[a] = "listing"
        /\ unlisted' = [unlisted EXCEPT ![a] = Tail(@)]
        /\ offered' = [offered EXCEPT ![a] = IF IsEnabled(t, a) THEN @ \cup {t} ELSE @]
        /\ Goto(a, IF Len(unlisted[a]) = 1 THEN "agent" ELSE "listing")
        /\ UNCHANGED <<enabled, role, max, loop, ghosts>>

(***************************************************************************)
(* agent_node: one answer of the model.  At max_iterations the run ends    *)
(* whatever the model asked for.                                           *)
(***************************************************************************)
\* should_continue, after the n-th answer.
ShouldContinue(calls, n, limit) == calls # <<>> /\ n < limit

LastContentOnly(last, ever, ran) == IF last THEN "content" ELSE "empty"

\* The reply of a finished run: the last answer's text, else the latest
\* earlier text, else a note that tools ran, else nothing.
FinalReply(last, ever, ran) ==
    CASE last -> "content"
      [] ~last /\ ever -> "earlier"
      [] ~last /\ ~ever /\ ran -> "note"
      [] OTHER -> "empty"

Answer(a, calls, content) ==
    LET goOn == ShouldContinue(calls, iteration[a] + 1, max[a])
    IN  /\ pc[a] = "agent"
        /\ supersteps[a] < RecursionLimit
        /\ iteration' = [iteration EXCEPT ![a] = @ + 1]
        /\ supersteps' = [supersteps EXCEPT ![a] = @ + 1]
        /\ text' = [text EXCEPT ![a] = @ \/ content]
        /\ reply' = [reply EXCEPT ![a] = FinalReply(content, text[a], traces[a] # <<>>)]
        /\ Goto(a, IF goOn THEN "enter" ELSE "ended")
        /\ pending' = [pending EXCEPT ![a] = IF goOn THEN calls ELSE <<>>]
        /\ asked' = [asked EXCEPT ![a] = IF goOn THEN @ \o calls ELSE @]
        /\ granted' = [granted EXCEPT ![a] = goOn /\ IsEnabled(Head(calls), a)]
        /\ UNCHANGED <<enabled, setup, traces, raised>>

(***************************************************************************)
(* tools_node: AgentRuntime.invoke for each call in turn.                  *)
(***************************************************************************)
EnterTools(a) ==
    /\ pc[a] = "enter"
    /\ supersteps[a] < RecursionLimit
    /\ supersteps' = [supersteps EXCEPT ![a] = @ + 1]
    /\ Goto(a, "tools")
    /\ UNCHANGED <<enabled, setup, iteration, pending, traces, text, reply, ghosts>>

TraceFirstCallOnly(a) ==
    /\ traces' = [traces EXCEPT ![a] = Append(@, Head(pending[a]))]
    /\ pending' = [pending EXCEPT ![a] = <<>>]
    /\ Goto(a, "agent")
    /\ granted' = [granted EXCEPT ![a] = FALSE]
    /\ UNCHANGED <<enabled, setup, iteration, supersteps, text, reply, asked, raised>>

\* No model has answered: the call is the caller's.
Direct(a) == iteration[a] = 0

\* The head of `pending' has its result; when none is left the model is asked
\* again, or the caller of the one call is answered.
TraceCall(a) ==
    LET rest == Tail(pending[a])
    IN  /\ traces' = [traces EXCEPT ![a] = Append(@, Head(pending[a]))]
        /\ pending' = [pending EXCEPT ![a] = rest]
        /\ Goto(a, IF rest # <<>> THEN "tools" ELSE IF Direct(a) THEN "ended" ELSE "agent")
        /\ reply' = [reply EXCEPT ![a] = IF Direct(a) THEN "content" ELSE @]
        /\ granted' = [granted EXCEPT ![a] = rest # <<>> /\ IsEnabled(Head(rest), a)]
        /\ UNCHANGED <<enabled, setup, iteration, supersteps, text, asked, raised>>

\* The permission as it is at this call, not as it was when tools were offered.
CheckCallOffered(a) ==
    /\ pc[a] = "tools"
    /\ IF Head(pending[a]) \in offered[a]
       THEN Goto(a, "running") /\ UNCHANGED <<enabled, setup, loop, ghosts>>
       ELSE TraceCall(a)

CheckCallAwaitingPermission(a) ==
    /\ pc[a] = "tools"
    /\ Head(pending[a]) \in Tools
    /\ IF IsEnabled(Head(pending[a]), a)
       THEN Goto(a, "running") /\ UNCHANGED <<enabled, setup, loop, ghosts>>
       ELSE UNCHANGED vars

CheckCall(a) ==
    /\ pc[a] = "tools"
    /\ IF IsEnabled(Head(pending[a]), a)
       THEN Goto(a, "running") /\ UNCHANGED <<enabled, setup, loop, ghosts>>
       ELSE TraceCall(a)      \* "Unknown tool" or "is disabled for role"

\* await tool.run(**kwargs): a result, successful or not.
RunTool(a) ==
    /\ pc[a] = "running"
    /\ TraceCall(a)

(***************************************************************************)
(* The two ways to fail, answered 502 (and 500 by /tools/invoke).          *)
(***************************************************************************)
Raise(a) ==
    /\ pc[a] \in Busy
    /\ Goto(a, "failed")
    /\ raised' = [raised EXCEPT ![a] = TRUE]
    /\ UNCHANGED <<enabled, setup, loop, asked, granted>>

\* LangGraph raises GraphRecursionError instead of executing another node.
OutOfSteps(a) ==
    /\ pc[a] \in {"agent", "enter"}
    /\ supersteps[a] >= RecursionLimit
    /\ Goto(a, "failed")
    /\ UNCHANGED <<enabled, setup, loop, ghosts>>

\* An administrator's commit of a permission (tools_toggle, update_tool).
SetPermission(t, ro) ==
    LET now == [enabled EXCEPT ![<<t, ro>>] = ~@]
    IN  /\ enabled' = now
        /\ granted' = [a \in Runs |->
               \/ granted[a]
               \/ /\ pc[a] \in {"enter", "tools", "running"}
                  /\ Head(pending[a]) = t
                  /\ now[<<t, role[a]>>]]
        /\ UNCHANGED <<pc, setup, loop, asked, raised>>

Answers == UNION {[1..n -> Names] : n \in 0..MaxCalls}

Step(a) ==
    \/ Start(a)
    \/ \E n \in Names : Invoke(a, n)
    \/ ListTool(a)
    \/ \E calls \in Answers, content \in BOOLEAN : Answer(a, calls, content)
    \/ EnterTools(a)
    \/ CheckCall(a)
    \/ RunTool(a)
    \/ OutOfSteps(a)

Next ==
    \/ \E a \in Runs : Step(a) \/ Raise(a)
    \/ \E t \in Tools, ro \in Roles : SetPermission(t, ro)

Spec == Init /\ [][Next]_vars

\* The model and the tools answer, unless they raise (each has its timeout),
\* and the event loop resumes the run that awaited them.  It is not assumed
\* that anything raises.
FairSpec == Spec /\ \A a \in Runs : WF_vars(Step(a))

-----------------------------------------------------------------------------
(***************************************************************************)
(* Properties                                                              *)
(***************************************************************************)

\* A tool runs only if it is registered and its permission was enabled for
\* the caller's role at some moment since this very call came up; that it
\* was enabled when the tools were offered, or at an earlier call, is not
\* enough (AgentRuntime.invoke).
RunsOnlyPermitted ==
    \A a \in Runs : pc[a] = "running" => Head(pending[a]) \in Tools /\ granted[a]

\* The model gets every call it made answered, once and in order, before it
\* is asked again, whatever was disabled or unknown (tools_node).
EveryCallAnswered ==
    \A a \in Runs : asked[a] = traces[a] \o pending[a]

\* A run never takes more answers than it was allowed, nor more graph nodes
\* than that implies (should_continue).
WithinMaxIterations ==
    \A a \in Runs :
        /\ iteration[a] <= max[a]
        /\ supersteps[a] <= 2 * max[a] - 1

\* A run that ended without a reply had no text to give and ran no tool.
NeverSilent ==
    \A a \in Runs :
        pc[a] = "ended" /\ reply[a] = "empty" => ~text[a] /\ asked[a] = <<>>

\* Every run ends, however often permissions change under it.
RunEnds == \A a \in Runs : (pc[a] \in Busy) ~> (pc[a] \in {"ended", "failed"})

\* A run fails only because the model, the database or a tool raised: asking
\* for tools until max_iterations is not a failure.
StopsAtMaxIterations == \A a \in Runs : pc[a] = "failed" => raised[a]
=============================================================================

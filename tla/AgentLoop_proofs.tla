-------------------------- MODULE AgentLoop_proofs --------------------------
(***************************************************************************)
(* Proofs about AgentLoop, for any tools, roles, number of runs, answers   *)
(* and limits.                                                             *)
(***************************************************************************)
EXTENDS AgentLoop, SequenceTheorems, TLAPS

(***************************************************************************)
(* The inductive invariant.  Where a run is tells how many graph nodes it  *)
(* has executed for its answers (Counted) and that no call waits while the *)
(* model is asked (NonePending); the call at the head has been permitted   *)
(* since it came up if it is permitted now (Noted).                        *)
(***************************************************************************)
Counted ==
    \A a \in Runs :
        /\ pc[a] \in {"idle", "listing"} => iteration[a] = 0 /\ supersteps[a] = 0
        /\ pc[a] \in {"agent", "tools", "running"} =>
              iteration[a] < max[a] /\ supersteps[a] = 2 * iteration[a]
        /\ pc[a] = "enter" =>
              iteration[a] < max[a] /\ supersteps[a] = 2 * iteration[a] - 1

NonePending ==
    \A a \in Runs :
        /\ pc[a] \in {"idle", "listing", "agent", "ended"} => pending[a] = <<>>
        /\ pc[a] = "idle" => unlisted[a] = Registry /\ traces[a] = <<>>

Noted ==
    \A a \in Runs :
        pc[a] \in {"enter", "tools", "running"} /\ IsEnabled(Head(pending[a]), a) =>
            granted[a]

Inv ==
    /\ TypeOK
    /\ Counted
    /\ NonePending
    /\ Noted
    /\ RunsOnlyPermitted
    /\ EveryCallAnswered
    /\ WithinMaxIterations
    /\ NeverSilent

-----------------------------------------------------------------------------

\* Moving the head of what is left to the end of what is done.
LEMMA MoveHead ==
    ASSUME NEW S, NEW s \in Seq(S), NEW t \in Seq(S), t # <<>>
    PROVE  /\ Head(t) \in S
           /\ Tail(t) \in Seq(S)
           /\ Append(s, Head(t)) \in Seq(S)
           /\ Append(s, Head(t)) \o Tail(t) = s \o t
<1>1. Head(t) \in S /\ Tail(t) \in Seq(S)
  BY HeadTailProperties
<1>2. Append(s, Head(t)) \in Seq(S)
  BY <1>1, AppendProperties
<1>3. Append(s, Head(t)) \o Tail(t) = s \o t
  BY <1>1, <1>2, ConcatProperties, AppendProperties, HeadTailProperties
<1>4. QED
  BY <1>1, <1>2, <1>3

\* The same for the calls of an answer and those that have their result.
LEMMA MoveCall ==
    \A s, t \in Seq(Names) : t # <<>> =>
        /\ Tail(t) \in Seq(Names)
        /\ Append(s, Head(t)) \in Seq(Names)
        /\ Append(s, Head(t)) \o Tail(t) = s \o t
<1> SUFFICES ASSUME NEW s \in Seq(Names), NEW t \in Seq(Names), t # <<>>
             PROVE  /\ Tail(t) \in Seq(Names)
                    /\ Append(s, Head(t)) \in Seq(Names)
                    /\ Append(s, Head(t)) \o Tail(t) = s \o t
  OBVIOUS
<1>1. QED
  BY MoveHead

\* The same for the tools whose permission is still to be read.
LEMMA MoveTool ==
    \A s \in Seq(Tools) : s # <<>> =>
        /\ Head(s) \in Tools
        /\ Tail(s) \in Seq(Tools)
        /\ Len(s) # 1 => Tail(s) # <<>>
<1> SUFFICES ASSUME NEW s \in Seq(Tools), s # <<>>
             PROVE  /\ Head(s) \in Tools
                    /\ Tail(s) \in Seq(Tools)
                    /\ Len(s) # 1 => Tail(s) # <<>>
  OBVIOUS
<1>1. Len(Tail(s)) = Len(s) - 1 /\ Len(s) \in Nat
  BY HeadTailProperties, LenProperties
<1>2. QED
  BY <1>1, HeadTailProperties

\* Every answer of the model is a sequence of names.
LEMMA AnswersAreSequences ==
    ASSUME NEW calls \in Answers
    PROVE  calls \in Seq(Names)
  BY BoundAssumption DEF Answers

\* The initial states satisfy the invariant.
LEMMA InitInv == Init => Inv
<1> SUFFICES ASSUME Init PROVE Inv
  OBVIOUS
<1> USE RegistryAssumption, BoundAssumption DEF Init
<1>1. TypeOK
  BY DEF TypeOK, Labels, Busy, Replies
<1>2. Counted /\ NonePending /\ Noted /\ RunsOnlyPermitted
  BY DEF Counted, NonePending, Noted, RunsOnlyPermitted
<1>3. EveryCallAnswered
  BY DEF EveryCallAnswered
<1>4. WithinMaxIterations /\ NeverSilent
  BY DEF WithinMaxIterations, NeverSilent
<1>5. QED
  BY <1>1, <1>2, <1>3, <1>4 DEF Inv

\* A run that ends without having changed anything else: raised or out of
\* steps.
LEMMA FailInv ==
    ASSUME Inv, NEW a \in Runs, Raise(a) \/ OutOfSteps(a)
    PROVE  Inv'
<1> USE DEF Inv, Raise, OutOfSteps, Goto, setup, loop, ghosts
<1>1. TypeOK'
  BY DEF TypeOK, Labels
<1>2. pc \in [Runs -> Labels]
  BY DEF TypeOK
<1>3. (Counted /\ NonePending)'
  BY <1>2 DEF Labels, Counted, NonePending
<1>4. Noted'
  BY <1>2 DEF Labels, Noted, IsEnabled
<1>5. RunsOnlyPermitted'
  BY <1>2 DEF Labels, RunsOnlyPermitted
<1>6. (EveryCallAnswered /\ WithinMaxIterations)'
  BY DEF EveryCallAnswered, WithinMaxIterations
<1>7. NeverSilent'
  BY <1>2 DEF Labels, NeverSilent
<1>8. QED
  BY <1>1, <1>3, <1>4, <1>5, <1>6, <1>7

\* The request is admitted.
LEMMA StartInv ==
    ASSUME Inv, NEW a \in Runs, Start(a)
    PROVE  Inv'
<1> USE RegistryAssumption DEF Inv, Start, Goto, setup, loop, ghosts
<1>1. TypeOK'
  BY DEF TypeOK, Labels, Busy, NonePending
<1>2. pc \in [Runs -> Labels]
  BY DEF TypeOK
<1>3. (Counted /\ NonePending)'
  BY <1>2 DEF Labels, Counted, NonePending
<1>4. Noted'
  BY <1>2 DEF Labels, Noted, IsEnabled
<1>5. RunsOnlyPermitted'
  BY <1>2 DEF Labels, RunsOnlyPermitted
<1>6. (EveryCallAnswered /\ WithinMaxIterations)'
  BY DEF EveryCallAnswered, WithinMaxIterations
<1>7. NeverSilent'
  BY <1>2 DEF Labels, NeverSilent
<1>8. QED
  BY <1>1, <1>3, <1>4, <1>5, <1>6, <1>7

\* The caller's own call comes up.
LEMMA InvokeInv ==
    ASSUME Inv, NEW a \in Runs, NEW n \in Names, Invoke(a, n)
    PROVE  Inv'
<1> USE DEF Inv, Invoke, Goto, setup
<1>1. /\ <<n>> \in Seq(Names) /\ <<n>> # <<>> /\ Head(<<n>>) = n
      /\ traces[a] \o <<n>> = <<n>>
  <2>1. <<n>> \in Seq(Names) /\ <<n>> # <<>> /\ Head(<<n>>) = n
    OBVIOUS
  <2>2. traces[a] = <<>>
    BY DEF NonePending
  <2>3. QED
    BY <2>1, <2>2, ConcatEmptySeq
<1>2. TypeOK'
  BY <1>1 DEF TypeOK, Labels, Busy, IsEnabled
<1>3. (Counted /\ NonePending /\ WithinMaxIterations)'
  BY BoundAssumption DEF TypeOK, Counted, NonePending, WithinMaxIterations
<1>4. (Noted /\ RunsOnlyPermitted)'
  BY <1>1 DEF TypeOK, Noted, RunsOnlyPermitted, IsEnabled
<1>5. EveryCallAnswered'
  BY <1>1 DEF TypeOK, EveryCallAnswered
<1>6. NeverSilent'
  BY DEF TypeOK, NeverSilent
<1>7. QED
  BY <1>2, <1>3, <1>4, <1>5, <1>6

\* One permission is read.
LEMMA ListToolInv ==
    ASSUME Inv, NEW a \in Runs, ListTool(a)
    PROVE  Inv'
<1> USE DEF Inv, ListTool, Goto, setup, loop, ghosts
<1>1. unlisted[a] \in Seq(Tools) /\ unlisted[a] # <<>>
  BY DEF TypeOK
<1>2. /\ Head(unlisted[a]) \in Tools /\ Tail(unlisted[a]) \in Seq(Tools)
      /\ Len(unlisted[a]) # 1 => Tail(unlisted[a]) # <<>>
  BY <1>1, MoveTool
<1>3. TypeOK'
  BY <1>1, <1>2 DEF TypeOK, Labels, Busy
<1>4. Counted'
  <2>1. pc \in [Runs -> Labels] /\ max[a] \in Nat /\ max[a] > 0
    BY BoundAssumption DEF TypeOK
  <2>2. QED
    BY <2>1 DEF Counted, Labels
<1>5. (NonePending /\ Noted /\ RunsOnlyPermitted)'
  BY DEF TypeOK, NonePending, Noted, RunsOnlyPermitted, IsEnabled
<1>6. (EveryCallAnswered /\ WithinMaxIterations /\ NeverSilent)'
  BY DEF TypeOK, EveryCallAnswered, WithinMaxIterations, NeverSilent
<1>7. QED
  BY <1>3, <1>4, <1>5, <1>6

\* The model answers: the calls of an answer that goes on are now asked.
LEMMA AnswerInv ==
    ASSUME Inv, NEW a \in Runs, NEW calls \in Answers, NEW content \in BOOLEAN,
           Answer(a, calls, content)
    PROVE  Inv'
<1> DEFINE goOn == ShouldContinue(calls, iteration[a] + 1, max[a])
<1> USE DEF Inv, Answer, Goto, setup
<1>1. /\ calls \in Seq(Names) /\ traces[a] \in Seq(Names)
      /\ pending[a] = <<>> /\ asked[a] = traces[a] \o <<>>
  BY AnswersAreSequences DEF TypeOK, NonePending, EveryCallAnswered
<1>2. /\ asked[a] = traces[a]
      /\ asked[a] \o calls \in Seq(Names)
  BY <1>1, ConcatEmptySeq, ConcatProperties
<1>3. /\ iteration[a] \in Nat /\ max[a] \in 1..MaxIterations /\ max[a] \in Nat
      /\ iteration[a] < max[a] /\ supersteps[a] = 2 * iteration[a]
  BY BoundAssumption DEF TypeOK, Counted
<1>4. goOn => calls # <<>> /\ iteration[a] + 1 < max[a]
  BY DEF ShouldContinue
<1>5. TypeOK'
  <2>1. FinalReply(content, text[a], traces[a] # <<>>) \in Replies
    BY DEF FinalReply, Replies, TypeOK
  <2>2. iteration[a] + 1 \in 0..MaxIterations /\ supersteps[a] + 1 \in Nat
    BY <1>3, BoundAssumption
  <2>3. goOn \in BOOLEAN /\ IsEnabled(Head(calls), a) \in BOOLEAN
    BY DEF ShouldContinue, IsEnabled
  <2>4. QED
    BY <1>1, <1>2, <1>4, <2>1, <2>2, <2>3 DEF TypeOK, Labels, Busy
<1>6. /\ pc \in [Runs -> Labels]
      /\ iteration \in [Runs -> 0..MaxIterations]
      /\ supersteps \in [Runs -> Nat]
  BY DEF TypeOK
<1>7. Counted'
  BY <1>3, <1>4, <1>6 DEF Counted
<1>8. (NonePending /\ RunsOnlyPermitted)'
  BY DEF TypeOK, NonePending, RunsOnlyPermitted
<1>9. Noted'
  BY <1>4 DEF TypeOK, Noted, IsEnabled
<1>10. EveryCallAnswered'
  BY <1>1, <1>2, ConcatEmptySeq DEF TypeOK, EveryCallAnswered
<1>11. WithinMaxIterations'
  BY <1>3, <1>6 DEF WithinMaxIterations
<1>12. NeverSilent'
  BY <1>2 DEF TypeOK, NeverSilent, FinalReply
<1>13. QED
  BY <1>5, <1>7, <1>8, <1>9, <1>10, <1>11, <1>12

\* The tools node is entered.
LEMMA EnterToolsInv ==
    ASSUME Inv, NEW a \in Runs, EnterTools(a)
    PROVE  Inv'
<1> USE DEF Inv, EnterTools, Goto, setup, ghosts
<1>1. TypeOK'
  BY DEF TypeOK, Labels, Busy
<1>2. Counted'
  BY BoundAssumption DEF TypeOK, Counted
<1>3. (NonePending /\ Noted /\ RunsOnlyPermitted)'
  BY DEF TypeOK, NonePending, Noted, RunsOnlyPermitted, IsEnabled
<1>4. max[a] \in Nat /\ iteration[a] \in Nat /\ iteration[a] < max[a]
      /\ supersteps[a] = 2 * iteration[a] - 1
  BY BoundAssumption DEF TypeOK, Counted
<1>5. WithinMaxIterations'
  <2>1. supersteps \in [Runs -> Nat]
    BY DEF TypeOK
  <2>2. QED
    BY <1>4, <2>1 DEF WithinMaxIterations
<1>6. (EveryCallAnswered /\ NeverSilent)'
  BY DEF TypeOK, EveryCallAnswered, NeverSilent
<1>7. QED
  BY <1>1, <1>2, <1>3, <1>5, <1>6

\* The call at the head is answered.
LEMMA TraceCallInv ==
    ASSUME Inv, NEW a \in Runs, pc[a] \in {"tools", "running"}, TraceCall(a)
    PROVE  Inv'
<1> USE DEF Inv, TraceCall, Direct, Goto, setup
<1>1. /\ pending[a] \in Seq(Names) /\ pending[a] # <<>> /\ traces[a] \in Seq(Names)
      /\ asked[a] = traces[a] \o pending[a]
  BY DEF TypeOK, EveryCallAnswered
<1>2. /\ Tail(pending[a]) \in Seq(Names)
      /\ Append(traces[a], Head(pending[a])) \in Seq(Names)
      /\ Append(traces[a], Head(pending[a])) \o Tail(pending[a]) = asked[a]
  BY <1>1, MoveCall
<1>3. TypeOK'
  BY <1>2 DEF TypeOK, Labels, Busy, Replies, IsEnabled
<1>4. (Counted /\ WithinMaxIterations)'
  BY DEF TypeOK, Counted, WithinMaxIterations
<1>5. (NonePending /\ RunsOnlyPermitted)'
  BY DEF TypeOK, NonePending, RunsOnlyPermitted
<1>6. Noted'
  BY DEF TypeOK, Noted, IsEnabled
<1>7. EveryCallAnswered'
  BY <1>2 DEF TypeOK, EveryCallAnswered
<1>8. NeverSilent'
  BY DEF TypeOK, NeverSilent
<1>9. QED
  BY <1>3, <1>4, <1>5, <1>6, <1>7, <1>8

\* The permission of the call at the head is read.
LEMMA CheckCallInv ==
    ASSUME Inv, NEW a \in Runs, CheckCall(a)
    PROVE  Inv'
<1>1. CASE ~IsEnabled(Head(pending[a]), a)
  BY <1>1, TraceCallInv DEF CheckCall
<1>2. CASE IsEnabled(Head(pending[a]), a)
  <2> USE <1>2 DEF Inv, CheckCall, Goto, setup, loop, ghosts
  <2>1. TypeOK'
    BY DEF TypeOK, Labels, Busy
  <2>2. (Counted /\ WithinMaxIterations)'
    BY DEF TypeOK, Counted, WithinMaxIterations
  <2>3. (NonePending /\ Noted /\ RunsOnlyPermitted)'
    BY DEF TypeOK, NonePending, Noted, RunsOnlyPermitted, IsEnabled
  <2>4. (EveryCallAnswered /\ NeverSilent)'
    BY DEF TypeOK, EveryCallAnswered, NeverSilent
  <2>5. QED
    BY <2>1, <2>2, <2>3, <2>4
<1>3. QED
  BY <1>1, <1>2

\* An administrator switches a permission; a call it enables is noted.
LEMMA SetPermissionInv ==
    ASSUME Inv, NEW t \in Tools, NEW ro \in Roles, SetPermission(t, ro)
    PROVE  Inv'
<1> USE DEF Inv, SetPermission, setup, loop
<1>1. TypeOK'
  BY DEF TypeOK
<1>2. Noted'
  BY DEF TypeOK, Noted, IsEnabled
<1>3. (Counted /\ NonePending /\ RunsOnlyPermitted)'
  BY DEF TypeOK, Counted, NonePending, RunsOnlyPermitted
<1>4. (EveryCallAnswered /\ WithinMaxIterations /\ NeverSilent)'
  BY DEF TypeOK, EveryCallAnswered, WithinMaxIterations, NeverSilent
<1>5. QED
  BY <1>1, <1>2, <1>3, <1>4

\* Nothing changes.
LEMMA StutterInv == Inv /\ UNCHANGED vars => Inv'
  BY DEF vars, setup, loop, ghosts, Inv, TypeOK, Counted, NonePending, Noted,
         RunsOnlyPermitted, EveryCallAnswered, WithinMaxIterations, NeverSilent,
         IsEnabled

\* The inductive invariant holds in every reachable state.
THEOREM InvHolds == Spec => []Inv
<1>1. Inv /\ [Next]_vars => Inv'
  <2> SUFFICES ASSUME Inv, [Next]_vars PROVE Inv'
    OBVIOUS
  <2>1. ASSUME NEW a \in Runs, Step(a) \/ Raise(a)  PROVE Inv'
    BY <2>1, StartInv, InvokeInv, ListToolInv, AnswerInv, EnterToolsInv, CheckCallInv,
       TraceCallInv, FailInv DEF Step, RunTool
  <2>2. ASSUME NEW t \in Tools, NEW ro \in Roles, SetPermission(t, ro)  PROVE Inv'
    BY <2>2, SetPermissionInv
  <2>3. QED
    BY <2>1, <2>2, StutterInv DEF Next
<1>2. QED
  BY InitInv, <1>1, PTL DEF Spec

\* Every reachable state is well typed.
THEOREM TypeCorrect == Spec => []TypeOK
  BY InvHolds, PTL DEF Inv

\* A tool runs only if it was permitted since the call came up
\* (AgentRuntime.invoke).
THEOREM PermissionIsChecked == Spec => []RunsOnlyPermitted
  BY InvHolds, PTL DEF Inv

\* Calls are answered once and in order (tools_node).
THEOREM CallsAreAnswered == Spec => []EveryCallAnswered
  BY InvHolds, PTL DEF Inv

\* A run never takes more answers than max_iterations (should_continue).
THEOREM IterationsAreBounded == Spec => []WithinMaxIterations
  BY InvHolds, PTL DEF Inv

\* A run without a reply had no text to give and ran no tool (run_agent).
THEOREM RepliesAreNotLost == Spec => []NeverSilent
  BY InvHolds, PTL DEF Inv
-----------------------------------------------------------------------------
(***************************************************************************)
(* Why every run ends.  That a run goes on is a matter of fairness, but    *)
(* that it cannot go on for ever is not: each of its steps lowers its      *)
(* Rank, the number of steps it may still take, and no step of another run *)
(* and no change of a permission raises it.  Turn is what one answer of    *)
(* the model and its calls may cost.                                       *)
(***************************************************************************)
Turn == 2 * MaxCalls + 3
Left(a) == (max[a] - iteration[a]) * Turn
Longest == MaxIterations * Turn + Len(Registry) + 5

Weight(label) ==
    IF label \in {"ended", "failed"} THEN 0
    ELSE IF label \in {"listing", "agent", "running"} THEN 1
    ELSE IF label = "tools" THEN 2
    ELSE IF label = "enter" THEN 3
    ELSE 5

Rank(a) == Left(a) + 2 * Len(pending[a]) + Len(unlisted[a]) + Weight(pc[a])

\* A run's own position: what its steps change and no other's.
Place(a) == <<pc[a], max[a], iteration[a], unlisted[a], pending[a]>>

Bounded == \A a \in Runs : Rank(a) \in Nat /\ (pc[a] = "idle" => Rank(a) <= Longest)
RanksFall == [][\A a \in Runs : Place(a)' = Place(a) \/ Rank(a)' < Rank(a)]_vars

LEMMA Lengths ==
    ASSUME Inv, NEW a \in Runs
    PROVE  /\ Turn \in Nat
           /\ Left(a) \in Nat
           /\ Len(unlisted[a]) \in Nat /\ Len(Registry) \in Nat
           /\ Len(pending[a]) \in Nat
           /\ pending[a] # <<>> =>
                 Len(Tail(pending[a])) = Len(pending[a]) - 1 /\ Len(pending[a]) > 0
           /\ unlisted[a] # <<>> => Len(Tail(unlisted[a])) = Len(unlisted[a]) - 1
<1>1. Turn \in Nat
  BY BoundAssumption DEF Turn
<1>2. max[a] \in Nat /\ iteration[a] \in Nat /\ max[a] - iteration[a] \in Nat
  BY BoundAssumption DEF Inv, TypeOK, WithinMaxIterations
<1>3. Left(a) \in Nat
  BY <1>1, <1>2 DEF Left
<1>4. unlisted[a] \in Seq(Tools) /\ pending[a] \in Seq(Names) /\ Registry \in Seq(Tools)
  BY RegistryAssumption DEF Inv, TypeOK
<1>5. QED
  BY <1>1, <1>3, <1>4, LenProperties, HeadTailProperties

\* Each step of a run lowers its rank.
LEMMA StepRank ==
    ASSUME Inv, NEW a \in Runs, Step(a) \/ Raise(a)
    PROVE  Rank(a)' < Rank(a)
<1> DEFINE p == Len(pending[a])
           u == Len(unlisted[a])
<1>0. /\ pc \in [Runs -> Labels]
      /\ Left(a) \in Nat /\ p \in Nat /\ u \in Nat
      /\ Turn \in Nat
  BY Lengths DEF Inv, TypeOK
<1>1. CASE Start(a)
  <2>1. pc[a] = "idle" /\ pc'[a] = "listing"
    BY <1>0, <1>1 DEF Start, Goto
  <2>2. Left(a)' = Left(a) /\ p' = p /\ u' = u
    BY <1>1 DEF Start, setup, loop, Left
  <2>3. QED
    BY <1>0, <2>1, <2>2 DEF Rank, Weight
<1>2. ASSUME NEW n \in Names, Invoke(a, n)
      PROVE  Rank(a)' < Rank(a)
  <2>1. pc[a] = "idle" /\ pc'[a] = "tools"
    BY <1>0, <1>2 DEF Invoke, Goto
  <2>2. pending'[a] = <<n>>
    BY <1>2 DEF Invoke, Inv, TypeOK
  <2>3. Left(a)' = Left(a) /\ p' = 1 /\ u' = u
    BY <1>2, <2>2 DEF Invoke, setup, Left
  <2>4. QED
    BY <1>0, <2>1, <2>3 DEF Rank, Weight
<1>3. CASE ListTool(a)
  <2>1. pc[a] = "listing" /\ pc'[a] \in {"agent", "listing"}
    BY <1>0, <1>3 DEF ListTool, Goto
  <2>2. unlisted'[a] = Tail(unlisted[a]) /\ unlisted[a] # <<>>
    BY <1>3 DEF ListTool, Inv, TypeOK
  <2>3. Left(a)' = Left(a) /\ p' = p
    BY <1>3 DEF ListTool, loop, Left
  <2>4. u' = u - 1
    BY <2>2, Lengths
  <2>5. QED
    BY <1>0, <2>1, <2>3, <2>4 DEF Rank, Weight
<1>4. ASSUME NEW calls \in Answers, NEW content \in BOOLEAN, Answer(a, calls, content)
      PROVE  Rank(a)' < Rank(a)
  <2>1. Len(calls) \in Nat /\ Len(calls) <= MaxCalls
    BY BoundAssumption DEF Answers
  <2>2. /\ pc[a] = "agent" /\ pc'[a] \in {"enter", "ended"}
        /\ iteration'[a] = iteration[a] + 1
        /\ pending'[a] = calls \/ pending'[a] = <<>>
    BY <1>0, <1>4 DEF Answer, Goto, Inv, TypeOK
  <2>3. Left(a)' = Left(a) - Turn
    <3>1. max[a] \in Nat /\ iteration[a] \in Nat /\ max'[a] = max[a]
      BY <1>4, BoundAssumption DEF Answer, setup, Inv, TypeOK
    <3>2. \A m, i, t \in Nat : (m - (i + 1)) * t = (m - i) * t - t
      OBVIOUS
    <3>3. (max[a] - (iteration[a] + 1)) * Turn = (max[a] - iteration[a]) * Turn - Turn
      BY <1>0, <3>1, <3>2
    <3>4. QED
      BY <2>2, <3>1, <3>3 DEF Left
  <2>4. p' \in Nat /\ p' <= MaxCalls /\ u' = u
    BY <1>4, <2>1, <2>2, BoundAssumption DEF Answer, setup
  <2>5. Weight(pc[a]) = 1 /\ Weight(pc'[a]) \in Nat /\ Weight(pc'[a]) <= 3
    BY <2>2 DEF Weight
  <2>6. Turn = 2 * MaxCalls + 3 /\ MaxCalls \in Nat
    BY BoundAssumption DEF Turn
  <2>7. \A l, q, r, v, w, m \in Nat :
           q <= m /\ w <= 3 => l - (2 * m + 3) + 2 * q + v + w < l + 2 * r + v + 1
    OBVIOUS
  <2>8. Left(a) - (2 * MaxCalls + 3) + 2 * p' + u + Weight(pc'[a]) < Left(a) + 2 * p + u + 1
    BY <1>0, <2>4, <2>5, <2>6, <2>7
  <2>9. QED
    BY <2>3, <2>4, <2>5, <2>6, <2>8 DEF Rank
<1>5. CASE EnterTools(a)
  <2>1. pc[a] = "enter" /\ pc'[a] = "tools"
    BY <1>0, <1>5 DEF EnterTools, Goto
  <2>2. Left(a)' = Left(a) /\ p' = p /\ u' = u
    BY <1>5 DEF EnterTools, setup, Left
  <2>3. QED
    BY <1>0, <2>1, <2>2 DEF Rank, Weight
<1>6. ASSUME pc[a] \in {"tools", "running"}, TraceCall(a)
      PROVE  Rank(a)' < Rank(a)
  <2>1. pc'[a] \in {"tools", "agent", "ended"}
    BY <1>0, <1>6 DEF TraceCall, Goto
  <2>2. pending'[a] = Tail(pending[a]) /\ pending[a] # <<>>
    BY <1>6 DEF TraceCall, Inv, TypeOK
  <2>3. Left(a)' = Left(a) /\ u' = u
    BY <1>6 DEF TraceCall, setup, Left
  <2>4. p' = p - 1
    BY <2>2, Lengths
  <2>5. /\ Weight(pc[a]) \in Nat /\ Weight(pc'[a]) \in Nat
        /\ Weight(pc'[a]) <= Weight(pc[a]) + 1
    BY <1>6, <2>1 DEF Weight
  <2>6. \A l, q, v, w, x \in Nat :
           x <= w + 1 => l + 2 * (q - 1) + v + x < l + 2 * q + v + w
    OBVIOUS
  <2>7. Left(a) + 2 * (p - 1) + u + Weight(pc'[a]) < Left(a) + 2 * p + u + Weight(pc[a])
    BY <1>0, <2>5, <2>6
  <2>8. QED
    BY <2>3, <2>4, <2>7 DEF Rank
<1>7. CASE CheckCall(a) /\ IsEnabled(Head(pending[a]), a)
  <2>1. pc[a] = "tools" /\ pc'[a] = "running"
    BY <1>0, <1>7 DEF CheckCall, Goto
  <2>2. Left(a)' = Left(a) /\ p' = p /\ u' = u
    BY <1>7 DEF CheckCall, setup, loop, Left
  <2>3. QED
    BY <1>0, <2>1, <2>2 DEF Rank, Weight
<1>8. CASE Raise(a) \/ OutOfSteps(a)
  <2>1. pc[a] \in Busy /\ pc'[a] = "failed"
    BY <1>0, <1>8 DEF Raise, OutOfSteps, Goto, Busy
  <2>2. Left(a)' = Left(a) /\ p' = p /\ u' = u
    BY <1>8 DEF Raise, OutOfSteps, setup, loop, Left
  <2>3. Weight(pc[a]) \in 1..3 /\ Weight(pc'[a]) = 0
    BY <2>1 DEF Weight, Busy
  <2>4. QED
    BY <1>0, <2>2, <2>3 DEF Rank
<1>9. QED
  BY <1>1, <1>2, <1>3, <1>4, <1>5, <1>6, <1>7, <1>8 DEF Step, RunTool, CheckCall

\* A step leaves the other runs where they are.
LEMMA OthersStay ==
    ASSUME Inv, NEW a \in Runs, Step(a) \/ Raise(a), NEW b \in Runs, b # a
    PROVE  Place(b)' = Place(b)
  BY DEF Step, Start, Invoke, ListTool, Answer, EnterTools, CheckCall, RunTool, TraceCall,
         OutOfSteps, Raise, Goto, setup, loop, Place, Inv, TypeOK

\* A run that has not started may take at most Longest steps, and has that
\* many fewer left after each of them (run_agent, invoke_tool).
THEOREM RunsAreShort == Spec => []Bounded /\ RanksFall
<1>1. Inv => Bounded
  <2> SUFFICES ASSUME Inv, NEW a \in Runs
               PROVE  Rank(a) \in Nat /\ (pc[a] = "idle" => Rank(a) <= Longest)
    BY DEF Bounded
  <2>1. Rank(a) \in Nat
    <3>1. Left(a) \in Nat /\ Len(pending[a]) \in Nat /\ Len(unlisted[a]) \in Nat /\ Len(Registry) \in Nat
      BY Lengths
    <3>2. Weight(pc[a]) \in Nat
      BY DEF Weight
    <3>3. \A l, p, u, w \in Nat : l + 2 * p + u + w \in Nat
      OBVIOUS
    <3>4. QED
      BY <3>1, <3>2, <3>3 DEF Rank
  <2>2. ASSUME pc[a] = "idle"
        PROVE  Left(a) <= MaxIterations * Turn
    <3>1. iteration[a] = 0 /\ max[a] \in 1..MaxIterations
      BY <2>2 DEF Inv, Counted, TypeOK
    <3>2. \A m, n, t \in Nat : m <= n => m * t <= n * t
      OBVIOUS
    <3>3. QED
      BY <3>1, <3>2, Lengths, BoundAssumption DEF Left
  <2>3. MaxIterations * Turn \in Nat
    BY Lengths, BoundAssumption
  <2>4. QED
    <3>1. ASSUME pc[a] = "idle"
          PROVE  Rank(a) <= Longest
      <4>1. pending[a] = <<>> /\ unlisted[a] = Registry
        BY <3>1 DEF Inv, NonePending
      <4>2. Left(a) \in Nat /\ Len(Registry) \in Nat
        BY Lengths
      <4>3. Len(pending[a]) = 0 /\ Len(unlisted[a]) = Len(Registry)
        BY <4>1
      <4>4. Weight(pc[a]) = 5
        BY <3>1 DEF Weight
      <4>5. QED
        BY <2>2, <2>3, <3>1, <4>2, <4>3, <4>4 DEF Rank, Longest
    <3>2. QED
      BY <2>1, <3>1
<1>2. Inv /\ [Next]_vars => [\A a \in Runs : Place(a)' = Place(a) \/ Rank(a)' < Rank(a)]_vars
  <2> SUFFICES ASSUME Inv, Next, NEW a \in Runs
               PROVE  Place(a)' = Place(a) \/ Rank(a)' < Rank(a)
    OBVIOUS
  <2>1. ASSUME NEW t \in Tools, NEW ro \in Roles, SetPermission(t, ro)
        PROVE  Place(a)' = Place(a)
    BY <2>1 DEF SetPermission, setup, loop, Place
  <2>2. QED
    BY <2>1, StepRank, OthersStay DEF Next
<1>3. QED
  BY <1>1, <1>2, InvHolds, PTL DEF Spec, RanksFall
=============================================================================

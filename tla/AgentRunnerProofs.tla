------------------------- MODULE AgentRunnerProofs -------------------------
(***************************************************************************)
(* Theorems about AgentRunner, for every budget, every set of arguments    *)
(* and every set of retryable tools.                                       *)
(***************************************************************************)
EXTENDS AgentRunner, FiniteSetTheorems, SequenceTheorems, TLAPS

\* Writing the status of the last row of a table keeps the table well typed and
\* changes nothing else of it.
LEMMA CloseStages ==
  ASSUME NEW seq \in Seq(StageRow), NEW st \in {"ENTERED", "SUCCEEDED", "FAILED"}
  PROVE  Close(seq, st) \in Seq(StageRow) /\ Len(Close(seq, st)) = Len(seq)
<1>1. CASE seq = <<>>
  BY <1>1 DEF Close
<1>2. CASE seq # <<>>
  <2>1. Len(seq) \in 1 .. Len(seq)
    BY <1>2, EmptySeq
  <2> DEFINE e == [seq[Len(seq)] EXCEPT !.status = st]
  <2>2. e \in StageRow
    <3>1. seq[Len(seq)] \in StageRow
      BY <2>1, ElementOfSeq
    <3> QED  BY <3>1 DEF StageRow
  <2>3. Close(seq, st) = [seq EXCEPT ![Len(seq)] = e]
    BY <1>2, <2>1 DEF Close
  <2> QED  BY <2>1, <2>2, <2>3, ExceptSeq
<1> QED  BY <1>1, <1>2

LEMMA CloseCalls ==
  ASSUME NEW seq \in Seq(CallRow), NEW st \in {"RUNNING", "SUCCEEDED", "FAILED"}
  PROVE  /\ Close(seq, st) \in Seq(CallRow)
         /\ Len(Close(seq, st)) = Len(seq)
         /\ \A i \in 1 .. Len(seq) : Close(seq, st)[i].index = seq[i].index
<1>1. CASE seq = <<>>
  BY <1>1 DEF Close
<1>2. CASE seq # <<>>
  <2>1. Len(seq) \in 1 .. Len(seq)
    BY <1>2, EmptySeq
  <2> DEFINE e == [seq[Len(seq)] EXCEPT !.status = st]
  <2>2. e \in CallRow /\ e.index = seq[Len(seq)].index
    <3>1. seq[Len(seq)] \in CallRow
      BY <2>1, ElementOfSeq
    <3> QED  BY <3>1 DEF CallRow
  <2>3. Close(seq, st) = [seq EXCEPT ![Len(seq)] = e]
    BY <1>2, <2>1 DEF Close
  <2>4. /\ [seq EXCEPT ![Len(seq)] = e] \in Seq(CallRow)
        /\ Len([seq EXCEPT ![Len(seq)] = e]) = Len(seq)
        /\ \A j \in 1 .. Len(seq) :
             [seq EXCEPT ![Len(seq)] = e][j] = IF j = Len(seq) THEN e ELSE seq[j]
    BY <2>1, <2>2, ExceptSeq
  <2> QED  BY <2>2, <2>3, <2>4
<1> QED  BY <1>1, <1>2

LEMMA FinishCloses ==
  ASSUME FinishCall PROVE \E st \in {"SUCCEEDED", "FAILED"} : calls' = Close(calls, st)
<1>1. RowStatus(result) \subseteq {"SUCCEEDED", "FAILED"}
  BY DEF RowStatus
<1> QED  BY <1>1 DEF FinishCall

\* PERSISTED_STATE maps every state of a run to a stage of the database.
LEMMA PersistedTyped == \A s \in AgentStates : Persisted[s] \in Stages
BY DEF Stages

LEMMA FailedIsAStage == "FAILED" \in Stages /\ Persisted["FAILED"] = "FAILED"
<1>1. "FAILED" \in AgentStates
  BY DEF AgentStates, Terminal
<1>2. Persisted["FAILED"] = "FAILED"
  BY <1>1 DEF Persisted, Completed
<1> QED  BY <1>1, <1>2 DEF Stages

\* The attempt a new stage row is given is a positive number.
LEMMA EnteredTyped ==
  ASSUME NEW st \in Stages, stages \in Seq(StageRow)
  PROVE  Entered(st) \in StageRow
<1>1. IsFiniteSet(1 .. Len(stages))
  BY FS_Interval
<1>2. IsFiniteSet({i \in 1 .. Len(stages) : stages[i].stage = st})
  BY <1>1, FS_Subset
<1>3. Attempts(st) \in Nat
  BY <1>2, FS_CardinalityType DEF Attempts
<1> QED  BY <1>3 DEF Entered, StageRow

\* Every route of _advance_after_tool is a finite sequence of known steps.
LEMMA RoutesTyped ==
  ASSUME NEW t, NEW m, NEW r \in RoutesOf(t, m)
  PROVE  r \in Seq(RouteStep)
<1> DEFINE Names == {"MODE_SELECTION", "select", "PAGE_FETCHING", "SOURCE_DISCOVERY",
      "SOURCE_VALIDATION", "SNAPSHOT_PERSISTENCE", "FACT_EXTRACTION", "FACT_PERSISTENCE",
      "establish", "REPORT_GENERATION", "HISTORY_LOOKUP", "FACT_COMPARISON",
      "CHANGE_PERSISTENCE", "REPORT_PERSISTENCE", "RUN_SUMMARY", "COMPLETED",
      "COMPLETED_WITH_WARNINGS", "finish", "competitor"}
<1>1. Names \subseteq RouteStep
  BY DEF RouteStep, AgentStates, LoopStates, PassedStates, Terminal, Completed
<1>2. r \in Seq(Names)
  <2>1. CASE t = "status"
    <3>1. r = <<>>
      BY <2>1 DEF RoutesOf
    <3> QED  BY <3>1
  <2>2. CASE t = "profile"
    <3>1. PICK s \in {"PAGE_FETCHING", "SOURCE_DISCOVERY"} : r = <<"MODE_SELECTION", "select", s>>
      BY <2>2 DEF RoutesOf
    <3> QED  BY <3>1
  <2>3. CASE t = "discover"
    <3>1. r = <<"competitor", "SOURCE_VALIDATION", "PAGE_FETCHING">>
      BY <2>3 DEF RoutesOf
    <3> QED  BY <3>1
  <2>4. CASE t = "refresh"
    <3>1. r = <<"SNAPSHOT_PERSISTENCE", "FACT_EXTRACTION">>
      BY <2>4 DEF RoutesOf
    <3> QED  BY <3>1
  <2>5. CASE t \in {"extract", "skip"} /\ m = "BASELINE"
    <3>1. r = <<"FACT_PERSISTENCE", "establish", "REPORT_GENERATION">>
      BY <2>5 DEF RoutesOf
    <3> QED  BY <3>1
  <2>6. CASE t \in {"extract", "skip"} /\ m # "BASELINE"
    <3>1. r = <<"FACT_PERSISTENCE", "HISTORY_LOOKUP">>
      BY <2>6 DEF RoutesOf
    <3> QED  BY <3>1
  <2>7. CASE t = "history"
    <3>1. r = <<"FACT_COMPARISON">>
      BY <2>7 DEF RoutesOf
    <3> QED  BY <3>1
  <2>8. CASE t = "compare"
    <3>1. r = <<"CHANGE_PERSISTENCE", "REPORT_GENERATION">>
      BY <2>8 DEF RoutesOf
    <3> QED  BY <3>1
  <2>9. CASE t = "report"
    <3>1. r = <<"REPORT_PERSISTENCE", "RUN_SUMMARY">>
      BY <2>9 DEF RoutesOf
    <3> QED  BY <3>1
  <2>10. CASE t = "finalize"
    <3>1. PICK s \in {"COMPLETED", "COMPLETED_WITH_WARNINGS"} : r = <<s, "finish">>
      BY <2>10 DEF RoutesOf, Completed
    <3> QED  BY <3>1
  <2>11. t \in {"status", "profile", "discover", "refresh", "extract", "skip", "history",
                "compare", "report", "finalize"}
    BY DEF RoutesOf
  <2> QED  BY <2>1, <2>2, <2>3, <2>4, <2>5, <2>6, <2>7, <2>8, <2>9, <2>10, <2>11
<1> QED  BY <1>1, <1>2, SeqMonotonic
-----------------------------------------------------------------------------
(* Type correctness *)

\* From the request of a tool to the end of its handling the run holds that call.
HandledCall == pc \in {"record", "execute", "audit", "judge"} =>
                 call \in [tool : Tools, arg : Args]

LEMMA HandledCallStep == ASSUME HandledCall, [Next]_vars PROVE HandledCall'
<1>1. CASE UNCHANGED vars
  BY <1>1 DEF HandledCall, vars, context
<1>2. CASE CreateRun \/ OpenFirstStage \/ Crash
  BY <1>2 DEF HandledCall, CreateRun, OpenFirstStage, Crash
<1>3. CASE Turn
  BY <1>3 DEF HandledCall, Turn, CheckBudgets, ProviderFails, RequestInvalid, RequestTool,
       Reject, RecordCall, Execute, FinishCall, AuditFails, JudgeFailure, PublishPartial,
       RefusePartial
<1>4. CASE MoveOn
  BY <1>4 DEF HandledCall, MoveOn, Advance, Escape, Transition, SelectMode, SaveCompetitor,
       EstablishBaseline, FinishRun, NextTurn, FailRun
<1> QED  BY <1>1, <1>2, <1>3, <1>4 DEF Next, Step

LEMMA InitTyped == Init => TypeOK
BY DEF Init, TypeOK, AgentStates, PassedStates, NoCall

\* The step of one turn of the loop keeps the types.
LEMMA TurnTyped == ASSUME TypeOK, HandledCall, Turn PROVE TypeOK'
<1> USE RunnerAssumption
<1>1. CASE CheckBudgets
  BY <1>1 DEF CheckBudgets, TypeOK, rows
<1>2. CASE ProviderFails \/ AuditFails \/ JudgeFailure \/ RefusePartial
  BY <1>2 DEF ProviderFails, AuditFails, JudgeFailure, RefusePartial, TypeOK, rows
<1>3. CASE RequestInvalid
  BY <1>3 DEF RequestInvalid, TypeOK, rows
<1>4. ASSUME NEW t \in Tools, NEW a \in Args, RequestTool(t, a)
      PROVE  TypeOK'
  <2>1. seen' \in [Tools -> [Args -> Nat]]
    BY <1>4 DEF RequestTool, TypeOK
  <2>2. call' \in [tool : Tools, arg : Args]
    BY <1>4 DEF RequestTool
  <2> QED  BY <1>4, <2>1, <2>2 DEF RequestTool, TypeOK, rows
<1>5. CASE Reject
  <2>1. calls' \in Seq(CallRow)
    BY <1>5, AppendProperties DEF Reject, TypeOK, CallRow
  <2> QED  BY <1>5, <2>1 DEF Reject, TypeOK
<1>6. CASE RecordCall
  <2>1. calls' \in Seq(CallRow)
    BY <1>6, AppendProperties DEF RecordCall, TypeOK, CallRow
  <2> QED  BY <1>6, <2>1 DEF RecordCall, TypeOK
<1>7. CASE Execute
  <2>1. call.tool \in Tools \cup {"establish", "partial"}
    BY <1>7 DEF Execute, HandledCall
  <2>2. effects' \in Seq(Tools \cup {"establish", "partial"})
    BY <1>7, <2>1, AppendProperties DEF Execute, TypeOK
  <2> QED  BY <1>7, <2>2 DEF Execute, TypeOK
<1>8. CASE FinishCall
  <2>1. calls' \in Seq(CallRow)
    BY <1>8, FinishCloses, CloseCalls DEF FinishCall, TypeOK
  <2> QED  BY <1>8, <2>1 DEF FinishCall, TypeOK
<1>9. CASE PublishPartial
  <2>1. calls' \in Seq(CallRow)
    BY <1>9, AppendProperties DEF PublishPartial, TypeOK, CallRow
  <2>2. stages' \in Seq(StageRow)
    BY <1>9, CloseStages DEF PublishPartial, TypeOK
  <2>3. effects' \in Seq(Tools \cup {"establish", "partial"})
    BY <1>9, AppendProperties DEF PublishPartial, TypeOK
  <2>4. "PARTIAL_SUCCESS" \in AgentStates
    BY DEF AgentStates, Terminal
  <2>5. saved' \in Stages
    BY <1>9, <2>4, PersistedTyped DEF PublishPartial
  <2> QED  BY <1>9, <2>1, <2>2, <2>3, <2>4, <2>5 DEF PublishPartial, TypeOK
<1> QED  BY <1>1, <1>2, <1>3, <1>4, <1>5, <1>6, <1>7, <1>8, <1>9 DEF Turn

\* The steps that move a run on keep the types.
LEMMA MoveOnTyped == ASSUME TypeOK, MoveOn PROVE TypeOK'
<1> USE RunnerAssumption
<1>1. CASE Advance
  <2>1. route' \in Seq(RouteStep)
    BY <1>1, RoutesTyped DEF Advance
  <2> QED  BY <1>1, <2>1 DEF Advance, TypeOK, rows
<1>2. CASE Escape \/ NextTurn
  BY <1>2 DEF Escape, NextTurn, TypeOK, rows
<1>3. CASE Transition
  <2>1. CASE Head(route) \in After[state]
    <3>1. Persisted[Head(route)] \in Stages
      BY <1>3, PersistedTyped DEF Transition
    <3>2. Entered(Persisted[Head(route)]) \in StageRow
      BY <3>1, EnteredTyped DEF TypeOK
    <3>3. stages' \in Seq(StageRow)
      <4>1. Close(stages, "SUCCEEDED") \in Seq(StageRow)
        BY CloseStages DEF TypeOK
      <4>2. stages' = Append(Close(stages, "SUCCEEDED"), Entered(Persisted[Head(route)]))
        BY <1>3, <2>1 DEF Transition
      <4> QED  BY <3>2, <4>1, <4>2, AppendProperties
    <3>4. route' \in Seq(RouteStep)
      BY <1>3, <2>1, HeadTailProperties DEF Transition, TypeOK
    <3> QED  BY <1>3, <2>1, <3>1, <3>3, <3>4 DEF Transition, TypeOK
  <2>2. CASE Head(route) \notin After[state]
    BY <1>3, <2>2 DEF Transition, TypeOK
  <2> QED  BY <2>1, <2>2
<1>4. CASE SelectMode
  <2>1. route' \in Seq(RouteStep)
    BY <1>4, HeadTailProperties DEF SelectMode, TypeOK
  <2> QED  BY <1>4, <2>1 DEF SelectMode, TypeOK
<1>8. CASE SaveCompetitor
  <2>1. route' \in Seq(RouteStep)
    BY <1>8, HeadTailProperties DEF SaveCompetitor, TypeOK
  <2> QED  BY <1>8, <2>1 DEF SaveCompetitor, TypeOK, rows
<1>5. CASE EstablishBaseline
  <2>1. route' \in Seq(RouteStep)
    BY <1>5, HeadTailProperties DEF EstablishBaseline, TypeOK
  <2>2. effects' \in Seq(Tools \cup {"establish", "partial"})
    BY <1>5, AppendProperties DEF EstablishBaseline, TypeOK
  <2> QED  BY <1>5, <2>1, <2>2 DEF EstablishBaseline, TypeOK
<1>6. CASE FinishRun
  <2>1. route' \in Seq(RouteStep)
    BY <1>6, HeadTailProperties DEF FinishRun, TypeOK
  <2>2. stages' \in Seq(StageRow)
    BY <1>6, CloseStages DEF FinishRun, TypeOK
  <2>3. saved' \in Stages
    BY <1>6, PersistedTyped DEF FinishRun, TypeOK
  <2> QED  BY <1>6, <2>1, <2>2, <2>3 DEF FinishRun, TypeOK
<1>7. CASE FailRun
  <2>1. [stage |-> "FAILED", attempt |-> 1, status |-> "FAILED"] \in StageRow
    BY FailedIsAStage DEF StageRow
  <2>2. stages' \in Seq(StageRow)
    BY <1>7, <2>1, CloseStages, AppendProperties DEF FailRun, TypeOK
  <2>3. "FAILED" \in AgentStates
    BY DEF AgentStates, Terminal
  <2> QED  BY <1>7, <2>2, <2>3, FailedIsAStage DEF FailRun, TypeOK
<1> QED  BY <1>1, <1>2, <1>3, <1>4, <1>5, <1>6, <1>7, <1>8 DEF MoveOn

LEMMA StartTyped == ASSUME TypeOK, CreateRun \/ OpenFirstStage \/ Crash PROVE TypeOK'
<1>1. CASE CreateRun
  <2>1. saved' \in Stages
    BY <1>1, PersistedTyped DEF CreateRun, AgentStates, PassedStates
  <2> QED  BY <1>1, <2>1 DEF CreateRun, TypeOK
<1>2. CASE OpenFirstStage
  <2>1. Entered(Persisted[state]) \in StageRow
    BY PersistedTyped, EnteredTyped DEF TypeOK
  <2>2. stages' \in Seq(StageRow)
    BY <1>2, <2>1, AppendProperties DEF OpenFirstStage, TypeOK
  <2>3. route' \in Seq(RouteStep)
    BY <1>2 DEF OpenFirstStage, RouteStep, AgentStates, LoopStates
  <2> QED  BY <1>2, <2>2, <2>3 DEF OpenFirstStage, TypeOK
<1>3. CASE Crash
  BY <1>3 DEF Crash, TypeOK, rows
<1> QED  BY <1>1, <1>2, <1>3

\* Every reachable state of a run is well typed.
THEOREM TypeCorrect == Spec => [](TypeOK /\ HandledCall)
<1>1. Init => TypeOK /\ HandledCall
  BY InitTyped DEF Init, HandledCall
<1>2. TypeOK /\ HandledCall /\ [Next]_vars => (TypeOK /\ HandledCall)'
  <2> SUFFICES ASSUME TypeOK, HandledCall, [Next]_vars PROVE TypeOK' /\ HandledCall'
    OBVIOUS
  <2>1. CASE UNCHANGED vars
    BY <2>1 DEF TypeOK, HandledCall, vars, rows, context
  <2>2. CASE Next
    BY <2>2, TurnTyped, MoveOnTyped, StartTyped, HandledCallStep DEF Next, Step
  <2> QED  BY <2>1, <2>2
<1> QED  BY <1>1, <1>2, PTL DEF Spec
-----------------------------------------------------------------------------
(* The budget *)

\* The strengthening of CallsWithinBudget: between charging a call and writing
\* its row the run is one call ahead of the table; otherwise they agree, unless
\* the process was lost in between; and the provider is only asked, and a partial
\* result only published, while a call is left.
ChargedCalls ==
  /\ CallsWithinBudget
  /\ pc \in {"reject", "record"} => count = Len(calls) + 1
  /\ pc \notin {"reject", "record", "crashed"} => count = Len(calls)
  /\ pc = "ask" => count < MaxToolCalls

\* Adding the row of a charged call keeps the numbering without a gap.
LEMMA AppendCharged ==
  ASSUME NEW row \in CallRow, calls \in Seq(CallRow), row.index = Len(calls) + 1,
         \A i \in 1 .. Len(calls) : calls[i].index = i
  PROVE  /\ Len(Append(calls, row)) = Len(calls) + 1
         /\ \A i \in 1 .. Len(calls) + 1 : Append(calls, row)[i].index = i
BY AppendProperties

LEMMA ChargedCallsStep ==
  ASSUME TypeOK, ChargedCalls, [Next]_vars PROVE ChargedCalls'
<1> USE RunnerAssumption
<1> USE DEF ChargedCalls, CallsWithinBudget
<1>0. count \in Nat /\ calls \in Seq(CallRow) /\ Len(calls) \in Nat
  BY DEF TypeOK
<1>1. CASE UNCHANGED vars
  BY <1>1 DEF vars, rows, context
<1>2. CASE CreateRun \/ OpenFirstStage \/ Crash
  BY <1>0, <1>2 DEF CreateRun, OpenFirstStage, Crash, rows, Stopped
<1>3. CASE CheckBudgets
  BY <1>0, <1>3 DEF CheckBudgets, Remaining, rows
<1>4. CASE ProviderFails \/ RequestInvalid
  BY <1>0, <1>4 DEF ProviderFails, RequestInvalid, rows
<1>5. ASSUME NEW t \in Tools, NEW a \in Args, RequestTool(t, a)
      PROVE  ChargedCalls'
  BY <1>0, <1>5 DEF RequestTool, rows
<1>6. CASE Reject \/ RecordCall
  <2>1. PICK st \in {"FAILED", "RUNNING"} : calls' = Append(calls, [index |-> count, status |-> st])
    BY <1>6 DEF Reject, RecordCall
  <2>2. count = Len(calls) + 1
    BY <1>6 DEF Reject, RecordCall
  <2>3. [index |-> count, status |-> st] \in CallRow
    BY <1>0 DEF CallRow
  <2>4. Len(calls') = Len(calls) + 1 /\ \A i \in 1 .. Len(calls) + 1 : calls'[i].index = i
    BY <1>0, <2>1, <2>2, <2>3, AppendCharged
  <2> QED  BY <1>0, <1>6, <2>2, <2>4 DEF Reject, RecordCall
<1>7. CASE FinishCall
  BY <1>0, <1>7, FinishCloses, CloseCalls DEF FinishCall
<1>8. CASE Execute \/ AuditFails \/ JudgeFailure \/ RefusePartial
  BY <1>0, <1>8 DEF Execute, AuditFails, JudgeFailure, RefusePartial, rows
<1>9. CASE PublishPartial
  <2>1. [index |-> count + 1, status |-> "SUCCEEDED"] \in CallRow /\ count = Len(calls)
    BY <1>0, <1>9 DEF PublishPartial, CallRow
  <2>2. count < MaxToolCalls
    BY <1>0, <1>9 DEF PublishPartial, Remaining
  <2>3. Len(calls') = Len(calls) + 1 /\ \A i \in 1 .. Len(calls) + 1 : calls'[i].index = i
    BY <1>0, <1>9, <2>1, AppendCharged DEF PublishPartial
  <2> QED  BY <1>0, <1>9, <2>1, <2>2, <2>3 DEF PublishPartial
<1>10. CASE MoveOn
  BY <1>0, <1>10 DEF MoveOn, Advance, Escape, Transition, SelectMode, SaveCompetitor, EstablishBaseline,
       FinishRun, NextTurn, FailRun, rows
<1> QED  BY <1>1, <1>2, <1>3, <1>4, <1>5, <1>6, <1>7, <1>8, <1>9, <1>10 DEF Next, Step, Turn

\* No run, whatever its provider requests, writes more tool calls than its budget
\* or numbers them with a gap (ck_agent_runs tool_call_count <= max_tool_calls).
THEOREM BudgetSafe == Spec => []CallsWithinBudget
<1>1. Init => ChargedCalls
  BY RunnerAssumption DEF Init, ChargedCalls, CallsWithinBudget
<1>2. TypeOK /\ ChargedCalls /\ [Next]_vars => ChargedCalls'
  BY ChargedCallsStep
<1>3. ChargedCalls => CallsWithinBudget
  BY DEF ChargedCalls
<1> QED  BY <1>1, <1>2, <1>3, TypeCorrect, PTL DEF Spec
-----------------------------------------------------------------------------
(* A terminal row is final *)

\* The row of a run is terminal only once the run has returned.
SettledHasEnded == Settled => pc = "ended"

LEMMA SettledStep ==
  ASSUME SettledHasEnded, [Next]_vars
  PROVE  SettledHasEnded' /\ (Settled => UNCHANGED rows)
<1> USE DEF SettledHasEnded, Settled
<1>1. CASE UNCHANGED vars
  BY <1>1 DEF vars, rows, context
<1>2. CASE CreateRun \/ OpenFirstStage \/ Crash
  BY <1>2 DEF CreateRun, OpenFirstStage, Crash, Stopped, rows
<1>3. CASE Turn
  BY <1>3 DEF Turn, CheckBudgets, ProviderFails, RequestInvalid, RequestTool,
       Reject, RecordCall, Execute, FinishCall, AuditFails, JudgeFailure, PublishPartial,
       RefusePartial, rows
<1>4. CASE MoveOn
  BY <1>4 DEF MoveOn, Advance, Escape, Transition, SelectMode, SaveCompetitor,
       EstablishBaseline, FinishRun, NextTurn, FailRun, rows
<1> QED  BY <1>1, <1>2, <1>3, <1>4 DEF Next, Step

\* Once the row of a run is terminal, no later step of the run, and no second
\* failure, rewrites it or adds a stage, a call or an effect.
THEOREM SettledIsFinal == Spec => SettledRowsAreFinal
<1>1. Init => SettledHasEnded
  BY DEF Init, SettledHasEnded, Settled
<1>2. SettledHasEnded /\ [Next]_vars => SettledHasEnded'
  BY SettledStep
<1>3. SettledHasEnded /\ [Next]_vars => [Settled => UNCHANGED rows]_vars
  BY SettledStep
<1> QED  BY <1>1, <1>2, <1>3, PTL DEF Spec, SettledRowsAreFinal
-----------------------------------------------------------------------------
(* What a client of the run is promised *)

Reported  == \E i \in 1 .. Len(effects) : effects[i] = "report"
Partial   == \E i \in 1 .. Len(effects) : effects[i] = "partial"
Late      == {"REPORT_PERSISTENCE", "RUN_SUMMARY"} \cup Terminal
Over      == {"failing", "ended", "escaped", "crashed"}
ReportWay == <<"REPORT_PERSISTENCE", "RUN_SUMMARY">>

\* The row is RUNNING while the run goes on, and a call that is handled was allowed.
Controlled ==
  /\ pc = "start" => status = "absent"
  /\ pc \notin {"start", "ended", "escaped", "crashed"} => status = "RUNNING"
  /\ pc \in {"record", "execute", "audit", "judge"} => call.tool \in Allowed(state)
  /\ pc \in {"audit", "judge"} /\ result = "partial" => call.tool = "extract"

\* The states behind the report, and the steps that lead to them, have a report behind
\* them; and with a report a run is in one of these states, or on its way there.
ReportBehind ==
  /\ pc \in {"audit", "judge"} /\ result = "ok" /\ call.tool = "report" => Reported
  /\ \A i \in 1 .. Len(route) : route[i] \in {"REPORT_PERSISTENCE", "finish"} => Reported
  /\ state \in {"REPORT_PERSISTENCE", "RUN_SUMMARY"} => Reported
  /\ Reported /\ pc \notin Over =>
       \/ state \in Late
       \/ pc \in {"audit", "judge"} /\ result = "ok" /\ call.tool = "report"
       \/ pc = "follow" /\ route = ReportWay
  /\ Partial => pc \in Over

\* The state machine behind the report (ALLOWED_TRANSITIONS and TOOL_DEFINITIONS).
LEMMA AfterReport ==
  /\ \A s \in Late : \A t \in After[s] : t \in Late
  /\ \A s \in AgentStates : "RUN_SUMMARY" \in After[s] => s = "REPORT_PERSISTENCE"
  /\ \A s : "report" \in Allowed(s) => s \notin Late
  /\ \A s : "finalize" \in Allowed(s) => s = "RUN_SUMMARY"
  /\ \A s : "extract" \in Allowed(s) => s \notin Late
<1> USE DEF Late, Terminal, Completed, AgentStates, LoopStates, PassedStates
<1>1. \A s \in Late : \A t \in After[s] : t \in Late
  BY DEF After
<1>2. \A s \in AgentStates : "RUN_SUMMARY" \in After[s] => s = "REPORT_PERSISTENCE"
  BY DEF After
<1>3. \A s : "report" \in Allowed(s) => s \notin Late
  BY DEF Allowed
<1>4. \A s : "finalize" \in Allowed(s) => s = "RUN_SUMMARY"
  BY DEF Allowed
<1>5. \A s : "extract" \in Allowed(s) => s \notin Late
  BY DEF Allowed
<1> QED  BY <1>1, <1>2, <1>3, <1>4, <1>5

\* Only a report leads to its persistence, only finalize finishes the run.
LEMMA RoutesReport ==
  ASSUME NEW t, NEW m, NEW r \in RoutesOf(t, m), NEW i \in 1 .. Len(r)
  PROVE  /\ r[i] = "REPORT_PERSISTENCE" => t = "report"
         /\ r[i] = "finish" => t = "finalize"
<1>1. CASE t = "status"
  BY <1>1 DEF RoutesOf
<1>2. CASE t = "profile"
  <2>1. PICK s \in {"PAGE_FETCHING", "SOURCE_DISCOVERY"} : r = <<"MODE_SELECTION", "select", s>>
    BY <1>2 DEF RoutesOf
  <2> QED  BY <2>1
<1>3. CASE t = "discover" \/ t = "refresh"
  <2>1. r \in {<<"competitor", "SOURCE_VALIDATION", "PAGE_FETCHING">>,
                <<"SNAPSHOT_PERSISTENCE", "FACT_EXTRACTION">>}
    BY <1>3 DEF RoutesOf
  <2> QED  BY <2>1
<1>4. CASE t \in {"extract", "skip"}
  <2>1. r \in {<<"FACT_PERSISTENCE", "establish", "REPORT_GENERATION">>, <<"FACT_PERSISTENCE", "HISTORY_LOOKUP">>}
    BY <1>4 DEF RoutesOf
  <2> QED  BY <2>1
<1>5. CASE t \in {"history", "compare"}
  <2>1. r \in {<<"FACT_COMPARISON">>, <<"CHANGE_PERSISTENCE", "REPORT_GENERATION">>}
    BY <1>5 DEF RoutesOf
  <2> QED  BY <2>1
<1>6. CASE t = "report"
  <2>1. r = <<"REPORT_PERSISTENCE", "RUN_SUMMARY">>
    BY <1>6 DEF RoutesOf
  <2> QED  BY <1>6, <2>1
<1>7. CASE t = "finalize"
  <2>1. PICK s \in {"COMPLETED", "COMPLETED_WITH_WARNINGS"} : r = <<s, "finish">>
    BY <1>7 DEF RoutesOf, Completed
  <2> QED  BY <1>7, <2>1
<1>8. t \in {"status", "profile", "discover", "refresh", "extract", "skip", "history",
             "compare", "report", "finalize"}
  BY DEF RoutesOf
<1> QED  BY <1>1, <1>2, <1>3, <1>4, <1>5, <1>6, <1>7, <1>8

LEMMA ControlledStep == ASSUME Controlled, [Next]_vars PROVE Controlled'
<1> USE DEF Controlled
<1>1. CASE UNCHANGED vars
  BY <1>1 DEF vars, rows, context
<1>2. CASE CreateRun \/ OpenFirstStage \/ Crash
  BY <1>2 DEF CreateRun, OpenFirstStage, Crash, Stopped, rows
<1>3. CASE Turn
  BY <1>3 DEF Turn, CheckBudgets, ProviderFails, RequestInvalid, RequestTool, Reject, RecordCall,
       Execute, FinishCall, AuditFails, JudgeFailure, PublishPartial, RefusePartial, rows
<1>4. CASE MoveOn
  BY <1>4 DEF MoveOn, Advance, Escape, Transition, SelectMode, SaveCompetitor,
       EstablishBaseline, FinishRun, NextTurn, FailRun, rows
<1> QED  BY <1>1, <1>2, <1>3, <1>4 DEF Next, Step

\* What a new effect adds to those before it.
LEMMA NewEffect ==
  ASSUME TypeOK, NEW e \in Tools \cup {"establish", "partial"}, effects' = Append(effects, e)
  PROVE  /\ Reported' <=> Reported \/ e = "report"
         /\ Partial' <=> Partial \/ e = "partial"
<1>1. effects \in Seq(Tools \cup {"establish", "partial"})
  BY DEF TypeOK
<1>2. /\ Len(effects') = Len(effects) + 1 /\ Len(effects) \in Nat
      /\ \A i \in 1 .. Len(effects) : effects'[i] = effects[i]
      /\ effects'[Len(effects) + 1] = e
  BY <1>1, AppendProperties
<1>3. 1 .. Len(effects') = (1 .. Len(effects)) \cup {Len(effects) + 1}
  BY <1>2
<1> QED  BY <1>2, <1>3 DEF Reported, Partial

\* A step that adds no effect, stays in its state and its route, and goes on or ends.
LEMMA QuietReport ==
  ASSUME ReportBehind, UNCHANGED <<effects, state, route>>,
         pc' \in {"audit", "judge"} => pc \in {"audit", "judge"} /\ UNCHANGED <<call, result>>,
         pc \in Over => pc' \in Over,
         pc' \in Over \/ (pc \notin {"audit", "judge"} /\ ~(pc = "follow" /\ route = ReportWay))
                      \/ (pc \in {"audit", "judge"} /\ pc' \in {"audit", "judge"})
                      \/ (pc \in {"audit", "judge"} /\ result # "ok" /\ route # ReportWay)
                      \/ (pc = "judge" /\ result # "ok")
  PROVE  ReportBehind'
<1>1. Reported' = Reported /\ Partial' = Partial
  BY DEF Reported, Partial
<1> QED  BY <1>1 DEF ReportBehind, Over

LEMMA ReportBehindStep ==
  ASSUME TypeOK, HandledCall, Controlled, ReportBehind, [Next]_vars
  PROVE  ReportBehind'
<1> USE DEF Over
<1>1. CASE UNCHANGED vars
  BY <1>1 DEF vars, rows, context, ReportBehind, Reported, Partial
<1>2. CASE CreateRun \/ OpenFirstStage \/ Crash
  <2>1. CASE CreateRun \/ Crash
    <3>1. UNCHANGED <<effects, state, route, call, result>> /\ pc' \notin {"audit", "judge"}
      BY <2>1 DEF CreateRun, Crash, rows
    <3>2. pc = "start" \/ pc' = "crashed"
      BY <2>1 DEF CreateRun, Crash
    <3> QED  BY <2>1, <3>1, <3>2, QuietReport DEF CreateRun
  <2>2. CASE OpenFirstStage
    <3>1. UNCHANGED <<effects, state>> /\ pc = "created" /\ pc' = "follow" /\ route' = <<"PROFILE_LOOKUP">>
      BY <2>2 DEF OpenFirstStage
    <3>2. Reported' = Reported /\ Partial' = Partial
      BY <3>1 DEF Reported, Partial
    <3> QED  BY <3>1, <3>2 DEF ReportBehind
  <2> QED  BY <1>2, <2>1, <2>2
<1>3. CASE CheckBudgets \/ ProviderFails \/ RequestInvalid \/ Reject \/ RecordCall
             \/ (\E t \in Tools, a \in Args : RequestTool(t, a))
  <2>1. /\ UNCHANGED <<effects, state, route>>
        /\ pc \in {"loop", "ask", "reject", "record"}
        /\ pc' \in {"failing", "ask", "reject", "record", "execute"}
    BY <1>3 DEF CheckBudgets, ProviderFails, RequestInvalid, Reject, RecordCall, RequestTool, rows
  <2> QED  BY <2>1, QuietReport
<1>4. CASE FinishCall \/ AuditFails \/ JudgeFailure \/ RefusePartial
  <2>1. /\ UNCHANGED <<effects, state, route, call, result>>
        /\ pc \in {"audit", "judge"}
        /\ pc' \in {"judge", "failing"} \/ (pc = "judge" /\ result # "ok" /\ pc' = "loop")
    BY <1>4 DEF FinishCall, AuditFails, JudgeFailure, RefusePartial, rows
  <2> QED  BY <2>1, QuietReport
<1>5. CASE Execute
  <2>0. /\ pc = "execute" /\ pc' = "audit" /\ UNCHANGED <<state, call, route>>
        /\ call.tool \in Tools /\ call.tool \in Allowed(state)
    BY <1>5 DEF Execute, HandledCall, Controlled
  <2>1. CASE UNCHANGED effects
    <3>1. Reported' = Reported /\ Partial' = Partial
      BY <2>1 DEF Reported, Partial
    <3>2. ~(result' = "ok" /\ call'.tool = "report")
      <4> SUFFICES ASSUME result' = "ok", call.tool = "report" PROVE FALSE
        BY <2>0
      <4>1. effects' = Append(effects, "report")
        BY <1>5 DEF Execute, Queries
      <4>2. Len(effects') = Len(effects) + 1 /\ Len(effects) \in Nat
        BY <4>1, AppendProperties DEF TypeOK, Tools
      <4> QED  BY <2>1, <4>2
    <3> QED  BY <2>0, <3>1, <3>2 DEF ReportBehind
  <2>2. CASE effects' = Append(effects, call.tool) /\ result' \in {"ok", "partial"}
    <3>1. (Reported' <=> Reported \/ call.tool = "report") /\ (Partial' <=> Partial \/ call.tool = "partial")
      BY <2>0, <2>2, NewEffect
    <3>2. call.tool # "partial"
      BY <2>0 DEF Tools
    <3>3. call.tool = "report" => result' = "ok"
      BY <1>5, <2>2 DEF Execute
    <3>4. Reported => state \in Late
      BY <2>0 DEF ReportBehind
    <3> QED  BY <2>0, <3>1, <3>2, <3>3, <3>4 DEF ReportBehind
  <2> QED  BY <1>5, <2>1, <2>2 DEF Execute
<1>6. CASE PublishPartial
  <2>1. /\ effects' = Append(effects, "partial") /\ pc' = "ended" /\ state' = "PARTIAL_SUCCESS" /\ route' = route
    BY <1>6 DEF PublishPartial
  <2>2. Reported' <=> Reported
    BY <2>1, NewEffect
  <2> QED  BY <2>1, <2>2 DEF ReportBehind
<1>7. CASE Advance
  <2>0. /\ UNCHANGED <<effects, state, call, result>> /\ pc = "judge" /\ result = "ok" /\ pc' = "follow"
        /\ route' \in RoutesOf(call.tool, mode') /\ call.tool \in Allowed(state)
    BY <1>7 DEF Advance, rows, Controlled
  <2>1. Reported' = Reported /\ Partial' = Partial
    BY <2>0 DEF Reported, Partial
  <2>2. ASSUME NEW i \in 1 .. Len(route'), route'[i] \in {"REPORT_PERSISTENCE", "finish"}
        PROVE  Reported
    <3>1. call.tool = "report" \/ call.tool = "finalize"
      BY <2>0, <2>2, RoutesReport
    <3>2. call.tool = "finalize" => state = "RUN_SUMMARY"
      BY <2>0, AfterReport
    <3> QED  BY <2>0, <3>1, <3>2 DEF ReportBehind
  <2>3. call.tool = "report" => route' = ReportWay
    BY <2>0 DEF RoutesOf, ReportWay
  <2> QED  BY <2>0, <2>1, <2>2, <2>3 DEF ReportBehind
<1>8. CASE Transition \/ SelectMode \/ SaveCompetitor
  <2>0. /\ UNCHANGED <<effects, call, result>> /\ pc = "follow" /\ pc' \in {"follow", "escaped"}
        /\ route # <<>> /\ route \in Seq(RouteStep)
    BY <1>8 DEF Transition, SelectMode, SaveCompetitor, rows, TypeOK
  <2>1. Reported' = Reported /\ Partial' = Partial
    BY <2>0 DEF Reported, Partial
  <2>2. Head(route) = route[1] /\ 1 \in 1 .. Len(route)
    BY <2>0
  <2>3. CASE pc' = "escaped"
    <3>1. UNCHANGED <<state, route>>
      BY <1>8, <2>3, <2>0 DEF Transition, SelectMode, SaveCompetitor, rows
    <3> QED  BY <2>0, <2>3, <3>1, QuietReport
  <2>4. CASE route' = Tail(route) /\ pc' = "follow"
    <3>1. \A i \in 1 .. Len(route') : i + 1 \in 1 .. Len(route) /\ route'[i] = route[i + 1]
      BY <2>0, <2>4
    <3>2. \A i \in 1 .. Len(route') : route'[i] \in {"REPORT_PERSISTENCE", "finish"} => Reported
      BY <3>1 DEF ReportBehind
    <3>3. CASE SelectMode \/ SaveCompetitor
      <4>1. state' = state /\ Head(route) \in {"select", "competitor"}
        BY <3>3 DEF SelectMode, SaveCompetitor
      <4>2. route # ReportWay
        BY <4>1, <2>2 DEF ReportWay
      <4> QED  BY <2>0, <2>1, <2>4, <3>2, <4>1, <4>2 DEF ReportBehind
    <3>4. CASE Transition
      <4>1. state' = Head(route) /\ Head(route) \in After[state] /\ Head(route) \in AgentStates
        BY <3>4, <2>4 DEF Transition
      <4>2. state' \in {"REPORT_PERSISTENCE", "RUN_SUMMARY"} => Reported
        BY <2>2, <4>1, AfterReport DEF ReportBehind, TypeOK
      <4>3. Reported => state' \in Late
        <5>1. CASE state \in Late
          BY <4>1, <5>1, AfterReport
        <5>2. CASE route = ReportWay
          BY <2>2, <4>1, <5>2 DEF ReportWay, Late
        <5> QED  BY <2>0, <5>1, <5>2 DEF ReportBehind
      <4> QED  BY <2>0, <2>1, <2>4, <3>2, <4>2, <4>3 DEF ReportBehind
    <3> QED  BY <1>8, <3>3, <3>4
  <2> QED  BY <1>8, <2>0, <2>3, <2>4 DEF Transition, SelectMode, SaveCompetitor
<1>9. CASE EstablishBaseline \/ FinishRun
  <2>0. /\ pc = "follow" /\ route # <<>> /\ route \in Seq(RouteStep) /\ Head(route) \in {"establish", "finish"}
        /\ route' = Tail(route) /\ state' = state /\ pc' \in {"follow", "ended"}
    BY <1>9 DEF EstablishBaseline, FinishRun, TypeOK
  <2>1. (Reported' <=> Reported) /\ (Partial' <=> Partial)
    <3>1. CASE FinishRun
      BY <3>1 DEF FinishRun, Reported, Partial
    <3>2. CASE EstablishBaseline
      BY <3>2, NewEffect DEF EstablishBaseline
    <3> QED  BY <1>9, <3>1, <3>2
  <2>2. \A i \in 1 .. Len(route') : i + 1 \in 1 .. Len(route) /\ route'[i] = route[i + 1]
    BY <2>0
  <2>3. \A i \in 1 .. Len(route') : route'[i] \in {"REPORT_PERSISTENCE", "finish"} => Reported
    BY <2>2 DEF ReportBehind
  <2>4. route # ReportWay
    BY <2>0 DEF ReportWay
  <2> QED  BY <2>0, <2>1, <2>3, <2>4 DEF ReportBehind
<1>10. CASE Escape \/ NextTurn
  <2>1. UNCHANGED <<effects, state, route>> /\ pc' \in {"escaped", "loop"}
    BY <1>10 DEF Escape, NextTurn, rows
  <2>2. pc' = "escaped" \/ (pc = "follow" /\ route # ReportWay)
    BY <1>10 DEF Escape, NextTurn, ReportWay
  <2> QED  BY <2>1, <2>2, QuietReport
<1>11. CASE FailRun
  <2>1. UNCHANGED <<effects, route>> /\ pc' = "ended" /\ state' = "FAILED"
    BY <1>11 DEF FailRun
  <2>2. Reported' = Reported /\ Partial' = Partial
    BY <2>1 DEF Reported, Partial
  <2> QED  BY <2>1, <2>2 DEF ReportBehind
<1> QED  BY <1>1, <1>2, <1>3, <1>4, <1>5, <1>6, <1>7, <1>8, <1>9, <1>10, <1>11 DEF Next, Step, Turn, MoveOn

RunInv == TypeOK /\ HandledCall /\ ChargedCalls /\ Controlled /\ ReportBehind

\* Steps that a client of the run does not see.
LEMMA Unseen ==
  ASSUME UNCHANGED <<status, effects>>, Len(calls') = Len(calls)
  PROVE  UNCHANGED Lifecycle!lifecycleVars
BY DEF Lifecycle!lifecycleVars, ReportOf

\* Every step of a run is a step of its lifecycle, or unseen.
LEMMA LifecycleStep ==
  ASSUME RunInv, [Next]_vars
  PROVE  [Lifecycle!Next]_(Lifecycle!lifecycleVars)
<1> USE DEF RunInv
<1>0. count \in Nat /\ calls \in Seq(CallRow) /\ Len(calls) \in Nat /\ MaxToolCalls \in Nat
  BY RunnerAssumption DEF TypeOK
<1>1. CASE UNCHANGED vars
  BY <1>1, Unseen DEF vars, rows
<1>2. CASE CreateRun
  <2>1. status = "absent" /\ status' = "RUNNING" /\ UNCHANGED <<calls, effects>>
    BY <1>2 DEF CreateRun, Controlled
  <2> QED  BY <2>1 DEF Lifecycle!Next, Lifecycle!Begin, ReportOf
<1>3. CASE OpenFirstStage \/ Crash \/ CheckBudgets \/ ProviderFails \/ RequestInvalid
             \/ (\E t \in Tools, a \in Args : RequestTool(t, a))
             \/ AuditFails \/ JudgeFailure \/ RefusePartial
             \/ Advance \/ Escape \/ Transition \/ SelectMode \/ SaveCompetitor \/ NextTurn
  <2>1. UNCHANGED <<status, effects, calls>>
    BY <1>3 DEF OpenFirstStage, Crash, CheckBudgets, ProviderFails, RequestInvalid, RequestTool,
                AuditFails, JudgeFailure, RefusePartial, Advance, Escape, Transition, SelectMode, SaveCompetitor,
                NextTurn, rows
  <2> QED  BY <2>1, Unseen
<1>4. CASE Reject \/ RecordCall
  <2>1. PICK st \in {"FAILED", "RUNNING"} : calls' = Append(calls, [index |-> count, status |-> st])
    BY <1>4 DEF Reject, RecordCall
  <2>2. [index |-> count, status |-> st] \in CallRow
    BY <1>0 DEF CallRow
  <2>3. Len(calls') = Len(calls) + 1
    BY <1>0, <2>1, <2>2, AppendProperties
  <2>4. Len(calls) < MaxToolCalls /\ status = "RUNNING" /\ UNCHANGED <<status, effects>>
    BY <1>0, <1>4 DEF Reject, RecordCall, ChargedCalls, CallsWithinBudget, Controlled
  <2> QED  BY <2>3, <2>4 DEF Lifecycle!Next, Lifecycle!Charge, ReportOf
<1>5. CASE Execute
  <2>0. /\ pc = "execute" /\ status = "RUNNING" /\ UNCHANGED <<status, calls>>
        /\ call.tool \in Tools /\ call.tool \in Allowed(state)
    BY <1>5 DEF Execute, HandledCall, Controlled
  <2>1. CASE UNCHANGED effects
    BY <2>0, <2>1, Unseen
  <2>2. CASE effects' = Append(effects, call.tool)
    <3>1. (Reported' <=> Reported \/ call.tool = "report") /\ (Partial' <=> Partial \/ call.tool = "partial")
      BY <2>0, <2>2, NewEffect
    <3>2. call.tool # "partial" /\ ~Partial
      BY <2>0 DEF Tools, ReportBehind, Over
    <3>3. CASE call.tool = "report"
      <4>1. ~Reported
        BY <2>0, <3>3, AfterReport DEF ReportBehind, Over
      <4>2. ReportOf = "none" /\ ReportOf' = "formal"
        BY <3>1, <3>2, <3>3, <4>1 DEF ReportOf, Reported, Partial
      <4> QED  BY <2>0, <4>2 DEF Lifecycle!Next, Lifecycle!PublishFormal
    <3>4. CASE call.tool # "report"
      <4>1. ReportOf' = ReportOf
        BY <3>1, <3>2, <3>4 DEF ReportOf, Reported, Partial
      <4> QED  BY <2>0, <4>1 DEF Lifecycle!lifecycleVars
    <3> QED  BY <3>3, <3>4
  <2> QED  BY <1>5, <2>1, <2>2 DEF Execute
<1>6. CASE FinishCall
  <2>1. Len(calls') = Len(calls) /\ UNCHANGED <<status, effects>>
    BY <1>0, <1>6, FinishCloses, CloseCalls DEF FinishCall
  <2> QED  BY <2>1, Unseen
<1>7. CASE PublishPartial
  <2>1. /\ pc = "judge" /\ status = "RUNNING" /\ status' = "PARTIAL_SUCCESS"
        /\ call.tool = "extract" /\ call.tool \in Allowed(state)
    BY <1>7 DEF PublishPartial, Controlled
  <2>2. [index |-> count + 1, status |-> "SUCCEEDED"] \in CallRow
    BY <1>0 DEF CallRow
  <2>3. Len(calls') = Len(calls) + 1
    BY <1>0, <1>7, <2>2, AppendProperties DEF PublishPartial
  <2>4. Len(calls) < MaxToolCalls
    BY <1>0, <1>7, <2>1 DEF PublishPartial, Remaining, ChargedCalls, CallsWithinBudget
  <2>5. ~Reported /\ ~Partial
    <3>1. state \notin Late /\ pc \notin Over
      BY <2>1, AfterReport DEF Over
    <3> QED  BY <1>7, <2>1, <3>1 DEF ReportBehind, PublishPartial
  <2>6. ~Reported' /\ Partial'
    BY <1>7, <2>5, NewEffect DEF PublishPartial
  <2>7. ReportOf = "none" /\ ReportOf' = "partial"
    BY <2>5, <2>6 DEF ReportOf, Reported, Partial
  <2> QED  BY <2>1, <2>3, <2>4, <2>7 DEF Lifecycle!Next, Lifecycle!PublishPartial
<1>8. CASE EstablishBaseline
  <2>1. (Reported' <=> Reported) /\ (Partial' <=> Partial)
    BY <1>8, NewEffect DEF EstablishBaseline
  <2>2. ReportOf' = ReportOf
    BY <2>1 DEF ReportOf, Reported, Partial
  <2> QED  BY <1>8, <2>2 DEF EstablishBaseline, Lifecycle!lifecycleVars
<1>9. CASE FinishRun
  <2>1. /\ pc = "follow" /\ route \in Seq(RouteStep) /\ route # <<>> /\ Head(route) = "finish"
        /\ status' = "COMPLETED" /\ UNCHANGED <<calls, effects>>
    BY <1>9 DEF FinishRun, TypeOK
  <2>2. status = "RUNNING"
    BY <2>1 DEF Controlled
  <2>3. Head(route) = route[1] /\ 1 \in 1 .. Len(route)
    BY <2>1
  <2>4. Reported
    BY <2>1, <2>3 DEF ReportBehind
  <2>5. ReportOf = "formal" /\ ReportOf' = ReportOf
    BY <2>1, <2>4 DEF ReportOf, Reported
  <2> QED  BY <2>1, <2>2, <2>5 DEF Lifecycle!Next, Lifecycle!Complete
<1>10. CASE FailRun
  <2>1. status = "RUNNING" /\ status' = "FAILED" /\ UNCHANGED <<calls, effects>>
    BY <1>10 DEF FailRun, Controlled
  <2> QED  BY <2>1 DEF Lifecycle!Next, Lifecycle!Fail, ReportOf
<1> QED  BY <1>1, <1>2, <1>3, <1>4, <1>5, <1>6, <1>7, <1>8, <1>9, <1>10 DEF Next, Step, Turn, MoveOn

\* A run implements the lifecycle that other runs and the pages rely on, with any provider,
\* budget and set of tools: its report is published once, and it completes with one only.
THEOREM Implements == Spec => ImplementsLifecycle
<1>1. Init => RunInv /\ Lifecycle!Init
  BY InitTyped, RunnerAssumption
  DEF Init, RunInv, HandledCall, ChargedCalls, CallsWithinBudget, Controlled, ReportBehind, Reported,
      Partial, Lifecycle!Init, ReportOf
<1>2. RunInv /\ [Next]_vars => RunInv'
  <2> SUFFICES ASSUME RunInv, [Next]_vars PROVE RunInv'
    OBVIOUS
  <2>1. TypeOK' /\ HandledCall'
    <3>1. CASE UNCHANGED vars
      BY <3>1 DEF RunInv, TypeOK, HandledCall, vars, rows, context
    <3>2. CASE Next
      BY <3>2, TurnTyped, MoveOnTyped, StartTyped, HandledCallStep DEF RunInv, Next, Step
    <3> QED  BY <3>1, <3>2
  <2> QED  BY <2>1, ChargedCallsStep, ControlledStep, ReportBehindStep DEF RunInv
<1>3. RunInv /\ [Next]_vars => [Lifecycle!Next]_(Lifecycle!lifecycleVars)
  BY LifecycleStep
<1> QED  BY <1>1, <1>2, <1>3, PTL DEF Spec, ImplementsLifecycle, Lifecycle!Spec
-----------------------------------------------------------------------------
(* Open rows belong to running runs *)

\* Closing the last row leaves the key of every row and the status of all others alone.
Like(seq, row) == Len(row) = Len(seq) /\ \A i \in 1 .. Len(seq) :
                    row[i].stage = seq[i].stage /\ row[i].attempt = seq[i].attempt

LEMMA ClosedStages ==
  ASSUME NEW seq \in Seq(StageRow), NEW st \in {"ENTERED", "SUCCEEDED", "FAILED"}
  PROVE  /\ Close(seq, st) \in Seq(StageRow) /\ Like(seq, Close(seq, st))
         /\ \A i \in 1 .. Len(seq) :
              Close(seq, st)[i].status = IF i = Len(seq) THEN st ELSE seq[i].status
<1>1. CASE seq = <<>>
  BY <1>1 DEF Close, Like
<1>2. CASE seq # <<>>
  <2>1. Len(seq) \in 1 .. Len(seq)
    BY <1>2, EmptySeq
  <2> DEFINE e == [seq[Len(seq)] EXCEPT !.status = st]
  <2>2. /\ e \in StageRow /\ e.status = st
        /\ e.stage = seq[Len(seq)].stage /\ e.attempt = seq[Len(seq)].attempt
    <3>1. seq[Len(seq)] \in StageRow
      BY <2>1, ElementOfSeq
    <3> QED  BY <3>1 DEF StageRow
  <2>3. Close(seq, st) = [seq EXCEPT ![Len(seq)] = e]
    BY <1>2, <2>1 DEF Close
  <2>4. /\ [seq EXCEPT ![Len(seq)] = e] \in Seq(StageRow)
        /\ Len([seq EXCEPT ![Len(seq)] = e]) = Len(seq)
        /\ \A j \in 1 .. Len(seq) :
             [seq EXCEPT ![Len(seq)] = e][j] = IF j = Len(seq) THEN e ELSE seq[j]
    BY <2>1, <2>2, ExceptSeq
  <2> HIDE DEF e
  <2> QED  BY <2>2, <2>3, <2>4 DEF Like
<1> QED  BY <1>1, <1>2

LEMMA ClosedCalls ==
  ASSUME NEW seq \in Seq(CallRow), NEW st \in {"RUNNING", "SUCCEEDED", "FAILED"}
  PROVE  \A i \in 1 .. Len(seq) :
           Close(seq, st)[i].status = IF i = Len(seq) THEN st ELSE seq[i].status
<1>1. CASE seq = <<>>
  BY <1>1 DEF Close
<1>2. CASE seq # <<>>
  <2>1. Len(seq) \in 1 .. Len(seq)
    BY <1>2, EmptySeq
  <2> DEFINE e == [seq[Len(seq)] EXCEPT !.status = st]
  <2>2. e \in CallRow /\ e.status = st
    <3>1. seq[Len(seq)] \in CallRow
      BY <2>1, ElementOfSeq
    <3> QED  BY <3>1 DEF CallRow
  <2>3. Close(seq, st) = [seq EXCEPT ![Len(seq)] = e]
    BY <1>2, <2>1 DEF Close
  <2>4. \A j \in 1 .. Len(seq) :
          [seq EXCEPT ![Len(seq)] = e][j] = IF j = Len(seq) THEN e ELSE seq[j]
    BY <2>1, <2>2, ExceptSeq
  <2> HIDE DEF e
  <2> QED  BY <2>2, <2>3, <2>4
<1> QED  BY <1>1, <1>2

\* The attempt of a row is no larger than the number of rows of its stage, so the
\* next one is new.
Numbered ==
  /\ \A i \in 1 .. Len(stages) :
       stages[i].attempt <= 10 /\ stages[i].attempt <= Attempts(stages[i].stage)
  /\ \A i, j \in 1 .. Len(stages) :
       i # j => <<stages[i].stage, stages[i].attempt>> # <<stages[j].stage, stages[j].attempt>>

RowsOf(st) == {i \in 1 .. Len(stages) : stages[i].stage = st}

LEMMA AttemptsCounted ==
  ASSUME TypeOK, NEW st
  PROVE  /\ IsFiniteSet(RowsOf(st)) /\ Attempts(st) = Cardinality(RowsOf(st)) /\ Attempts(st) \in Nat
         /\ (\A i \in 1 .. Len(stages) : stages[i].stage # st) => Attempts(st) = 0
<1>1. IsFiniteSet(1 .. Len(stages))
  BY FS_Interval DEF TypeOK
<1>2. IsFiniteSet(RowsOf(st))
  BY <1>1, FS_Subset DEF RowsOf
<1>3. Cardinality(RowsOf(st)) \in Nat
  BY <1>2, FS_CardinalityType
<1>4. (\A i \in 1 .. Len(stages) : stages[i].stage # st) => RowsOf(st) = {}
  BY DEF RowsOf
<1>5. Attempts(st) = Cardinality(RowsOf(st))
  BY DEF Attempts, RowsOf
<1>6. Cardinality({}) = 0
  BY FS_EmptySet
<1> QED  BY <1>2, <1>3, <1>4, <1>5, <1>6

LEMMA RowsLike ==
  ASSUME Numbered, Like(stages, stages')
  PROVE  Numbered' /\ \A st : Attempts(st)' = Attempts(st)
<1>1. \A st : Attempts(st)' = Attempts(st)
  <2> SUFFICES ASSUME NEW st PROVE Attempts(st)' = Attempts(st)
    OBVIOUS
  <2>1. {i \in 1 .. Len(stages') : stages'[i].stage = st} = {i \in 1 .. Len(stages) : stages[i].stage = st}
    BY DEF Like
  <2> QED  BY <2>1 DEF Attempts
<1> QED  BY <1>1 DEF Numbered, Like

LEMMA RowAdded ==
  ASSUME TypeOK, Numbered, NEW before \in Seq(StageRow), Like(stages, before),
         NEW row \in StageRow, stages' = Append(before, row),
         row.attempt = Attempts(row.stage) + 1, row.attempt <= 10
  PROVE  /\ Numbered'
         /\ \A st : Attempts(st)' = IF st = row.stage THEN Attempts(st) + 1 ELSE Attempts(st)
<1> DEFINE n == Len(stages)
<1>1. /\ n \in Nat /\ Len(stages') = n + 1 /\ stages'[n + 1] = row
      /\ \A i \in 1 .. n : stages'[i].stage = stages[i].stage /\ stages'[i].attempt = stages[i].attempt
  BY AppendProperties DEF Like, TypeOK
<1>2. ASSUME NEW st
      PROVE  Attempts(st)' = IF st = row.stage THEN Attempts(st) + 1 ELSE Attempts(st)
  <2> DEFINE R == RowsOf(st)
             T == {i \in 1 .. Len(stages') : stages'[i].stage = st}
  <2>1. IsFiniteSet(R) /\ Attempts(st) = Cardinality(R)
    BY AttemptsCounted
  <2>2. T = IF st = row.stage THEN R \cup {n + 1} ELSE R
    BY <1>1 DEF RowsOf
  <2>3. n + 1 \notin R
    BY <1>1 DEF RowsOf
  <2>4. Attempts(st)' = Cardinality(T)
    BY DEF Attempts
  <2> HIDE DEF R, T
  <2>5. Cardinality(R \cup {n + 1}) = IF n + 1 \in R THEN Cardinality(R) ELSE Cardinality(R) + 1
    BY <2>1, FS_AddElement
  <2> QED  BY <2>1, <2>2, <2>3, <2>4, <2>5
<1>3. \A i \in 1 .. n : stages[i].attempt \in Nat /\ Attempts(stages[i].stage) \in Nat
  <2>1. \A i \in 1 .. n : stages[i] \in StageRow
    BY ElementOfSeq DEF TypeOK
  <2>2. \A st : Attempts(st) \in Nat
    BY AttemptsCounted
  <2> QED  BY <2>1, <2>2 DEF StageRow
<1>4. Attempts(row.stage) \in Nat
  BY AttemptsCounted
<1>5. \A i \in 1 .. n + 1 : i \in 1 .. n \/ i = n + 1
  BY <1>1
<1>6. \A i \in 1 .. n : stages[i].stage = row.stage => stages[i].attempt < row.attempt
  BY <1>3, <1>4 DEF Numbered
<1> HIDE DEF n
<1>7. ASSUME NEW i \in 1 .. n + 1
      PROVE  (stages[i].attempt <= 10 /\ stages[i].attempt <= Attempts(stages[i].stage))'
  <2>1. PICK st : st = stages'[i].stage
    OBVIOUS
  <2>2. stages'[i].attempt <= Attempts(st)' /\ stages'[i].attempt <= 10
    <3>1. CASE i \in 1 .. n
      <4>1. stages[i].attempt <= Attempts(st) /\ stages[i].attempt <= 10
        BY <1>1, <2>1, <3>1 DEF Numbered, n
      <4> QED  BY <1>1, <1>2, <1>3, <2>1, <3>1, <4>1
    <3>2. CASE i = n + 1
      BY <1>1, <1>2, <1>4, <2>1, <3>2
    <3> QED  BY <1>5, <3>1, <3>2
  <2> QED  BY <2>1, <2>2 DEF Attempts
<1>8. ASSUME NEW i \in 1 .. n + 1, NEW j \in 1 .. n + 1, i # j
      PROVE  <<stages'[i].stage, stages'[i].attempt>> # <<stages'[j].stage, stages'[j].attempt>>
  <2>1. CASE i \in 1 .. n /\ j \in 1 .. n
    BY <1>1, <1>8, <2>1 DEF Numbered, n
  <2>2. CASE i = n + 1 \/ j = n + 1
    BY <1>1, <1>3, <1>4, <1>5, <1>6, <1>8, <2>2
  <2> QED  BY <1>5, <2>1, <2>2
<1>9. Numbered'
  BY <1>1, <1>7, <1>8 DEF Numbered
<1> QED  BY <1>2, <1>9

\* How far a state is along a run; the states before HISTORY_LOOKUP share no stage
\* with the later ones.
Rank == [s \in AgentStates |->
  CASE s = "INITIALIZING"         -> 0
    [] s = "PROFILE_LOOKUP"       -> 1
    [] s = "MODE_SELECTION"       -> 2
    [] s = "SOURCE_DISCOVERY"     -> 3
    [] s = "SOURCE_VALIDATION"    -> 4
    [] s = "PAGE_FETCHING"        -> 5
    [] s = "SNAPSHOT_PERSISTENCE" -> 6
    [] s = "FACT_EXTRACTION"      -> 7
    [] s = "FACT_PERSISTENCE"     -> 8
    [] s = "HISTORY_LOOKUP"       -> 9
    [] s = "FACT_COMPARISON"      -> 10
    [] s = "CHANGE_PERSISTENCE"   -> 11
    [] s = "REPORT_GENERATION"    -> 12
    [] s = "REPORT_PERSISTENCE"   -> 13
    [] s = "RUN_SUMMARY"          -> 14
    [] OTHER                      -> 15]
LateStages == {"HISTORY_COMPARISON", "REPORT_GENERATION", "COMPLETED"}

LEMMA Ranked ==
  /\ \A s \in AgentStates : Rank[s] \in 0 .. 15
  /\ \A s \in AgentStates : \A t \in After[s] :
       t \in AgentStates /\ Rank[s] < Rank[t] /\ Persisted[t] # "FAILED"
  /\ \A s \in AgentStates : Persisted[s] \in LateStages => Rank[s] >= 9
  /\ \A s \in AgentStates : Persisted[s] \notin LateStages /\ Persisted[s] # "FAILED" => Rank[s] <= 8
<1> USE DEF AgentStates, LoopStates, PassedStates, Terminal, Completed
<1>1. \A s \in AgentStates : Rank[s] \in 0 .. 15
  BY DEF Rank
<1>2. \A s \in AgentStates : \A t \in After[s] : t \in AgentStates
  BY DEF After
<1>3. \A s \in AgentStates : \A t \in After[s] : Rank[s] < Rank[t]
  BY DEF After, Rank
<1>4. \A s \in AgentStates : "FAILED" \notin After[s]
  BY DEF After
<1>5. \A s \in AgentStates : Persisted[s] = "FAILED" => s = "FAILED"
  BY DEF Persisted
<1>6. \A s \in AgentStates : Persisted[s] \in LateStages => Rank[s] >= 9
  BY DEF Persisted, LateStages, Rank
<1>7. \A s \in AgentStates : Persisted[s] \notin LateStages /\ Persisted[s] # "FAILED" => Rank[s] <= 8
  BY DEF Persisted, LateStages, Rank
<1> QED  BY <1>1, <1>2, <1>3, <1>4, <1>5, <1>6, <1>7

\* A stage is entered at most once for each state passed, and its last attempt
\* before the late stages is the ninth.
Paced ==
  /\ Numbered
  /\ pc \in {"start", "created"} => stages = <<>> /\ state = "INITIALIZING"
  /\ pc # "ended" => Attempts("FAILED") = 0
  /\ pc # "ended" => \A st : Attempts(st) <= Rank[state] + 1
  /\ pc # "ended" => \A st \in LateStages :
       Attempts(st) <= IF Rank[state] < 9 THEN 0 ELSE Rank[state] - 8

\* Entering the next state of a run numbers its stage within the constraint.
LEMMA NextStage ==
  ASSUME TypeOK, Paced, Transition
  PROVE  Paced'
<1>1. CASE pc' = "escaped"
  <2>1. stages' = stages /\ state' = state
    BY <1>1 DEF Transition, TypeOK
  <2>2. Like(stages, stages')
    BY <2>1 DEF Like
  <2> QED  BY <1>1, <2>1, <2>2, RowsLike DEF Paced, Transition
<1>2. CASE pc' # "escaped"
  <2> DEFINE before == Close(stages, "SUCCEEDED")
             st == Persisted[Head(route)]
             row == Entered(st)
  <2>1. /\ pc = "follow" /\ pc' = pc /\ Head(route) \in After[state] /\ Head(route) \in AgentStates
        /\ state' = Head(route) /\ stages' = Append(before, row)
    BY <1>2 DEF Transition
  <2>2. before \in Seq(StageRow) /\ Like(stages, before)
    BY ClosedStages DEF TypeOK
  <2>3. st \in Stages /\ row \in StageRow /\ row.stage = st /\ row.attempt = Attempts(st) + 1
    BY <2>1, PersistedTyped, EnteredTyped DEF TypeOK, Entered
  <2>4. \A x : Attempts(x) \in Nat
    BY AttemptsCounted
  <2>5. /\ Rank[state] \in 0 .. 15 /\ Rank[state'] \in 0 .. 15 /\ Rank[state] < Rank[state']
        /\ st # "FAILED" /\ (st \in LateStages => Rank[state'] >= 9)
        /\ (st \notin LateStages => Rank[state'] <= 8)
    BY <2>1, Ranked DEF TypeOK
  <2>6. /\ \A x : Attempts(x) <= Rank[state] + 1
        /\ \A x \in LateStages : Attempts(x) <= IF Rank[state] < 9 THEN 0 ELSE Rank[state] - 8
    BY <2>1 DEF Paced
  <2>7. row.attempt <= 10
    BY <2>3, <2>4, <2>5, <2>6
  <2> HIDE DEF before, st, row
  <2>8. /\ Numbered'
        /\ \A x : Attempts(x)' = IF x = row.stage THEN Attempts(x) + 1 ELSE Attempts(x)
    BY <2>1, <2>2, <2>3, <2>7, RowAdded DEF Paced
  <2>9. \A x : Attempts(x)' <= Rank[state'] + 1
    BY <2>4, <2>5, <2>6, <2>8
  <2>10. \A x \in LateStages : Attempts(x)' <= IF Rank[state'] < 9 THEN 0 ELSE Rank[state'] - 8
    BY <2>3, <2>4, <2>5, <2>6, <2>8
  <2>11. Attempts("FAILED")' = 0
    BY <2>1, <2>3, <2>5, <2>8 DEF Paced
  <2> QED  BY <2>1, <2>8, <2>9, <2>10, <2>11 DEF Paced
<1> QED  BY <1>1, <1>2

LEMMA PacedStep == ASSUME TypeOK, Paced, [Next]_vars PROVE Paced'
<1>1. CASE UNCHANGED vars
  <2>1. Like(stages, stages') /\ state' = state /\ pc' = pc /\ stages' = stages
    BY <1>1 DEF Like, vars, rows, context
  <2> QED  BY <2>1, RowsLike DEF Paced
<1>2. CASE Transition
  BY <1>2, NextStage
<1>3. CASE OpenFirstStage
  <2> DEFINE st == Persisted[state]
             row == Entered(st)
  <2>1. pc = "created" /\ pc' = "follow" /\ state' = state /\ stages = <<>> /\ state = "INITIALIZING"
        /\ stages' = Append(stages, row)
    BY <1>3 DEF OpenFirstStage, Paced
  <2>2. st = "SOURCE_DISCOVERY" /\ st \in Stages /\ Rank[state] = 0
    BY <2>1, PersistedTyped DEF Persisted, AgentStates, PassedStates, LoopStates, Terminal, Completed, Rank, TypeOK
  <2>3. row \in StageRow /\ row.stage = st /\ row.attempt = Attempts(st) + 1
    BY <2>2, EnteredTyped DEF TypeOK, Entered
  <2>4. \A x : Attempts(x) = 0
    BY <2>1, AttemptsCounted
  <2>5. Like(stages, stages) /\ stages \in Seq(StageRow)
    BY DEF Like, TypeOK
  <2> HIDE DEF row, st
  <2>7. row.attempt = Attempts(row.stage) + 1 /\ row.attempt <= 10 /\ Numbered
    BY <2>3, <2>4 DEF Paced
  <2>6. /\ Numbered'
        /\ \A x : Attempts(x)' = IF x = row.stage THEN Attempts(x) + 1 ELSE Attempts(x)
    BY <2>1, <2>3, <2>5, <2>7, RowAdded
  <2> QED  BY <2>1, <2>2, <2>3, <2>4, <2>6 DEF Paced, LateStages
<1>4. CASE FailRun
  <2> DEFINE before == Close(stages, "FAILED")
             row == [stage |-> "FAILED", attempt |-> 1, status |-> "FAILED"]
  <2>1. before \in Seq(StageRow) /\ Like(stages, before)
    BY ClosedStages DEF TypeOK
  <2>2. row \in StageRow /\ row.stage = "FAILED" /\ row.attempt = 1
    BY FailedIsAStage DEF StageRow
  <2>3. Attempts("FAILED") = 0 /\ stages' = Append(before, row) /\ pc' = "ended"
    BY <1>4 DEF FailRun, Paced
  <2> HIDE DEF before, row
  <2>4. Numbered'
    BY <2>1, <2>2, <2>3, RowAdded DEF Paced
  <2> QED  BY <2>3, <2>4 DEF Paced
<1>5. CASE PublishPartial \/ FinishRun
  <2>1. \E st \in {"SUCCEEDED", "FAILED"} : stages' = Close(stages, st)
    BY <1>5 DEF PublishPartial, FinishRun
  <2>2. Like(stages, stages') /\ pc' = "ended"
    BY <1>5, <2>1, ClosedStages DEF PublishPartial, FinishRun, TypeOK
  <2> QED  BY <2>2, RowsLike DEF Paced
<1>6. CASE \/ CreateRun \/ Crash \/ CheckBudgets \/ ProviderFails \/ RequestInvalid
           \/ (\E t \in Tools, a \in Args : RequestTool(t, a))
           \/ Reject \/ RecordCall \/ Execute \/ FinishCall \/ AuditFails \/ JudgeFailure \/ RefusePartial
           \/ Advance \/ Escape \/ SelectMode \/ SaveCompetitor \/ EstablishBaseline \/ NextTurn
  <2>1. /\ stages' = stages /\ state' = state /\ pc # "ended"
        /\ pc' \in {"start", "created"} => pc \in {"start", "created"}
    BY <1>6 DEF CreateRun, Crash, CheckBudgets, ProviderFails, RequestInvalid, RequestTool, Reject,
       RecordCall, Execute, FinishCall, AuditFails, JudgeFailure, RefusePartial, Advance, Escape,
       SelectMode, SaveCompetitor, EstablishBaseline, NextTurn, Stopped, rows
  <2>2. Like(stages, stages')
    BY <2>1 DEF Like
  <2> QED  BY <2>1, <2>2, RowsLike DEF Paced
<1> QED  BY <1>1, <1>2, <1>3, <1>4, <1>5, <1>6 DEF Next, Step, Turn, MoveOn

\* Which rows are open at which point of a run.
OpenRows ==
  /\ \A i \in 1 .. Len(stages) : stages[i].status = "ENTERED" => i = Len(stages) /\ status = "RUNNING"
  /\ stages = <<>> => pc \in {"start", "created", "crashed"}
  /\ pc \in {"crashed", "escaped"} => status = "RUNNING"
  /\ \A i \in 1 .. Len(calls) : calls[i].status = "RUNNING" =>
       /\ i = Len(calls) /\ pc \in {"execute", "audit", "failing", "ended", "crashed"}
       /\ status \in {"RUNNING", "FAILED"}

LEMMA OpenRowsStep ==
  ASSUME TypeOK, Controlled, Paced, OpenRows, [Next]_vars
  PROVE  OpenRows'
<1>0. stages \in Seq(StageRow) /\ calls \in Seq(CallRow) /\ Len(stages) \in Nat /\ Len(calls) \in Nat
  BY DEF TypeOK
<1>1. CASE UNCHANGED vars
  BY <1>1 DEF vars, rows, context, OpenRows
<1>2. CASE Transition \/ OpenFirstStage
  <2>1. /\ UNCHANGED <<status, calls>> /\ status = "RUNNING" /\ pc \in {"created", "follow"}
        /\ pc' \in {"follow", "escaped"}
    BY <1>2 DEF Transition, OpenFirstStage, Controlled
  <2>2. CASE stages' = stages
    BY <1>2, <2>1, <2>2, <1>0 DEF OpenRows, OpenFirstStage, Transition
  <2>3. CASE stages' # stages
    <3>1. PICK before \in Seq(StageRow), st \in Stages :
             /\ stages' = Append(before, Entered(st))
             /\ (before = stages /\ stages = <<>>) \/ before = Close(stages, "SUCCEEDED")
      <4>1. CASE Transition
        <5>1. stages' = Append(Close(stages, "SUCCEEDED"), Entered(Persisted[Head(route)]))
              /\ Head(route) \in AgentStates
          BY <2>3, <4>1 DEF Transition
        <5> QED  BY <1>0, <5>1, ClosedStages, PersistedTyped
      <4>2. CASE OpenFirstStage
        <5>1. stages' = Append(stages, Entered(Persisted[state])) /\ stages = <<>> /\ state \in AgentStates
          BY <4>2 DEF OpenFirstStage, Paced, TypeOK
        <5> QED  BY <1>0, <5>1, PersistedTyped
      <4> QED  BY <1>2, <4>1, <4>2
    <3>2. Entered(st) \in StageRow
      BY <1>0, EnteredTyped
    <3>3. Len(stages') = Len(before) + 1 /\ \A i \in 1 .. Len(before) : stages'[i] = before[i]
      BY <3>1, <3>2, AppendProperties
    <3>4. \A i \in 1 .. Len(before) : before[i].status # "ENTERED"
      <4>1. CASE before = <<>>
        BY <4>1
      <4>2. CASE before = Close(stages, "SUCCEEDED")
        <5>1. Like(stages, before) /\ \A i \in 1 .. Len(stages) :
                before[i].status = IF i = Len(stages) THEN "SUCCEEDED" ELSE stages[i].status
          BY <1>0, <4>2, ClosedStages
        <5> QED  BY <5>1 DEF OpenRows, Like
      <4> QED  BY <3>1, <4>1, <4>2
    <3>5. stages' # <<>>
      BY <3>1, <3>3
    <3> QED  BY <2>1, <3>3, <3>4, <3>5 DEF OpenRows
  <2> QED  BY <2>2, <2>3
<1>3. CASE FailRun
  <2> DEFINE before == Close(stages, "FAILED")
             row == [stage |-> "FAILED", attempt |-> 1, status |-> "FAILED"]
  <2>1. row \in StageRow /\ row.status = "FAILED"
    BY FailedIsAStage DEF StageRow
  <2>0. before \in Seq(StageRow) /\ Like(stages, before) /\ \A i \in 1 .. Len(stages) :
          before[i].status = IF i = Len(stages) THEN "FAILED" ELSE stages[i].status
    BY <1>0, ClosedStages
  <2>2. before \in Seq(StageRow) /\ Len(before) = Len(stages)
        /\ \A i \in 1 .. Len(before) : before[i].status = IF i = Len(stages) THEN "FAILED" ELSE stages[i].status
    BY <2>0 DEF Like
  <2>3. stages' = Append(before, row) /\ status' = "FAILED" /\ pc' = "ended" /\ calls' = calls /\ pc = "failing"
    BY <1>3 DEF FailRun
  <2> HIDE DEF before, row
  <2>4. /\ Len(stages') = Len(stages) + 1 /\ stages'[Len(stages) + 1] = row
        /\ \A i \in 1 .. Len(stages) : stages'[i] = before[i]
    BY <2>1, <2>2, <2>3, AppendProperties
  <2>5. \A i \in 1 .. Len(stages) : before[i].status # "ENTERED"
    BY <2>2 DEF OpenRows
  <2>6. \A i \in 1 .. Len(stages') : stages'[i].status # "ENTERED"
    <3>1. \A i \in 1 .. Len(stages') : i \in 1 .. Len(stages) \/ i = Len(stages) + 1
      BY <1>0, <2>4
    <3> QED  BY <2>1, <2>4, <2>5, <3>1
  <2>7. stages' # <<>>
    BY <1>0, <2>4
  <2> QED  BY <2>3, <2>6, <2>7 DEF OpenRows
<1>4. CASE PublishPartial \/ FinishRun
  <2>1. PICK st \in {"SUCCEEDED", "FAILED"} : stages' = Close(stages, st)
    BY <1>4 DEF PublishPartial, FinishRun
  <2>0. Like(stages, stages') /\ \A i \in 1 .. Len(stages) :
          stages'[i].status = IF i = Len(stages) THEN st ELSE stages[i].status
    <3>1. st \in {"ENTERED", "SUCCEEDED", "FAILED"}
      OBVIOUS
    <3>2. Like(stages, Close(stages, st)) /\ \A i \in 1 .. Len(stages) :
            Close(stages, st)[i].status = IF i = Len(stages) THEN st ELSE stages[i].status
      BY <1>0, <3>1, ClosedStages
    <3> QED  BY <2>1, <3>2
  <2>2. Len(stages') = Len(stages)
        /\ \A i \in 1 .. Len(stages') : stages'[i].status = IF i = Len(stages) THEN st ELSE stages[i].status
    BY <2>0 DEF Like
  <2>3. \A i \in 1 .. Len(stages') : stages'[i].status # "ENTERED"
    BY <2>2 DEF OpenRows
  <2>4. pc \in {"judge", "follow"} /\ pc' = "ended"
    BY <1>4 DEF PublishPartial, FinishRun
  <2>5. stages' # <<>>
    BY <1>0, <2>2, <2>4 DEF OpenRows
  <2>6. \A i \in 1 .. Len(calls) : calls[i].status # "RUNNING"
    BY <2>4 DEF OpenRows
  <2>7. \A i \in 1 .. Len(calls') : calls'[i].status # "RUNNING"
    <3>1. CASE calls' = calls
      BY <2>6, <3>1
    <3>2. CASE calls' = Append(calls, [index |-> count + 1, status |-> "SUCCEEDED"])
      <4>1. [index |-> count + 1, status |-> "SUCCEEDED"] \in CallRow
        BY DEF CallRow, TypeOK
      <4>2. /\ Len(calls') = Len(calls) + 1
            /\ calls'[Len(calls) + 1] = [index |-> count + 1, status |-> "SUCCEEDED"]
            /\ \A i \in 1 .. Len(calls) : calls'[i] = calls[i]
        BY <1>0, <3>2, <4>1, AppendProperties
      <4>3. \A i \in 1 .. Len(calls') : i \in 1 .. Len(calls) \/ i = Len(calls) + 1
        BY <1>0, <4>2
      <4> QED  BY <2>6, <4>2, <4>3
    <3> QED  BY <1>4, <3>1, <3>2 DEF PublishPartial, FinishRun
  <2> QED  BY <2>3, <2>4, <2>5, <2>7 DEF OpenRows
<1>5. CASE Reject \/ RecordCall
  <2>1. PICK st \in {"FAILED", "RUNNING"} : calls' = Append(calls, [index |-> count, status |-> st])
                                            /\ (st = "RUNNING" => pc' = "execute")
    BY <1>5 DEF Reject, RecordCall
  <2>2. UNCHANGED <<stages, status>> /\ pc \in {"reject", "record"} /\ status = "RUNNING"
        /\ pc' \in {"failing", "execute"}
    BY <1>5 DEF Reject, RecordCall, Controlled
  <2>3. [index |-> count, status |-> st] \in CallRow
    BY DEF CallRow, TypeOK
  <2>4. /\ Len(calls') = Len(calls) + 1
        /\ calls'[Len(calls) + 1] = [index |-> count, status |-> st]
        /\ \A i \in 1 .. Len(calls) : calls'[i] = calls[i]
    BY <1>0, <2>1, <2>3, AppendProperties
  <2>5. \A i \in 1 .. Len(calls) : calls[i].status # "RUNNING"
    BY <2>2 DEF OpenRows
  <2> QED  BY <1>0, <2>1, <2>2, <2>4, <2>5 DEF OpenRows
<1>6. CASE FinishCall
  <2>1. PICK st \in {"SUCCEEDED", "FAILED"} : calls' = Close(calls, st)
    BY <1>6, FinishCloses
  <2>2. Len(calls') = Len(calls)
        /\ \A i \in 1 .. Len(calls') : calls'[i].status = IF i = Len(calls) THEN st ELSE calls[i].status
    BY <1>0, <2>1, ClosedCalls, CloseCalls
  <2>3. \A i \in 1 .. Len(calls') : calls'[i].status # "RUNNING"
    BY <2>2 DEF OpenRows
  <2>4. UNCHANGED <<stages, status>> /\ pc = "audit" /\ pc' = "judge"
    BY <1>6 DEF FinishCall
  <2> QED  BY <2>3, <2>4 DEF OpenRows
<1>7. CASE \/ CreateRun \/ Crash \/ CheckBudgets \/ ProviderFails \/ RequestInvalid
           \/ (\E t \in Tools, a \in Args : RequestTool(t, a))
           \/ Execute \/ AuditFails \/ JudgeFailure \/ RefusePartial
           \/ Advance \/ Escape \/ SelectMode \/ SaveCompetitor \/ EstablishBaseline \/ NextTurn
  <2>1. /\ UNCHANGED <<stages, calls>> /\ status' = "RUNNING" /\ pc # "ended"
        /\ pc \in {"start", "created"} => pc' \in {"created", "crashed"}
        /\ pc \in {"execute", "audit", "failing"} => pc' \in {"audit", "failing", "crashed"}
        /\ pc # "crashed"
    BY <1>7 DEF CreateRun, Crash, CheckBudgets, ProviderFails, RequestInvalid, RequestTool,
       Execute, AuditFails, JudgeFailure, RefusePartial, Advance, Escape,
       SelectMode, SaveCompetitor, EstablishBaseline, NextTurn, Stopped, Controlled, rows
  <2> QED  BY <2>1 DEF OpenRows
<1> QED  BY <1>1, <1>2, <1>3, <1>4, <1>5, <1>6, <1>7 DEF Next, Step, Turn, MoveOn

\* Only the last stage and the last call of a run that goes on are open, and the
\* keys and the attempt limit of stage_events hold, on any path of any run.
THEOREM OpenRowsOwned == Spec => []OpenRowsBelongToRunningRuns
<1> DEFINE Inv == Controlled /\ SettledHasEnded /\ Paced /\ OpenRows
<1>1. Init => Inv
  <2> SUFFICES ASSUME Init PROVE Inv
    OBVIOUS
  <2>1. TypeOK /\ stages = <<>> /\ calls = <<>> /\ state = "INITIALIZING" /\ pc = "start" /\ status = "absent"
    BY InitTyped DEF Init
  <2>2. \A st : Attempts(st) = 0
    BY <2>1, AttemptsCounted
  <2>3. Rank[state] \in 0 .. 15
    BY <2>1, Ranked DEF TypeOK
  <2>4. Numbered
    BY <2>1 DEF Numbered
  <2>6. \A st : Attempts(st) <= Rank[state] + 1
    BY <2>2, <2>3
  <2>7. \A st : Attempts(st) <= IF Rank[state] < 9 THEN 0 ELSE Rank[state] - 8
    BY <2>2, <2>3
  <2>5. Paced
    BY <2>1, <2>2, <2>4, <2>6, <2>7 DEF Paced
  <2> QED  BY <2>1, <2>5 DEF Controlled, SettledHasEnded, Settled, OpenRows
<1>2. TypeOK /\ Inv /\ [Next]_vars => Inv'
  BY ControlledStep, SettledStep, PacedStep, OpenRowsStep
<1>3. Inv => OpenRowsBelongToRunningRuns
  BY DEF Paced, Numbered, OpenRows, SettledHasEnded, OpenRowsBelongToRunningRuns
<1> HIDE DEF Inv
<1> QED  BY <1>1, <1>2, <1>3, TypeCorrect, PTL DEF Spec
-----------------------------------------------------------------------------
(* The effects of a run are those of its mode *)

\* The state in which each effect of a run of mode m is made, in order; baselines
\* are established while their facts are persisted.
Way(m) == IF m = "REFRESH"
          THEN <<"PROFILE_LOOKUP", "PAGE_FETCHING", "FACT_EXTRACTION", "HISTORY_LOOKUP",
                 "FACT_COMPARISON", "REPORT_GENERATION", "RUN_SUMMARY">>
          ELSE <<"PROFILE_LOOKUP", "SOURCE_DISCOVERY", "PAGE_FETCHING", "FACT_EXTRACTION",
                 "FACT_PERSISTENCE", "REPORT_GENERATION", "RUN_SUMMARY">>
Plan(m) == IF m = "REFRESH" THEN RefreshPlan ELSE BaselinePlan

\* The mode is chosen and saved.
Chosen == mode # "none" /\ runMode = IF mode = "REFRESH" THEN "TRACKING" ELSE "BASELINE"

\* In state s a run that has made n effects makes the next one.
At(s, n) ==
  /\ n \in 0 .. 6 /\ s = Way(mode)[n + 1] /\ s # "FACT_PERSISTENCE"
  /\ IF n = 0 THEN mode = "none" ELSE Chosen

\* Following r leads a run that has made n effects to where it makes the next one,
\* or to its end.
ModeWay      == {<<"MODE_SELECTION", "select", Way(mode)[2]>>, <<"select", Way(mode)[2]>>}
BaselineWay  == {<<"FACT_PERSISTENCE", "establish", "REPORT_GENERATION">>,
                 <<"establish", "REPORT_GENERATION">>}
FinishWay    == {<<"COMPLETED", "finish">>, <<"COMPLETED_WITH_WARNINGS", "finish">>, <<"finish">>}
Leads(r, n) ==
  \/ /\ Len(r) \in 1 .. 2 /\ \A i \in 1 .. Len(r) : r[i] \in AgentStates
     /\ At(r[Len(r)], n)
  \/ n = 1 /\ mode # "none" /\ r \in ModeWay
  \/ n = 2 /\ mode = "BASELINE" /\ Chosen /\ r = <<"competitor", "SOURCE_VALIDATION", "PAGE_FETCHING">>
  \/ n = 4 /\ mode = "BASELINE" /\ Chosen /\ r \in BaselineWay
  \/ n = 7 /\ Chosen /\ r \in FinishWay

\* The tool of the call has had its effect, and the run has not yet moved on.
Acted == result \in {"ok", "partial"} /\ call.tool \notin Queries

\* EffectsFollowMode as it holds at every step: where the run is says how many
\* effects it has made.
Planned ==
  /\ pc \in {"start", "created"} => effects = <<>> /\ mode = "none"
  /\ pc \in {"loop", "ask", "reject", "record", "execute"} => At(state, Len(effects))
  /\ pc \in {"audit", "judge"} => At(state, IF Acted THEN Len(effects) - 1 ELSE Len(effects))
  /\ pc = "follow" => \/ route = <<>> /\ At(state, Len(effects))
                      \/ Leads(route, Len(effects))
  /\ \/ PrefixOf(effects, Plan(mode))
     \/ pc = "ended" /\ PrefixOf(effects, PartialPlan(mode))
  /\ status = "COMPLETED" => Chosen /\ PrefixOf(effects, Plan(mode)) /\ Len(effects) = 7
  /\ status = "PARTIAL_SUCCESS" <=> Partial

\* Seven effects make a run of either mode, and four or five a partial one.
LEMMA Plans ==
  /\ \A m : /\ Len(Plan(m)) = 7 /\ Plan(m)[1] = "profile"
            /\ \A i \in 1 .. 7 : Plan(m)[i] \in (Tools \cup {"establish"}) \ Queries
  /\ \A m, i : /\ i \in 1 .. 7 /\ Plan(m)[i] = "establish" => m # "REFRESH" /\ i = 5
  /\ \A m : m # "REFRESH" => Plan(m)[5] = "establish"
<1> USE DEF Plan, BaselinePlan, RefreshPlan, Extracting, Tools, Queries
<1>1. ASSUME NEW m
      PROVE  /\ Len(Plan(m)) = 7 /\ Plan(m)[1] = "profile"
             /\ \A i \in 1 .. 7 : Plan(m)[i] \in (Tools \cup {"establish"}) \ Queries
  <2>1. CASE m = "REFRESH"
    BY <2>1
  <2>2. CASE m # "REFRESH"
    BY <2>2
  <2> QED  BY <2>1, <2>2
<1>2. ASSUME NEW m, NEW i \in 1 .. 7, Plan(m)[i] = "establish"
      PROVE  m # "REFRESH" /\ i = 5
  BY <1>2
<1> QED  BY <1>1, <1>2

\* A tool other than a query that a run may call is the next of its plan.
LEMMA NextOfPlan ==
  ASSUME NEW s, NEW n, At(s, n), NEW t \in Allowed(s), t \notin Queries
  PROVE  t = Plan(mode)[n + 1]
<1>1. n \in {0, 1, 2, 3, 4, 5, 6} /\ s = Way(mode)[n + 1] /\ s # "FACT_PERSISTENCE"
  BY DEF At
<1> USE DEF Plan, BaselinePlan, RefreshPlan, Extracting, Queries, Way, Allowed, LoopStates
<1>2. CASE mode = "REFRESH"
  BY <1>1, <1>2
<1>3. CASE mode # "REFRESH"
  BY <1>1, <1>3
<1> QED  BY <1>2, <1>3

\* What _advance_after_tool makes of an effect of the plan.
LEMMA RouteOfPlan ==
  ASSUME NEW m \in {"BASELINE", "REFRESH"}, NEW n \in 0 .. 6, NEW r \in RoutesOf(Plan(m)[n + 1], m)
  PROVE  \/ n = 0 /\ r = <<"MODE_SELECTION", "select", Way(m)[2]>>
         \/ n = 1 /\ m = "BASELINE" /\ r = <<"competitor", "SOURCE_VALIDATION", "PAGE_FETCHING">>
         \/ n = 3 /\ m = "BASELINE" /\ r = <<"FACT_PERSISTENCE", "establish", "REPORT_GENERATION">>
         \/ n = 6 /\ r \in {<<"COMPLETED", "finish">>, <<"COMPLETED_WITH_WARNINGS", "finish">>}
         \/ /\ n \in 1 .. 5 /\ ~(m = "BASELINE" /\ n \in {1, 3, 4})
            /\ Len(r) \in 1 .. 2 /\ r[Len(r)] = Way(m)[n + 2]
            /\ \A i \in 1 .. Len(r) : r[i] \in AgentStates
<1> DEFINE Ways == {<<"SNAPSHOT_PERSISTENCE", "FACT_EXTRACTION">>,
                    <<"FACT_PERSISTENCE", "HISTORY_LOOKUP">>, <<"FACT_COMPARISON">>,
                    <<"CHANGE_PERSISTENCE", "REPORT_GENERATION">>, <<"REPORT_PERSISTENCE", "RUN_SUMMARY">>}
<1>1. n \in {0, 1, 2, 3, 4, 5, 6}
  OBVIOUS
<1>2. Plan(m)[n + 1] # "status"
  BY Plans DEF Queries
<1>3. CASE n = 0
  <2>1. Plan(m)[1] = "profile"
    BY Plans
  <2> QED  BY <1>3, <2>1 DEF RoutesOf, Way
<1>4. CASE n = 6
  <2>1. Plan(m)[7] = "finalize"
    BY DEF Plan, BaselinePlan, RefreshPlan
  <2> QED  BY <1>4, <2>1 DEF RoutesOf, Completed
<1>5. CASE n = 3 /\ m = "BASELINE"
  <2>1. Plan(m)[4] \in {"extract", "skip"}
    BY <1>5 DEF Plan, BaselinePlan, Extracting
  <2> QED  BY <1>5, <2>1 DEF RoutesOf
<1>6. CASE n = 4 /\ m = "BASELINE"
  <2>1. Plan(m)[5] = "establish"
    BY <1>6 DEF Plan, BaselinePlan
  <2> QED  BY <1>6, <2>1 DEF RoutesOf
<1>8. CASE n = 1 /\ m = "BASELINE"
  <2>1. Plan(m)[2] = "discover"
    BY <1>8 DEF Plan, BaselinePlan
  <2> QED  BY <1>8, <2>1 DEF RoutesOf
<1>7. CASE n \in 1 .. 5 /\ ~(m = "BASELINE" /\ n \in {1, 3, 4})
  <2>1. r \in Ways /\ r[Len(r)] = Way(m)[n + 2]
    <3>1. CASE m = "REFRESH" /\ n = 1
      <4>1. Plan(m)[2] = "refresh"
        BY <3>1 DEF Plan, BaselinePlan, RefreshPlan, Extracting
      <4>2. r = <<"SNAPSHOT_PERSISTENCE", "FACT_EXTRACTION">>
        BY <3>1, <4>1 DEF RoutesOf
      <4> QED  BY <3>1, <4>2 DEF Way
    <3>2. CASE m = "REFRESH" /\ n = 2
      <4>1. Plan(m)[3] \in {"extract", "skip"}
        BY <3>2 DEF Plan, BaselinePlan, RefreshPlan, Extracting
      <4>2. r = <<"FACT_PERSISTENCE", "HISTORY_LOOKUP">>
        BY <3>2, <4>1 DEF RoutesOf
      <4> QED  BY <3>2, <4>2 DEF Way
    <3>3. CASE m = "REFRESH" /\ n = 3
      <4>1. Plan(m)[4] = "history"
        BY <3>3 DEF Plan, BaselinePlan, RefreshPlan, Extracting
      <4>2. r = <<"FACT_COMPARISON">>
        BY <3>3, <4>1 DEF RoutesOf
      <4> QED  BY <3>3, <4>2 DEF Way
    <3>4. CASE m = "REFRESH" /\ n = 4
      <4>1. Plan(m)[5] = "compare"
        BY <3>4 DEF Plan, BaselinePlan, RefreshPlan, Extracting
      <4>2. r = <<"CHANGE_PERSISTENCE", "REPORT_GENERATION">>
        BY <3>4, <4>1 DEF RoutesOf
      <4> QED  BY <3>4, <4>2 DEF Way
    <3>5. CASE m = "REFRESH" /\ n = 5
      <4>1. Plan(m)[6] = "report"
        BY <3>5 DEF Plan, BaselinePlan, RefreshPlan, Extracting
      <4>2. r = <<"REPORT_PERSISTENCE", "RUN_SUMMARY">>
        BY <3>5, <4>1 DEF RoutesOf
      <4> QED  BY <3>5, <4>2 DEF Way
    <3>7. CASE m = "BASELINE" /\ n = 2
      <4>1. Plan(m)[3] = "refresh"
        BY <3>7 DEF Plan, BaselinePlan, RefreshPlan, Extracting
      <4>2. r = <<"SNAPSHOT_PERSISTENCE", "FACT_EXTRACTION">>
        BY <3>7, <4>1 DEF RoutesOf
      <4> QED  BY <3>7, <4>2 DEF Way
    <3>8. CASE m = "BASELINE" /\ n = 5
      <4>1. Plan(m)[6] = "report"
        BY <3>8 DEF Plan, BaselinePlan, RefreshPlan, Extracting
      <4>2. r = <<"REPORT_PERSISTENCE", "RUN_SUMMARY">>
        BY <3>8, <4>1 DEF RoutesOf
      <4> QED  BY <3>8, <4>2 DEF Way
    <3> QED  BY <1>1, <1>7, <3>1, <3>2, <3>3, <3>4, <3>5, <3>7, <3>8
  <2>2. Len(r) \in 1 .. 2
    BY <2>1
  <2>3. \A i \in 1 .. Len(r) : r[i] \in AgentStates
    BY <2>1 DEF AgentStates, LoopStates, PassedStates
  <2> QED  BY <1>7, <2>1, <2>2, <2>3
<1> QED  BY <1>1, <1>3, <1>4, <1>5, <1>6, <1>7, <1>8

\* No route is left, and an end of the plan with nothing left to follow, only together.
LEMMA LeadsSomewhere == \A n : ~Leads(<<>>, n)
BY DEF Leads, ModeWay, BaselineWay, FinishWay

\* One more effect, the next of a plan, makes a longer prefix of it.
LEMMA Longer ==
  ASSUME TypeOK, NEW p, Len(p) \in Nat, PrefixOf(effects, p),
         NEW e \in Tools \cup {"establish", "partial"},
         Len(effects) < Len(p), e = p[Len(effects) + 1]
  PROVE  PrefixOf(Append(effects, e), p) /\ Len(Append(effects, e)) = Len(effects) + 1
<1> DEFINE more == Append(effects, e)
<1>1. /\ Len(more) = Len(effects) + 1 /\ Len(effects) \in Nat
      /\ \A i \in 1 .. Len(effects) : more[i] = effects[i]
      /\ more[Len(effects) + 1] = e
  BY AppendProperties DEF TypeOK
<1> HIDE DEF more
<1>2. \A i \in 1 .. Len(more) : i \in 1 .. Len(effects) \/ i = Len(effects) + 1
  BY <1>1
<1>3. PrefixOf(more, p) /\ Len(more) = Len(effects) + 1
  BY <1>1, <1>2 DEF PrefixOf
<1> QED  BY <1>3 DEF more

\* Steps that make no effect and enter no state.
LEMMA QuietPlan ==
  ASSUME Planned, UNCHANGED <<effects, mode, runMode, state, status>>, pc # "ended",
         \/ pc' \in Over \ {"ended"}
         \/ pc \in {"loop", "ask", "reject", "record"} /\ pc' \in {"loop", "ask", "reject", "record", "execute"}
         \/ pc \in {"audit", "judge"} /\ pc' \in {"audit", "judge"} /\ UNCHANGED <<call, result>>
         \/ pc = "judge" /\ result \notin {"ok", "partial"} /\ pc' = "loop"
         \/ pc = "follow" /\ route = <<>> /\ pc' = "loop"
  PROVE  Planned'
<1> USE DEF Over
<1>2. PrefixOf(effects, Plan(mode))'
  <2>1. PrefixOf(effects, Plan(mode))
    BY DEF Planned
  <2> QED  BY <2>1
<1>3. Partial' <=> Partial
  BY DEF Partial
<1>4. (status = "COMPLETED" => Chosen /\ PrefixOf(effects, Plan(mode)) /\ Len(effects) = 7)'
  BY DEF Planned, Chosen
<1>5. (status = "PARTIAL_SUCCESS" <=> Partial)'
  BY <1>3 DEF Planned
<1>6. (pc \in {"loop", "ask", "reject", "record", "execute"} => At(state, Len(effects)))'
  <2>1. CASE pc = "follow" /\ route = <<>>
    <3>1. At(state, Len(effects))
      BY <2>1, LeadsSomewhere DEF Planned
    <3> QED  BY <3>1 DEF At, Chosen, Way
  <2>2. CASE pc \in {"loop", "ask", "reject", "record"}
    <3>1. At(state, Len(effects))
      BY <2>2 DEF Planned
    <3> QED  BY <3>1 DEF At, Chosen, Way
  <2>3. CASE pc = "judge" /\ result \notin {"ok", "partial"}
    <3>1. At(state, Len(effects))
      BY <2>3 DEF Planned, Acted
    <3> QED  BY <3>1 DEF At, Chosen, Way
  <2>4. CASE pc' \notin {"loop", "ask", "reject", "record", "execute"}
    BY <2>4
  <2> QED  BY <2>1, <2>2, <2>3, <2>4
<1>7. (pc \in {"audit", "judge"} => At(state, IF Acted THEN Len(effects) - 1 ELSE Len(effects)))'
  <2> SUFFICES ASSUME pc' \in {"audit", "judge"}
               PROVE  At(state, IF Acted THEN Len(effects) - 1 ELSE Len(effects))'
    OBVIOUS
  <2>1. Acted' <=> Acted
    BY DEF Acted
  <2>2. At(state, IF Acted THEN Len(effects) - 1 ELSE Len(effects))
    BY DEF Planned
  <2>3. CASE Acted
    BY <2>1, <2>2, <2>3 DEF At, Chosen, Way
  <2>4. CASE ~Acted
    BY <2>1, <2>2, <2>4 DEF At, Chosen, Way
  <2> QED  BY <2>3, <2>4
<1>8. pc' \notin {"start", "created", "follow"}
  OBVIOUS
<1> QED  BY <1>2, <1>4, <1>5, <1>6, <1>7, <1>8 DEF Planned

LEMMA StartPlan == ASSUME Controlled, Planned, CreateRun \/ OpenFirstStage PROVE Planned'
<1>1. /\ UNCHANGED <<effects, mode, runMode, state>> /\ effects = <<>> /\ mode = "none"
      /\ status # "PARTIAL_SUCCESS" /\ status' = "RUNNING"
      /\ pc' = "created" \/ (pc' = "follow" /\ route' = <<"PROFILE_LOOKUP">>)
  BY DEF CreateRun, OpenFirstStage, Planned, Controlled
<1>2. Partial' <=> Partial
  BY <1>1 DEF Partial
<1>3. PrefixOf(effects, Plan(mode))'
  <2>1. PrefixOf(effects, Plan(mode))
    BY <1>1, Plans DEF PrefixOf
  <2> QED  BY <1>1, <2>1
<1>4. pc' = "follow" => Leads(route, Len(effects))'
  <2> SUFFICES ASSUME pc' = "follow" PROVE Leads(route, Len(effects))'
    OBVIOUS
  <2>1. "PROFILE_LOOKUP" \in AgentStates
    BY DEF AgentStates, LoopStates
  <2>2. PICK r, n : r = route' /\ n = Len(effects')
    OBVIOUS
  <2>3. n = 0 /\ mode' = "none" /\ Len(r) = 1 /\ r[1] = "PROFILE_LOOKUP"
    BY <1>1, <2>2
  <2>4. At(r[Len(r)], n)'
    BY <2>3 DEF At, Way
  <2>5. \A i \in 1 .. Len(r) : r[i] \in AgentStates
    BY <2>1, <2>3
  <2>6. Leads(r, n)'
    BY <2>3, <2>4, <2>5 DEF Leads
  <2> QED  BY <2>2, <2>6
<1>5. (status = "PARTIAL_SUCCESS" <=> Partial)'
  BY <1>1, <1>2 DEF Planned
<1> QED  BY <1>1, <1>3, <1>4, <1>5 DEF Planned

LEMMA Tails ==
  /\ \A a : Head(<<a>>) = a /\ Tail(<<a>>) = <<>>
  /\ \A a, b : Head(<<a, b>>) = a /\ Tail(<<a, b>>) = <<b>>
  /\ \A a, b, c : Head(<<a, b, c>>) = a /\ Tail(<<a, b, c>>) = <<b, c>>
OBVIOUS

\* A partial plan is the plan up to the extraction, and the partial result.
LEMMA PartialPlans ==
  ASSUME NEW m \in {"BASELINE", "REFRESH"}, ~SkipExtraction,
         NEW n \in 0 .. 6, Way(m)[n + 1] = "FACT_EXTRACTION"
  PROVE  /\ Len(PartialPlan(m)) = n + 2 /\ PartialPlan(m)[n + 2] = "partial"
         /\ \A i \in 1 .. n + 1 : PartialPlan(m)[i] = Plan(m)[i]
<1> USE DEF PartialPlan, Plan, BaselinePlan, RefreshPlan, Extracting, Way
<1>1. n \in {0, 1, 2, 3, 4, 5, 6}
  OBVIOUS
<1>2. CASE m = "BASELINE"
  <2>1. n = 3
    BY <1>1, <1>2
  <2> QED  BY <1>2, <2>1
<1>3. CASE m = "REFRESH"
  <2>1. n = 2
    BY <1>1, <1>3
  <2> QED  BY <1>3, <2>1
<1> QED  BY <1>2, <1>3

LEMMA ExecutePlan ==
  ASSUME TypeOK, HandledCall, Controlled, Planned, Execute
  PROVE  Planned'
<1>1. /\ pc = "execute" /\ pc' = "audit" /\ UNCHANGED <<status, state, mode, runMode, call>>
      /\ status = "RUNNING" /\ call.tool \in Tools /\ call.tool \in Allowed(state)
  BY DEF Execute, HandledCall, Controlled
<1>2. At(state, Len(effects)) /\ PrefixOf(effects, Plan(mode)) /\ ~Partial
  BY <1>1 DEF Planned
<1>3. effects' = IF Acted' THEN Append(effects, call.tool) ELSE effects
  BY <1>1 DEF Execute, Acted
<1>4. PICK n : n = Len(effects)
  OBVIOUS
<1>5. At(state, n)'
  BY <1>1, <1>2, <1>4 DEF At, Chosen, Way
<1>6. n \in 0 .. 6
  BY <1>2, <1>4 DEF At
<1>7. /\ PrefixOf(effects', Plan(mode)) /\ ~Partial'
      /\ n = IF Acted' THEN Len(effects') - 1 ELSE Len(effects')
  <2>1. CASE Acted'
    <3>1. PICK t : t = call.tool
      OBVIOUS
    <3>2. t \in Tools /\ t \in Allowed(state) /\ t \notin Queries /\ effects' = Append(effects, t) /\ t # "partial"
      BY <1>1, <1>3, <2>1, <3>1 DEF Acted, Tools
    <3>3. t = Plan(mode)[n + 1]
      BY <1>2, <1>4, <3>2, NextOfPlan
    <3>4. PICK p : p = Plan(mode)
      OBVIOUS
    <3>5. Len(p) = 7
      BY <3>4, Plans
    <3>6. t \in Tools \cup {"establish", "partial"} /\ Len(p) \in Nat /\ PrefixOf(effects, p)
      BY <1>2, <3>2, <3>4, <3>5
    <3>7. Len(effects) < Len(p) /\ t = p[Len(effects) + 1]
      <4>1. n < Len(p)
        BY <1>6, <3>5
      <4>2. t = p[n + 1]
        BY <3>3, <3>4, Zenon
      <4> QED  BY <1>4, <4>1, <4>2, Zenon
    <3>8. effects' = Append(effects, t)
      BY <3>2
    <3>9. PrefixOf(effects', p) /\ Len(effects') = Len(effects) + 1
      BY <3>6, <3>7, <3>8, Longer
    <3>10. ~Partial'
      BY <1>2, <3>2, NewEffect
    <3> QED  BY <1>4, <1>6, <2>1, <3>4, <3>9, <3>10
  <2>2. CASE ~Acted'
    BY <1>2, <1>3, <1>4, <2>2 DEF Partial
  <2> QED  BY <2>1, <2>2
<1>8. At(state, IF Acted THEN Len(effects) - 1 ELSE Len(effects))'
  BY <1>5, <1>7
<1>9. PrefixOf(effects, Plan(mode))'
  BY <1>1, <1>7
<1> QED  BY <1>1, <1>7, <1>8, <1>9 DEF Planned

LEMMA PublishPlan ==
  ASSUME TypeOK, Controlled, Planned, PublishPartial
  PROVE  Planned'
<1>1. /\ pc = "judge" /\ pc' = "ended" /\ result = "partial" /\ UNCHANGED <<mode, runMode>>
      /\ effects' = Append(effects, "partial") /\ status' = "PARTIAL_SUCCESS"
      /\ call.tool = "extract" /\ "extract" \in Allowed(state)
  BY DEF PublishPartial, Controlled
<1>2. ~SkipExtraction /\ state = "FACT_EXTRACTION"
  BY <1>1 DEF Allowed
<1>3. At(state, Len(effects) - 1) /\ PrefixOf(effects, Plan(mode))
  BY <1>1 DEF Planned, Acted, Queries
<1>4. PICK m, n : m = mode /\ n = Len(effects) - 1
  OBVIOUS
<1>5. m \in {"BASELINE", "REFRESH"} /\ n \in 0 .. 6 /\ Way(m)[n + 1] = "FACT_EXTRACTION" /\ Len(effects) = n + 1
  <2>1. n \in 0 .. 6 /\ Way(m)[n + 1] = "FACT_EXTRACTION" /\ (n = 0 \/ mode # "none")
    BY <1>2, <1>3, <1>4 DEF At, Chosen
  <2>2. n # 0
    BY <2>1 DEF Way
  <2>3. Len(effects) \in Nat /\ mode \in {"none", "BASELINE", "REFRESH"}
    BY DEF TypeOK
  <2>4. Len(effects) = n + 1
    BY <1>4, <2>1, <2>3
  <2> QED  BY <1>4, <2>1, <2>2, <2>3, <2>4
<1>6. PICK p : p = PartialPlan(m)
  OBVIOUS
<1>7. Len(p) = n + 2 /\ p[n + 2] = "partial" /\ \A i \in 1 .. n + 1 : p[i] = Plan(m)[i]
  BY <1>2, <1>5, <1>6, PartialPlans
<1>8. PrefixOf(effects, p)
  BY <1>3, <1>4, <1>5, <1>7 DEF PrefixOf
<1>9. PrefixOf(effects', p)
  BY <1>1, <1>5, <1>7, <1>8, Longer
<1>10. PrefixOf(effects, PartialPlan(mode))'
  BY <1>1, <1>4, <1>6, <1>9
<1>11. Partial'
  BY <1>1, NewEffect
<1> QED  BY <1>1, <1>10, <1>11 DEF Planned

LEMMA AdvancePlan ==
  ASSUME TypeOK, Controlled, Planned, Advance
  PROVE  Planned'
<1>1. /\ pc = "judge" /\ pc' = "follow" /\ result = "ok" /\ UNCHANGED <<effects, status, state, runMode>>
      /\ status = "RUNNING" /\ call.tool \in Allowed(state) /\ route' \in RoutesOf(call.tool, mode')
      /\ mode' \in IF call.tool = "profile" THEN {"BASELINE", "REFRESH"} ELSE {mode}
  BY DEF Advance, Controlled, rows
<1>2. At(state, IF Acted THEN Len(effects) - 1 ELSE Len(effects)) /\ PrefixOf(effects, Plan(mode)) /\ ~Partial
  BY <1>1 DEF Planned
<1>3. ~Partial'
  BY <1>1, <1>2 DEF Partial
<1>0. Len(effects) \in Nat
  BY DEF TypeOK
<1>4. PICK m, r, t : m = mode' /\ r = route' /\ t = call.tool
  OBVIOUS
<1>5. /\ PrefixOf(effects', Plan(m))
      /\ \/ r = <<>> /\ At(state, Len(effects))'
         \/ Leads(r, Len(effects))'
  <2>1. CASE t \in Queries
    <3>1. t = "status" /\ r = <<>>
      BY <1>1, <1>4, <2>1 DEF RoutesOf, Queries
    <3>2. ~Acted /\ m = mode
      BY <1>1, <1>4, <2>1, <3>1 DEF Acted
    <3>3. At(state, Len(effects))
      BY <1>2, <3>2
    <3>4. At(state, Len(effects))'
      BY <1>1, <1>4, <3>2, <3>3 DEF At, Chosen, Way
    <3> QED  BY <1>1, <1>2, <3>1, <3>2, <3>4
  <2>2. CASE t \notin Queries
    <3>1. PICK n : n = Len(effects) - 1
      OBVIOUS
    <3>2. At(state, n)
      BY <1>1, <1>2, <1>4, <2>2, <3>1 DEF Acted
    <3>3. n \in 0 .. 6 /\ Len(effects) = n + 1
      <4>1. n \in 0 .. 6
        BY <3>2 DEF At
      <4>2. PICK k \in Nat : k = Len(effects)
        BY <1>0
      <4>3. k = n + 1
        BY <3>1, <4>1, <4>2
      <4> QED  BY <4>1, <4>2, <4>3
    <3>4. t = Plan(mode)[n + 1]
      BY <1>1, <1>4, <2>2, <3>2, NextOfPlan
    <3>5. t = "profile" <=> n = 0
      <4>1. n \in {0, 1, 2, 3, 4, 5, 6}
        BY <3>3
      <4> QED  BY <3>4, <4>1 DEF Plan, BaselinePlan, RefreshPlan, Extracting
    <3>6. m \in {"BASELINE", "REFRESH"} /\ (n # 0 => m = mode /\ Chosen)
      <4>1. CASE n = 0
        BY <1>1, <1>4, <3>5, <4>1
      <4>2. CASE n # 0
        <5>1. m = mode /\ Chosen
          BY <1>1, <1>4, <3>2, <3>5, <4>2 DEF At
        <5>2. mode \in {"none", "BASELINE", "REFRESH"}
          BY DEF TypeOK
        <5> QED  BY <5>1, <5>2 DEF Chosen
      <4> QED  BY <4>1, <4>2
    <3>7. t = Plan(m)[n + 1]
      <4>1. CASE n = 0
        BY <3>4, <4>1, Plans
      <4> QED  BY <3>4, <3>6, <4>1
    <3>8. PrefixOf(effects', Plan(m))
      <4>1. CASE n = 0
        <5>1. Len(effects') = 1 /\ effects'[1] = Plan(mode)[1]
          BY <1>1, <1>2, <3>3, <4>1 DEF PrefixOf
        <5>2. Len(Plan(m)) = 7 /\ Plan(mode)[1] = Plan(m)[1]
          BY Plans
        <5> QED  BY <5>1, <5>2 DEF PrefixOf
      <4>2. CASE n # 0
        BY <1>1, <1>2, <3>6, <4>2
      <4> QED  BY <4>1, <4>2
    <3>9. n # 0 => Chosen'
      BY <1>1, <1>4, <3>6 DEF Chosen
    <3>10. r \in RoutesOf(Plan(m)[n + 1], m)
      BY <1>1, <1>4, <3>7
    <3>11. Leads(r, n + 1)'
      <4>1. CASE n = 0 /\ r = <<"MODE_SELECTION", "select", Way(m)[2]>>
        BY <1>4, <3>6, <4>1 DEF Leads, ModeWay
      <4>5. CASE n = 1 /\ m = "BASELINE" /\ r = <<"competitor", "SOURCE_VALIDATION", "PAGE_FETCHING">>
        BY <1>4, <3>9, <4>5 DEF Leads
      <4>2. CASE n = 3 /\ m = "BASELINE" /\ r = <<"FACT_PERSISTENCE", "establish", "REPORT_GENERATION">>
        BY <1>4, <3>9, <4>2 DEF Leads, BaselineWay
      <4>3. CASE n = 6 /\ r \in {<<"COMPLETED", "finish">>, <<"COMPLETED_WITH_WARNINGS", "finish">>}
        BY <1>4, <3>9, <4>3 DEF Leads, FinishWay
      <4>4. CASE /\ n \in 1 .. 5 /\ ~(m = "BASELINE" /\ n \in {1, 3, 4})
                 /\ Len(r) \in 1 .. 2 /\ r[Len(r)] = Way(m)[n + 2]
                 /\ \A i \in 1 .. Len(r) : r[i] \in AgentStates
        <5>1. PICK s : s = r[Len(r)]
          OBVIOUS
        <5>2. s # "FACT_PERSISTENCE"
          <6>1. n \in {1, 2, 3, 4, 5}
            BY <4>4
          <6>2. CASE m = "REFRESH"
            BY <4>4, <5>1, <6>1, <6>2 DEF Way
          <6>3. CASE m = "BASELINE"
            BY <4>4, <5>1, <6>1, <6>3 DEF Way
          <6> QED  BY <3>6, <6>2, <6>3
        <5>3. s = Way(m)[(n + 1) + 1] /\ n + 1 \in 0 .. 6 /\ n + 1 # 0
          BY <4>4, <5>1
        <5>4. At(s, n + 1)'
          BY <1>4, <3>9, <4>4, <5>2, <5>3 DEF At
        <5> QED  BY <4>4, <5>1, <5>4 DEF Leads
      <4> QED  BY <3>3, <3>6, <3>10, <4>1, <4>2, <4>3, <4>4, <4>5, RouteOfPlan
    <3>12. Len(effects') = n + 1
      BY <1>1, <3>3
    <3> QED  BY <3>8, <3>11, <3>12
  <2> QED  BY <2>1, <2>2
<1>6. PrefixOf(effects, Plan(mode))'
  BY <1>4, <1>5
<1>7. (\/ route = <<>> /\ At(state, Len(effects))
       \/ Leads(route, Len(effects)))'
  BY <1>4, <1>5
<1> QED  BY <1>1, <1>3, <1>6, <1>7 DEF Planned

\* What is left to follow when a state has been entered, or a transaction made.
LEMMA RouteLeft ==
  ASSUME NEW r \in Seq(RouteStep), NEW n, Leads(r, n)
  PROVE  /\ Head(r) \in AgentStates => \/ Tail(r) = <<>> /\ At(Head(r), n)
                                       \/ Leads(Tail(r), n)
         /\ Head(r) = "select" => n = 1 /\ mode # "none" /\ Tail(r) = <<Way(mode)[2]>>
         /\ Head(r) = "competitor" => /\ n = 2 /\ mode = "BASELINE" /\ Chosen
                                      /\ Tail(r) = <<"SOURCE_VALIDATION", "PAGE_FETCHING">>
         /\ Head(r) = "establish" => /\ n = 4 /\ mode = "BASELINE" /\ Chosen
                                     /\ Tail(r) = <<"REPORT_GENERATION">>
         /\ Head(r) = "finish" => n = 7 /\ Chosen
<1>0. "select" \notin AgentStates /\ "competitor" \notin AgentStates /\ "establish" \notin AgentStates /\ "finish" \notin AgentStates
  BY DEF AgentStates, LoopStates, PassedStates, Terminal, Completed
<1>1. CASE /\ Len(r) \in 1 .. 2 /\ \A i \in 1 .. Len(r) : r[i] \in AgentStates
           /\ At(r[Len(r)], n)
  <2>1. Head(r) = r[1] /\ r[1] \in AgentStates
    BY <1>1
  <2>0. r # <<>>
    BY <1>1
  <2>2. CASE Len(r) = 1
    <3>1. Tail(r) \in Seq(RouteStep) /\ Len(Tail(r)) = 0
      BY <2>0, <2>2, HeadTailProperties
    <3>2. Tail(r) = <<>>
      BY <3>1, EmptySeq
    <3> QED  BY <1>0, <1>1, <2>1, <2>2, <3>2
  <2>3. CASE Len(r) = 2
    <3>1. Len(Tail(r)) = 1 /\ Tail(r)[1] = r[2] /\ r[2] \in AgentStates
      BY <1>1, <2>0, <2>3, HeadTailProperties
    <3>2. PICK s, t : s = r[2] /\ t = Tail(r)
      OBVIOUS
    <3>3. Len(t) = 1 /\ t[1] = s
      BY <3>1, <3>2
    <3>4. At(s, n) /\ s \in AgentStates
      BY <1>1, <2>3, <3>1, <3>2
    <3>5. \A i \in 1 .. Len(t) : t[i] \in AgentStates
      BY <3>3, <3>4
    <3>6. Leads(t, n)
      BY <3>3, <3>4, <3>5 DEF Leads
    <3> QED  BY <1>0, <2>1, <3>2, <3>6
  <2> QED  BY <1>1, <2>2, <2>3
<1>2. CASE n = 1 /\ mode # "none" /\ r \in ModeWay
  <2>1. PICK x : x = Way(mode)[2]
    OBVIOUS
  <2>2. CASE r = <<"MODE_SELECTION", "select", x>>
    <3>1. Head(r) = "MODE_SELECTION" /\ Tail(r) = <<"select", x>>
      BY <2>2, Tails
    <3> QED  BY <1>2, <2>1, <3>1 DEF Leads, ModeWay
  <2>3. CASE r = <<"select", x>>
    <3>1. Head(r) = "select" /\ Tail(r) = <<x>>
      BY <2>3, Tails
    <3> QED  BY <1>0, <1>2, <2>1, <3>1
  <2> QED  BY <1>2, <2>1, <2>2, <2>3 DEF ModeWay
<1>5. CASE n = 2 /\ mode = "BASELINE" /\ Chosen
            /\ r = <<"competitor", "SOURCE_VALIDATION", "PAGE_FETCHING">>
  <2>1. Head(r) = "competitor" /\ Tail(r) = <<"SOURCE_VALIDATION", "PAGE_FETCHING">>
    BY <1>5, Tails
  <2> QED  BY <1>0, <1>5, <2>1
<1>3. CASE n = 4 /\ mode = "BASELINE" /\ Chosen /\ r \in BaselineWay
  <2>1. CASE r = <<"FACT_PERSISTENCE", "establish", "REPORT_GENERATION">>
    <3>1. Head(r) = "FACT_PERSISTENCE" /\ Tail(r) = <<"establish", "REPORT_GENERATION">>
      BY <2>1, Tails
    <3> QED  BY <1>3, <3>1 DEF Leads, BaselineWay
  <2>2. CASE r = <<"establish", "REPORT_GENERATION">>
    <3>1. Head(r) = "establish" /\ Tail(r) = <<"REPORT_GENERATION">>
      BY <2>2, Tails
    <3> QED  BY <1>0, <1>3, <3>1
  <2> QED  BY <1>3, <2>1, <2>2 DEF BaselineWay
<1>4. CASE n = 7 /\ Chosen /\ r \in FinishWay
  <2>1. CASE r = <<"finish">>
    <3>1. Head(r) = "finish"
      BY <2>1, Tails
    <3> QED  BY <1>0, <1>4, <3>1
  <2>2. CASE r \in {<<"COMPLETED", "finish">>, <<"COMPLETED_WITH_WARNINGS", "finish">>}
    <3>0. PICK s \in {"COMPLETED", "COMPLETED_WITH_WARNINGS"} : r = <<s, "finish">>
      BY <2>2
    <3>1. Tail(r) = <<"finish">> /\ Head(r) \in {"COMPLETED", "COMPLETED_WITH_WARNINGS"}
      BY <3>0, Tails
    <3> QED  BY <1>4, <3>1 DEF Leads, FinishWay
  <2> QED  BY <1>4, <2>1, <2>2 DEF FinishWay
<1> QED  BY <1>1, <1>2, <1>3, <1>4, <1>5 DEF Leads

LEMMA FollowPlan ==
  ASSUME TypeOK, Controlled, Planned, Transition \/ SelectMode \/ SaveCompetitor \/ EstablishBaseline \/ FinishRun
  PROVE  Planned'
<1>1. /\ pc = "follow" /\ route # <<>> /\ status = "RUNNING" /\ UNCHANGED mode
      /\ PrefixOf(effects, Plan(mode)) /\ ~Partial
  BY DEF Transition, SelectMode, SaveCompetitor, EstablishBaseline, FinishRun, Controlled, Planned
<1>2. PICK r, n, m : r = route /\ n = Len(effects) /\ m = mode
  OBVIOUS
<1>3. r \in Seq(RouteStep) /\ Leads(r, n)
  BY <1>1, <1>2 DEF Planned, TypeOK
<1>4. CASE Transition
  <2>1. UNCHANGED <<effects, runMode, status>>
    BY <1>4 DEF Transition
  <2>2. CASE pc' = "escaped"
    <3>1. state' = state
      BY <1>4, <2>2, <1>1 DEF Transition
    <3> QED  BY <1>1, <2>1, <2>2, <3>1, QuietPlan DEF Over
  <2>3. CASE pc' # "escaped"
    <3>1. /\ pc' = "follow" /\ Head(r) \in AgentStates /\ state' = Head(r) /\ route' = Tail(r)
      BY <1>1, <1>2, <1>4, <2>3 DEF Transition
    <3>2. PICK s, t : s = Head(r) /\ t = Tail(r)
      OBVIOUS
    <3>3. \/ t = <<>> /\ At(s, n)
          \/ Leads(t, n)
      BY <1>3, <3>1, <3>2, RouteLeft
    <3>4. \/ t = <<>> /\ At(s, n)'
          \/ Leads(t, n)'
      BY <1>1, <2>1, <3>3 DEF Leads, At, Chosen, Way, ModeWay
    <3>5. (\/ route = <<>> /\ At(state, Len(effects))
           \/ Leads(route, Len(effects)))'
      BY <1>2, <2>1, <3>1, <3>2, <3>4
    <3>6. PrefixOf(effects, Plan(mode))'
      BY <1>1, <2>1
    <3>7. ~Partial'
      BY <1>1, <2>1 DEF Partial
    <3> QED  BY <1>1, <2>1, <3>1, <3>5, <3>6, <3>7 DEF Planned
  <2> QED  BY <2>2, <2>3
<1>5. CASE SelectMode
  <2>1. /\ UNCHANGED <<effects, status>> /\ pc' = pc /\ Head(r) = "select" /\ route' = Tail(r)
        /\ runMode' = IF mode = "REFRESH" THEN "TRACKING" ELSE "BASELINE"
    BY <1>2, <1>5 DEF SelectMode
  <2>2. n = 1 /\ m # "none" /\ Tail(r) = <<Way(m)[2]>>
    BY <1>2, <1>3, <2>1, RouteLeft
  <2>3. PICK s, t : s = Way(m)[2] /\ t = <<s>>
    OBVIOUS
  <2>4. Len(t) = 1 /\ t[1] = s /\ s \in AgentStates /\ s # "FACT_PERSISTENCE"
    BY <2>3 DEF Way, AgentStates, LoopStates
  <2>5. Chosen'
    BY <1>1, <1>2, <2>1, <2>2 DEF Chosen
  <2>6. At(s, 1)'
    BY <1>1, <1>2, <2>3, <2>4, <2>5 DEF At
  <2>7. Leads(t, 1)'
    BY <2>4, <2>6 DEF Leads
  <2>8. Leads(route, Len(effects))'
    BY <1>2, <2>1, <2>2, <2>3, <2>7
  <2>9. PrefixOf(effects, Plan(mode))'
    BY <1>1, <2>1
  <2>10. ~Partial'
    BY <1>1, <2>1 DEF Partial
  <2> QED  BY <1>1, <2>1, <2>8, <2>9, <2>10 DEF Planned
<1>8. CASE SaveCompetitor
  <2>1. /\ UNCHANGED <<effects, status, runMode>> /\ pc' = pc
        /\ Head(r) = "competitor" /\ route' = Tail(r)
    BY <1>2, <1>8 DEF SaveCompetitor, rows
  <2>2. n = 2 /\ m = "BASELINE" /\ Chosen /\ Tail(r) = <<"SOURCE_VALIDATION", "PAGE_FETCHING">>
    BY <1>2, <1>3, <2>1, RouteLeft
  <2>3. PICK t : t = <<"SOURCE_VALIDATION", "PAGE_FETCHING">>
    OBVIOUS
  <2>4. /\ Len(t) = 2 /\ t[2] = "PAGE_FETCHING"
        /\ \A i \in 1 .. Len(t) : t[i] \in AgentStates
    BY <2>3 DEF AgentStates, LoopStates, PassedStates
  <2>5. Chosen'
    BY <1>1, <2>1, <2>2 DEF Chosen
  <2>6. At("PAGE_FETCHING", 2)'
    BY <1>1, <1>2, <2>2, <2>5 DEF At, Way
  <2>7. Leads(t, 2)'
    BY <2>4, <2>6 DEF Leads
  <2>8. Leads(route, Len(effects))'
    BY <1>2, <2>1, <2>2, <2>3, <2>7
  <2>9. PrefixOf(effects, Plan(mode))'
    BY <1>1, <2>1
  <2>10. ~Partial'
    BY <1>1, <2>1 DEF Partial
  <2> QED  BY <1>1, <2>1, <2>8, <2>9, <2>10 DEF Planned
<1>6. CASE EstablishBaseline
  <2>1. /\ UNCHANGED <<status, runMode>> /\ pc' = pc /\ Head(r) = "establish" /\ route' = Tail(r)
        /\ effects' = Append(effects, "establish")
    BY <1>2, <1>6 DEF EstablishBaseline
  <2>2. n = 4 /\ m = "BASELINE" /\ Chosen /\ Tail(r) = <<"REPORT_GENERATION">>
    BY <1>2, <1>3, <2>1, RouteLeft
  <2>3. PICK p : p = Plan(m)
    OBVIOUS
  <2>4. Len(p) = 7 /\ p[5] = "establish"
    BY <2>2, <2>3, Plans
  <2>5. PrefixOf(effects', p) /\ Len(effects') = 5
    <3>1. PrefixOf(effects, p) /\ Len(effects) < Len(p) /\ p[Len(effects) + 1] = "establish" /\ Len(effects) = 4
      BY <1>1, <1>2, <2>2, <2>3, <2>4
    <3> QED  BY <2>1, <2>4, <3>1, Longer
  <2>6. ~Partial'
    BY <1>1, <2>1, NewEffect
  <2>7. Chosen'
    BY <1>1, <2>1, <2>2 DEF Chosen
  <2>8. PICK t : t = <<"REPORT_GENERATION">>
    OBVIOUS
  <2>9. Len(t) = 1 /\ t[1] = "REPORT_GENERATION" /\ "REPORT_GENERATION" \in AgentStates
    BY <2>8 DEF AgentStates, LoopStates
  <2>10. At("REPORT_GENERATION", 5)'
    BY <1>1, <1>2, <2>2, <2>7 DEF At, Way
  <2>11. Leads(t, 5)'
    BY <2>9, <2>10 DEF Leads
  <2>12. Leads(route, Len(effects))'
    BY <2>1, <2>2, <2>5, <2>8, <2>11
  <2>13. PrefixOf(effects, Plan(mode))'
    BY <1>1, <1>2, <2>3, <2>5
  <2> QED  BY <1>1, <2>1, <2>6, <2>12, <2>13 DEF Planned
<1>7. CASE FinishRun
  <2>1. UNCHANGED <<effects, runMode>> /\ pc' = "ended" /\ Head(r) = "finish" /\ status' = "COMPLETED"
    BY <1>2, <1>7 DEF FinishRun
  <2>2. Len(effects) = 7 /\ Chosen
    BY <1>2, <1>3, <2>1, RouteLeft
  <2>3. PrefixOf(effects, Plan(mode))'
    BY <1>1, <2>1
  <2>4. ~Partial'
    BY <1>1, <2>1 DEF Partial
  <2>5. Chosen' /\ Len(effects') = 7
    BY <1>1, <2>1, <2>2 DEF Chosen
  <2> QED  BY <2>1, <2>3, <2>4, <2>5 DEF Planned
<1> QED  BY <1>4, <1>5, <1>6, <1>7, <1>8

\* Every step keeps a run to the plan of its mode.
LEMMA PlannedStep ==
  ASSUME TypeOK, HandledCall, Controlled, SettledHasEnded, Planned, [Next]_vars
  PROVE  Planned'
<1>1. CASE UNCHANGED vars
  <2>1. /\ UNCHANGED <<effects, mode, runMode, state, status, pc, call, result, route>>
        /\ (Acted' <=> Acted) /\ (Partial' <=> Partial) /\ (Chosen' <=> Chosen)
    BY <1>1 DEF vars, rows, context, Acted, Partial, Chosen
  <2> QED  BY <2>1 DEF Planned, At, Leads, Way, ModeWay
<1>2. CASE CreateRun \/ OpenFirstStage
  BY <1>2, StartPlan
<1>3. CASE \/ Crash \/ CheckBudgets \/ ProviderFails \/ RequestInvalid
           \/ (\E t \in Tools, a \in Args : RequestTool(t, a))
           \/ Reject \/ RecordCall \/ FinishCall \/ AuditFails \/ JudgeFailure \/ RefusePartial
           \/ Escape \/ NextTurn
  <2>1. UNCHANGED <<effects, mode, runMode, state, status>> /\ pc # "ended"
    BY <1>3 DEF Crash, CheckBudgets, ProviderFails, RequestInvalid, RequestTool, Reject, RecordCall,
       FinishCall, AuditFails, JudgeFailure, RefusePartial, Escape, NextTurn, Stopped, rows
  <2>2. \/ pc' \in Over \ {"ended"}
        \/ pc \in {"loop", "ask", "reject", "record"} /\ pc' \in {"loop", "ask", "reject", "record", "execute"}
        \/ pc \in {"audit", "judge"} /\ pc' \in {"audit", "judge"} /\ UNCHANGED <<call, result>>
        \/ pc = "judge" /\ result \notin {"ok", "partial"} /\ pc' = "loop"
        \/ pc = "follow" /\ route = <<>> /\ pc' = "loop"
    BY <1>3 DEF Crash, CheckBudgets, ProviderFails, RequestInvalid, RequestTool, Reject, RecordCall,
       FinishCall, AuditFails, JudgeFailure, RefusePartial, Escape, NextTurn, Over
  <2> QED  BY <2>1, <2>2, QuietPlan
<1>4. CASE Execute
  BY <1>4, ExecutePlan
<1>5. CASE PublishPartial
  BY <1>5, PublishPlan
<1>6. CASE Advance
  BY <1>6, AdvancePlan
<1>7. CASE Transition \/ SelectMode \/ SaveCompetitor \/ EstablishBaseline \/ FinishRun
  BY <1>7, FollowPlan
<1>8. CASE FailRun
  <2>1. /\ UNCHANGED <<effects, mode>> /\ pc = "failing" /\ pc' = "ended" /\ status' = "FAILED"
        /\ status = "RUNNING"
    BY <1>8 DEF FailRun, Controlled
  <2>2. PrefixOf(effects, Plan(mode))'
    <3>1. PrefixOf(effects, Plan(mode))
      BY <2>1 DEF Planned
    <3> QED  BY <2>1, <3>1
  <2>3. ~Partial'
    BY <2>1 DEF Planned, Partial
  <2> QED  BY <2>1, <2>2, <2>3 DEF Planned
<1> QED  BY <1>1, <1>2, <1>3, <1>4, <1>5, <1>6, <1>7, <1>8 DEF Next, Step, Turn, MoveOn

\* A run kept to its plan has the effects of its mode.
LEMMA PlannedFollows == TypeOK /\ Planned => EffectsFollowMode
<1> SUFFICES ASSUME TypeOK, Planned PROVE EffectsFollowMode
  OBVIOUS
<1>1. \/ PrefixOf(effects, BaselinePlan) \/ PrefixOf(effects, RefreshPlan)
      \/ PrefixOf(effects, PartialPlan("BASELINE")) \/ PrefixOf(effects, PartialPlan("REFRESH"))
  BY DEF Planned, Plan, PartialPlan
<1>2. ASSUME status = "COMPLETED"
      PROVE  effects = IF runMode = "BASELINE" THEN BaselinePlan ELSE RefreshPlan
  <2>1. Chosen /\ PrefixOf(effects, Plan(mode)) /\ Len(effects) = 7
    BY <1>2 DEF Planned
  <2>2. PICK m : m = mode
    OBVIOUS
  <2>3. m \in {"BASELINE", "REFRESH"} /\ (m = "BASELINE" <=> runMode = "BASELINE")
    <3>1. mode \in {"none", "BASELINE", "REFRESH"}
      BY DEF TypeOK
    <3> QED  BY <2>1, <2>2, <3>1 DEF Chosen
  <2>4. effects = Plan(m)
    <3>1. effects \in Seq(Tools \cup {"establish", "partial"})
      BY DEF TypeOK
    <3>2. Plan(m) \in Seq(Tools \cup {"establish", "partial"})
      <4>1. Extracting \in Tools
        BY DEF Extracting, Tools
      <4>2. CASE m = "BASELINE"
        BY <4>1, <4>2 DEF Plan, BaselinePlan, Tools
      <4>3. CASE m = "REFRESH"
        BY <4>1, <4>3 DEF Plan, RefreshPlan, Tools
      <4> QED  BY <2>3, <4>2, <4>3
    <3>3. Len(Plan(m)) = 7
      BY Plans
    <3>4. \A i \in 1 .. Len(effects) : effects[i] = Plan(m)[i]
      BY <2>1, <2>2 DEF PrefixOf
    <3> QED  BY <2>1, <3>1, <3>2, <3>3, <3>4, SeqEqual
  <2> QED  BY <2>3, <2>4 DEF Plan
<1>3. status = "PARTIAL_SUCCESS" <=> \E i \in 1 .. Len(effects) : effects[i] = "partial"
  BY DEF Planned, Partial
<1> QED  BY <1>1, <1>2, <1>3 DEF EffectsFollowMode

\* Whatever the provider asks for, in whatever order and however often, the run does
\* what its mode asks for, in order and once, and completes when it has done all of it.
THEOREM EffectsOrdered == Spec => []EffectsFollowMode
<1> DEFINE Inv == Controlled /\ SettledHasEnded /\ Planned
<1>1. Init => Inv
  <2> SUFFICES ASSUME Init PROVE Inv
    OBVIOUS
  <2>1. effects = <<>> /\ mode = "none" /\ pc = "start" /\ status = "absent"
    BY DEF Init
  <2>2. PrefixOf(effects, Plan(mode))
    BY <2>1, Plans DEF PrefixOf
  <2>3. ~Partial
    BY <2>1 DEF Partial
  <2> QED  BY <2>1, <2>2, <2>3 DEF Controlled, SettledHasEnded, Settled, Planned
<1>2. TypeOK /\ HandledCall /\ Inv /\ [Next]_vars => Inv'
  BY ControlledStep, SettledStep, PlannedStep
<1>3. TypeOK /\ Inv => EffectsFollowMode
  BY PlannedFollows
<1> HIDE DEF Inv
<1> QED  BY <1>1, <1>2, <1>3, TypeCorrect, PTL DEF Spec
=============================================================================

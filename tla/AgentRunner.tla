---------------------------- MODULE AgentRunner ----------------------------
(***************************************************************************)
(* One AgentRunner.run: the loop that asks the agent provider for one tool *)
(* call, checks the call against the state machine and the budgets, records*)
(* it, executes it and moves the run on.  One action is one database       *)
(* transaction, or one answer of the provider or of a tool, so that every  *)
(* point at which the process can stop lies between two actions.           *)
(***************************************************************************)
EXTENDS Naturals, Sequences, FiniteSets

CONSTANTS
  MaxToolCalls,      \* AgentRunnerLimits.max_tool_calls
  MaxProviderCalls,  \* AgentRunnerLimits.max_provider_calls_per_state
  MaxDuplicates,     \* AgentRunnerLimits.max_duplicate_attempts
  Args,              \* valid argument objects the provider may choose among
  RetryableTools,    \* tools whose failure may be marked retryable
  SkipExtraction     \* skip_fact_extraction of AgentToolExecutor

\* The tools of TOOL_DEFINITIONS a state of the run allows, in the order of a run.
Tools == {"profile", "discover", "refresh", "extract", "skip", "history",
          "compare", "report", "get_report", "status", "finalize"}
\* Those that only show the provider rows already committed.
Queries == {"status", "get_report"}

ASSUME RunnerAssumption ==
  /\ MaxToolCalls \in Nat /\ MaxProviderCalls \in Nat /\ MaxDuplicates \in Nat
  /\ RetryableTools \subseteq Tools
  /\ SkipExtraction \in BOOLEAN

LoopStates == {"PROFILE_LOOKUP", "SOURCE_DISCOVERY", "PAGE_FETCHING", "FACT_EXTRACTION",
               "HISTORY_LOOKUP", "FACT_COMPARISON", "REPORT_GENERATION", "RUN_SUMMARY"}
PassedStates == {"INITIALIZING", "MODE_SELECTION", "SOURCE_VALIDATION",
                 "SNAPSHOT_PERSISTENCE", "FACT_PERSISTENCE", "CHANGE_PERSISTENCE",
                 "REPORT_PERSISTENCE"}
Completed    == {"COMPLETED", "COMPLETED_WITH_WARNINGS"}
Terminal     == Completed \cup {"PARTIAL_SUCCESS", "FAILED"}
AgentStates  == LoopStates \cup PassedStates \cup Terminal

\* ALLOWED_TRANSITIONS, without the step to FAILED every other state has.
After == [s \in AgentStates |->
  CASE s = "INITIALIZING"         -> {"PROFILE_LOOKUP"}
    [] s = "PROFILE_LOOKUP"       -> {"MODE_SELECTION"}
    [] s = "MODE_SELECTION"       -> {"SOURCE_DISCOVERY", "PAGE_FETCHING"}
    [] s = "SOURCE_DISCOVERY"     -> {"SOURCE_VALIDATION"}
    [] s = "SOURCE_VALIDATION"    -> {"PAGE_FETCHING"}
    [] s = "PAGE_FETCHING"        -> {"SNAPSHOT_PERSISTENCE"}
    [] s = "SNAPSHOT_PERSISTENCE" -> {"FACT_EXTRACTION"}
    [] s = "FACT_EXTRACTION"      -> {"FACT_PERSISTENCE", "PARTIAL_SUCCESS"}
    [] s = "FACT_PERSISTENCE"     -> {"HISTORY_LOOKUP", "REPORT_GENERATION"}
    [] s = "HISTORY_LOOKUP"       -> {"FACT_COMPARISON"}
    [] s = "FACT_COMPARISON"      -> {"CHANGE_PERSISTENCE"}
    [] s = "CHANGE_PERSISTENCE"   -> {"REPORT_GENERATION"}
    [] s = "REPORT_GENERATION"    -> {"REPORT_PERSISTENCE"}
    [] s = "REPORT_PERSISTENCE"   -> {"RUN_SUMMARY"}
    [] s = "RUN_SUMMARY"          -> Completed
    [] OTHER                      -> {}]

\* PERSISTED_STATE: several states of the run share one stage of the database.
Persisted == [s \in AgentStates |->
  CASE s \in {"INITIALIZING", "PROFILE_LOOKUP", "MODE_SELECTION"} -> "SOURCE_DISCOVERY"
    [] s = "SNAPSHOT_PERSISTENCE"                       -> "PAGE_FETCHING"
    [] s = "FACT_PERSISTENCE"                           -> "FACT_EXTRACTION"
    [] s \in {"HISTORY_LOOKUP", "FACT_COMPARISON", "CHANGE_PERSISTENCE"} -> "HISTORY_COMPARISON"
    [] s \in {"REPORT_PERSISTENCE", "RUN_SUMMARY"}      -> "REPORT_GENERATION"
    [] s \in Completed \cup {"PARTIAL_SUCCESS"}         -> "COMPLETED"
    [] OTHER                                            -> s]
Stages == {Persisted[s] : s \in AgentStates}

\* TOOL_DEFINITIONS[t].states and AgentToolExecutor.allowed_tools.
Allowed(s) ==
  (CASE s = "PROFILE_LOOKUP"    -> {"profile"}
     [] s = "SOURCE_DISCOVERY"  -> {"discover"}
     [] s = "PAGE_FETCHING"     -> {"refresh"}
     [] s = "FACT_EXTRACTION"   -> IF SkipExtraction THEN {"skip"} ELSE {"extract"}
     [] s = "HISTORY_LOOKUP"    -> {"history"}
     [] s = "FACT_COMPARISON"   -> {"compare"}
     [] s = "REPORT_GENERATION" -> {"report"}
     [] s = "RUN_SUMMARY"       -> {"finalize", "get_report"}
     [] OTHER                   -> {})
  \cup (IF s \in LoopStates THEN {"status"} ELSE {})

VARIABLES
  \* rows of the database
  status,    \* agent_runs.status
  saved,     \* agent_runs.current_state
  runMode,   \* agent_runs.run_mode
  stages,    \* stage_events, in the order of their ids
  calls,     \* tool_calls, in the order of their ids
  effects,   \* what the successful tools have done to the run, in order
  \* ControlledRunContext and the locals of run
  state,     \* current_state
  mode,      \* run_mode
  count,     \* tool_call_count
  asked,     \* provider_calls
  seen,      \* signatures
  pc,        \* the next step of the run
  call,      \* the tool call being handled
  result,    \* how its tool ended
  route      \* transitions and transactions left of _advance_after_tool

rows    == <<status, saved, runMode, stages, calls, effects>>
context == <<state, mode, count, asked, seen, pc, call, result, route>>
vars    == <<rows, context>>

Remaining == IF count < MaxToolCalls THEN MaxToolCalls - count ELSE 0
Attempts(st) == Cardinality({i \in 1 .. Len(stages) : stages[i].stage = st})
\* Mutant of Entered: the attempts made so far, not the next one.
EnteredAgain(st) == [stage |-> st, attempt |-> Attempts(st), status |-> "ENTERED"]
Entered(st)  == [stage |-> st, attempt |-> Attempts(st) + 1, status |-> "ENTERED"]
Close(seq, st) == IF seq = <<>> THEN seq ELSE [seq EXCEPT ![Len(seq)].status = st]
NoCall == [tool |-> "none", arg |-> "none"]

Init ==
  /\ status = "absent" /\ saved = "none" /\ runMode = "UNKNOWN" /\ stages = <<>> /\ calls = <<>> /\ effects = <<>>
  /\ state = "INITIALIZING" /\ mode = "none" /\ count = 0
  /\ asked = [s \in LoopStates |-> 0] /\ seen = [t \in Tools |-> [a \in Args |-> 0]]
  /\ pc = "start" /\ call = NoCall /\ result = "none" /\ route = <<>>
-----------------------------------------------------------------------------
(* Starting *)

CreateRun ==
  /\ pc = "start"
  /\ status' = "RUNNING" /\ saved' = Persisted["INITIALIZING"]
  /\ pc' = "created"
  /\ UNCHANGED <<runMode, stages, calls, effects, state, mode, count, asked, seen, call, result, route>>

OpenFirstStage ==
  /\ pc = "created"
  /\ stages' = Append(stages, Entered(Persisted[state]))
  /\ pc' = "follow" /\ route' = <<"PROFILE_LOOKUP">>
  /\ UNCHANGED <<status, saved, runMode, calls, effects, state, mode, count, asked, seen, call, result>>
-----------------------------------------------------------------------------
(* One turn of the loop *)

\* The global budget and the budget of the state are checked before the
\* provider is asked.
CheckBudgets ==
  /\ pc = "loop"
  /\ IF Remaining = 0
     THEN pc' = "failing" /\ UNCHANGED asked
     ELSE /\ asked' = [asked EXCEPT ![state] = @ + 1]
          /\ pc' = IF asked[state] + 1 > MaxProviderCalls THEN "failing" ELSE "ask"
  /\ UNCHANGED <<rows, state, mode, count, seen, call, result, route>>

\* The provider raises, answers with an error, or not with exactly one call.
ProviderFails ==
  /\ pc = "ask" /\ pc' = "failing"
  /\ UNCHANGED <<rows, state, mode, count, asked, seen, call, result, route>>

\* An unregistered tool, one the state does not allow, or invalid arguments.
RequestInvalid ==
  /\ pc = "ask"
  /\ pc' = "reject" /\ count' = count + 1 /\ call' = NoCall
  /\ UNCHANGED <<rows, state, mode, asked, seen, result, route>>

\* Mutant of RequestTool: any registered tool is accepted in any state.
RequestAnyTool(t, a) ==
  /\ pc = "ask"
  /\ seen' = [seen EXCEPT ![t][a] = @ + 1]
  /\ count' = count + 1
  /\ call' = [tool |-> t, arg |-> a]
  /\ pc' = IF seen[t][a] + 1 > MaxDuplicates THEN "reject" ELSE "record"
  /\ UNCHANGED <<rows, state, mode, asked, result, route>>

\* A valid call is counted by signature; one too many of the same is rejected.
RequestTool(t, a) ==
  /\ pc = "ask" /\ t \in Allowed(state)
  /\ seen' = [seen EXCEPT ![t][a] = @ + 1]
  /\ count' = count + 1
  /\ call' = [tool |-> t, arg |-> a]
  /\ pc' = IF seen[t][a] + 1 > MaxDuplicates THEN "reject" ELSE "record"
  /\ UNCHANGED <<rows, state, mode, asked, result, route>>

\* _reject_requested_tool: the rejected call is a row of its own.
Reject ==
  /\ pc = "reject"
  /\ calls' = Append(calls, [index |-> count, status |-> "FAILED"])
  /\ pc' = "failing"
  /\ UNCHANGED <<status, saved, runMode, stages, effects,
                 state, mode, count, asked, seen, call, result, route>>

RecordCall ==
  /\ pc = "record"
  /\ calls' = Append(calls, [index |-> count, status |-> "RUNNING"])
  /\ pc' = "execute"
  /\ UNCHANGED <<status, saved, runMode, stages, effects,
                 state, mode, count, asked, seen, call, result, route>>

\* The tool commits its own transactions; the queries only read.  Extraction may
\* end with evidence that only a partial result can publish.
Execute ==
  /\ pc = "execute"
  /\ \E res \in {"ok", "failed"}
                \cup (IF call.tool \in RetryableTools THEN {"retryable"} ELSE {})
                \cup (IF call.tool = "extract" THEN {"partial"} ELSE {}) :
       /\ result' = res
       /\ effects' = IF res \in {"ok", "partial"} /\ call.tool \notin Queries
                     THEN Append(effects, call.tool) ELSE effects
  /\ pc' = "audit"
  /\ UNCHANGED <<status, saved, runMode, stages, calls, state, mode, count, asked, seen, call, route>>

\* An extraction whose evidence is partial may itself be a success or end with
\* FACT_EXTRACTION_FAILED.
RowStatus(res) == CASE res = "ok"      -> {"SUCCEEDED"}
                    [] res = "partial" -> {"SUCCEEDED", "FAILED"}
                    [] OTHER           -> {"FAILED"}

\* The row of the call is finished; when that fails, so does the run.
FinishCall ==
  /\ pc = "audit"
  /\ \E st \in RowStatus(result) : calls' = Close(calls, st)
  /\ pc' = "judge"
  /\ UNCHANGED <<status, saved, runMode, stages, effects,
                 state, mode, count, asked, seen, call, result, route>>

AuditFails ==
  /\ pc = "audit" /\ pc' = "failing"
  /\ UNCHANGED <<rows, state, mode, count, asked, seen, call, result, route>>

\* Mutant of JudgeFailure: a failed report is only a warning.
JudgeLeniently ==
  /\ pc = "judge" /\ result \in {"failed", "retryable"}
  /\ IF call.tool = "report"
     THEN pc' = "follow" /\ route' = <<"REPORT_PERSISTENCE", "RUN_SUMMARY">>
     ELSE pc' = "failing" /\ UNCHANGED route
  /\ UNCHANGED <<rows, state, mode, count, asked, seen, call, result>>

\* A failed tool is retried only if it says so and its signature was not used up.
JudgeFailure ==
  /\ pc = "judge" /\ result \in {"failed", "retryable"}
  /\ pc' = IF result = "retryable" /\ seen[call.tool][call.arg] < MaxDuplicates
           THEN "loop" ELSE "failing"
  /\ UNCHANGED <<rows, state, mode, count, asked, seen, call, result, route>>

\* Mutants of PublishPartial: the audit row is not charged to the budget; an
\* exception after the commit is still handled as a refused publication.
PublishUncharged ==
  /\ pc = "judge" /\ result = "partial"
  /\ calls' = Append(calls, [index |-> count + 1, status |-> "SUCCEEDED"])
  /\ effects' = Append(effects, "partial")
  /\ stages' = Close(stages, "FAILED")
  /\ status' = "PARTIAL_SUCCESS" /\ saved' = Persisted["PARTIAL_SUCCESS"]
  /\ state' = "PARTIAL_SUCCESS" /\ count' = count + 1
  /\ pc' = "ended"
  /\ UNCHANGED <<runMode, mode, asked, seen, call, result, route>>

PublishThenRaise ==
  /\ pc = "judge" /\ result = "partial" /\ Remaining > 0
  /\ calls' = Append(calls, [index |-> count + 1, status |-> "SUCCEEDED"])
  /\ effects' = Append(effects, "partial")
  /\ stages' = Close(stages, "FAILED")
  /\ status' = "PARTIAL_SUCCESS" /\ saved' = Persisted["PARTIAL_SUCCESS"]
  /\ pc' = "failing"
  /\ UNCHANGED <<runMode, state, count, mode, asked, seen, call, result, route>>

\* PartialResultService.complete needs one more call for its own audit row, and
\* commits report, audit, stage and terminal status together; or it is refused.
PublishPartial ==
  /\ pc = "judge" /\ result = "partial" /\ Remaining > 0
  /\ calls' = Append(calls, [index |-> count + 1, status |-> "SUCCEEDED"])
  /\ effects' = Append(effects, "partial")
  /\ stages' = Close(stages, "FAILED")
  /\ status' = "PARTIAL_SUCCESS" /\ saved' = Persisted["PARTIAL_SUCCESS"]
  /\ state' = "PARTIAL_SUCCESS" /\ count' = count + 1
  /\ pc' = "ended"
  /\ UNCHANGED <<runMode, mode, asked, seen, call, result, route>>

\* Mutant of RefusePartial: a refused publication is tried again.
RefuseAndRetry ==
  /\ pc = "judge" /\ result = "partial" /\ pc' = "judge"
  /\ UNCHANGED <<rows, state, mode, count, asked, seen, call, result, route>>

RefusePartial ==
  /\ pc = "judge" /\ result = "partial" /\ pc' = "failing"
  /\ UNCHANGED <<rows, state, mode, count, asked, seen, call, result, route>>
-----------------------------------------------------------------------------
(* Moving on *)

\* _advance_after_tool: the states entered and the transactions made, in order.
\* A profile selects the mode, which "select" saves; "competitor" saves the rival a
\* discovery identified, "establish" is establish_baseline and "finish" closes
\* the last stage and the run.
RoutesOf(t, m) ==
  CASE t = "status"   -> {<<>>}
    [] t = "profile"  -> {<<"MODE_SELECTION", "select",
                            IF m = "REFRESH" THEN "PAGE_FETCHING" ELSE "SOURCE_DISCOVERY">>}
    [] t = "discover" -> {<<"competitor", "SOURCE_VALIDATION", "PAGE_FETCHING">>}
    [] t = "refresh"  -> {<<"SNAPSHOT_PERSISTENCE", "FACT_EXTRACTION">>}
    [] t \in {"extract", "skip"} -> {IF m = "BASELINE"
                                     THEN <<"FACT_PERSISTENCE", "establish", "REPORT_GENERATION">>
                                     ELSE <<"FACT_PERSISTENCE", "HISTORY_LOOKUP">>}
    [] t = "history"  -> {<<"FACT_COMPARISON">>}
    [] t = "compare"  -> {<<"CHANGE_PERSISTENCE", "REPORT_GENERATION">>}
    [] t = "report"   -> {<<"REPORT_PERSISTENCE", "RUN_SUMMARY">>}
    [] t = "finalize" -> {<<s, "finish">> : s \in Completed}
    [] OTHER          -> {}

Advance ==
  /\ pc = "judge" /\ result = "ok"
  /\ mode' \in IF call.tool = "profile" THEN {"BASELINE", "REFRESH"} ELSE {mode}
  /\ route' \in RoutesOf(call.tool, mode')
  /\ pc' = "follow"
  /\ UNCHANGED <<rows, state, count, asked, seen, call, result>>

\* "No deterministic transition for tool": the RuntimeError leaves run.
Escape ==
  /\ pc = "judge" /\ result = "ok" /\ RoutesOf(call.tool, mode) = {}
  /\ pc' = "escaped"
  /\ UNCHANGED <<rows, state, mode, count, asked, seen, call, result, route>>

\* _transition: the open stage succeeds and the next one is entered.
Transition ==
  /\ pc = "follow" /\ route # <<>> /\ Head(route) \in AgentStates
  /\ IF Head(route) \in After[state]
     THEN /\ stages' = Append(Close(stages, "SUCCEEDED"), Entered(Persisted[Head(route)]))
          /\ saved' = Persisted[Head(route)]
          /\ state' = Head(route)
          /\ route' = Tail(route)
          /\ UNCHANGED pc
     ELSE pc' = "escaped" /\ UNCHANGED <<stages, saved, state, route>>
  /\ UNCHANGED <<status, runMode, calls, effects, mode, count, asked, seen, call, result>>

SelectMode ==
  /\ pc = "follow" /\ route # <<>> /\ Head(route) = "select"
  /\ runMode' = IF mode = "REFRESH" THEN "TRACKING" ELSE "BASELINE"
  /\ route' = Tail(route)
  /\ UNCHANGED <<status, saved, stages, calls, effects,
                 state, mode, count, asked, seen, pc, call, result>>

\* update_context: agent_runs.competitor_id, which nothing else here reads.
SaveCompetitor ==
  /\ pc = "follow" /\ route # <<>> /\ Head(route) = "competitor"
  /\ route' = Tail(route)
  /\ UNCHANGED <<rows, state, mode, count, asked, seen, pc, call, result>>

EstablishBaseline ==
  /\ pc = "follow" /\ route # <<>> /\ Head(route) = "establish"
  /\ effects' = Append(effects, "establish")
  /\ route' = Tail(route)
  /\ UNCHANGED <<status, saved, runMode, stages, calls, state, mode, count, asked, seen, pc, call, result>>

FinishRun ==
  /\ pc = "follow" /\ route # <<>> /\ Head(route) = "finish"
  /\ stages' = Close(stages, "SUCCEEDED")
  /\ status' = "COMPLETED" /\ saved' = Persisted[state]
  /\ route' = Tail(route) /\ pc' = "ended"
  /\ UNCHANGED <<runMode, calls, effects, state, mode, count, asked, seen, call, result>>

NextTurn ==
  /\ pc = "follow" /\ route = <<>>
  /\ pc' = "loop"
  /\ UNCHANGED <<rows, state, mode, count, asked, seen, call, result, route>>

\* Mutant of FailRun: the stage that was open is left open.
FailWithoutStage ==
  /\ pc = "failing"
  /\ stages' = Append(stages, [stage |-> "FAILED", attempt |-> 1, status |-> "FAILED"])
  /\ status' = "FAILED" /\ saved' = Persisted["FAILED"]
  /\ state' = "FAILED" /\ pc' = "ended"
  /\ UNCHANGED <<runMode, calls, effects, mode, count, asked, seen, call, result, route>>

\* _fail: the open stage, a stage FAILED of its own and the run, in one transaction.
FailRun ==
  /\ pc = "failing"
  /\ stages' = Append(Close(stages, "FAILED"),
                      [stage |-> "FAILED", attempt |-> 1, status |-> "FAILED"])
  /\ status' = "FAILED" /\ saved' = Persisted["FAILED"]
  /\ state' = "FAILED" /\ pc' = "ended"
  /\ UNCHANGED <<runMode, calls, effects, mode, count, asked, seen, call, result, route>>

Stopped == pc \in {"ended", "escaped", "crashed"}

\* The process is lost, or a transaction raises where nothing catches it.
Crash ==
  /\ ~Stopped /\ pc # "start" /\ pc' = "crashed"
  /\ UNCHANGED <<rows, state, mode, count, asked, seen, call, result, route>>

Turn ==
  \/ CheckBudgets \/ ProviderFails \/ RequestInvalid
  \/ \E t \in Tools, a \in Args : RequestTool(t, a)
  \/ Reject \/ RecordCall \/ Execute \/ FinishCall \/ AuditFails
  \/ JudgeFailure \/ PublishPartial \/ RefusePartial

MoveOn ==
  \/ Advance \/ Escape \/ Transition \/ SelectMode \/ SaveCompetitor
  \/ EstablishBaseline \/ FinishRun \/ NextTurn \/ FailRun

Step == CreateRun \/ OpenFirstStage \/ Turn \/ MoveOn
Next == Step \/ Crash

\* The run is one thread, and the provider and every tool return or raise.
Spec == Init /\ [][Next]_vars /\ WF_vars(Step)
-----------------------------------------------------------------------------
(* Properties *)

Settled   == status \in {"COMPLETED", "PARTIAL_SUCCESS", "FAILED"}
StageRow  == [stage : Stages, attempt : Nat \ {0}, status : {"ENTERED", "SUCCEEDED", "FAILED"}]
CallRow   == [index : Nat, status : {"RUNNING", "SUCCEEDED", "FAILED"}]
RouteStep == AgentStates \cup {"select", "competitor", "establish", "finish"}

\* Every row and every variable of the run has its declared range.
TypeOK ==
  /\ status \in {"absent", "RUNNING", "COMPLETED", "PARTIAL_SUCCESS", "FAILED"}
  /\ saved \in Stages \cup {"none"}
  /\ runMode \in {"UNKNOWN", "BASELINE", "TRACKING"}
  /\ stages \in Seq(StageRow)
  /\ calls \in Seq(CallRow)
  /\ effects \in Seq(Tools \cup {"establish", "partial"})
  /\ state \in AgentStates
  /\ mode \in {"none", "BASELINE", "REFRESH"}
  /\ count \in Nat
  /\ asked \in [LoopStates -> Nat]
  /\ seen \in [Tools -> [Args -> Nat]]
  /\ pc \in {"start", "created", "loop", "ask", "reject", "record", "execute", "audit",
             "judge", "follow", "failing", "ended", "escaped", "crashed"}
  /\ call \in [tool : Tools, arg : Args] \cup {NoCall}
  /\ result \in {"none", "ok", "failed", "retryable", "partial"}
  /\ route \in Seq(RouteStep)

\* The check constraint of agent_runs (tool_call_count <= max_tool_calls) and the
\* unique call_index of tool_calls never fire, on any path: rejected calls,
\* retries and the audit row of a partial result are all charged, once, before
\* their row is written, and rows are numbered without a gap.
CallsWithinBudget ==
  /\ count <= MaxToolCalls
  /\ Len(calls) <= count
  /\ \A i \in 1 .. Len(calls) : calls[i].index = i

\* While a run goes on exactly its last stage is open; when its row is terminal
\* no stage is, and no tool call is left RUNNING but one whose audit failed.
\* uq_stage_events_attempt and ck_stage_events_attempt (max_attempts = 10) hold,
\* although several states share a stage and a failure writes its own.
OpenRowsBelongToRunningRuns ==
  /\ \A i \in 1 .. Len(stages) :
       stages[i].status = "ENTERED" => i = Len(stages) /\ status = "RUNNING"
  /\ Settled => stages # <<>>
  /\ \A i \in 1 .. Len(calls) :
       calls[i].status = "RUNNING" => i = Len(calls) /\ status \in {"RUNNING", "FAILED"}
  /\ \A i \in 1 .. Len(stages) : stages[i].attempt <= 10
  /\ \A i, j \in 1 .. Len(stages) :
       i # j => <<stages[i].stage, stages[i].attempt>> # <<stages[j].stage, stages[j].attempt>>

\* What a run of each mode does, in order.
Extracting == IF SkipExtraction THEN "skip" ELSE "extract"
BaselinePlan == <<"profile", "discover", "refresh", Extracting, "establish", "report", "finalize">>
RefreshPlan  == <<"profile", "refresh", Extracting, "history", "compare", "report", "finalize">>
PartialPlan(m) == IF m = "BASELINE"
                  THEN <<"profile", "discover", "refresh", "extract", "partial">>
                  ELSE <<"profile", "refresh", "extract", "partial">>
PrefixOf(s, p) == Len(s) <= Len(p) /\ \A i \in 1 .. Len(s) : s[i] = p[i]

\* Whatever the provider asks for, the durable effects of a run are those of its
\* mode, each at most once and in order, and a run is COMPLETED exactly when it
\* did all of them: no comparison without a lookup, no report without a baseline
\* or recorded changes, nothing after a partial result.
EffectsFollowMode ==
  /\ \/ PrefixOf(effects, BaselinePlan) \/ PrefixOf(effects, RefreshPlan)
     \/ PrefixOf(effects, PartialPlan("BASELINE")) \/ PrefixOf(effects, PartialPlan("REFRESH"))
  /\ status = "COMPLETED" =>
       effects = IF runMode = "BASELINE" THEN BaselinePlan ELSE RefreshPlan
  /\ status = "PARTIAL_SUCCESS" <=> \E i \in 1 .. Len(effects) : effects[i] = "partial"

\* A run row that is terminal never changes again, and nothing is added to its
\* stages, calls or effects.
SettledRowsAreFinal == [][Settled => UNCHANGED rows]_vars

\* Every run stops: the budgets bound what any provider can ask for.
Termination == <>Stopped

\* "The program - not the model - determines the final state" (README.md): unless
\* its process is lost, every run ends with a terminal row.
EndsDeterministically == <>(Settled \/ pc = "crashed")

\* What a client of the run is promised.
ReportOf == IF \E i \in 1 .. Len(effects) : effects[i] = "report" THEN "formal"
            ELSE IF \E i \in 1 .. Len(effects) : effects[i] = "partial" THEN "partial"
            ELSE "none"
Lifecycle == INSTANCE RunLifecycle WITH used <- Len(calls), report <- ReportOf
ImplementsLifecycle == Lifecycle!Spec
=============================================================================

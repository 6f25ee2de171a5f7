-------------------------- MODULE AnalysisWorkflow --------------------------
(***************************************************************************)
(* One analysis workflow, from the row of its run to its last transaction: *)
(* understanding, discovery, the research of each product, the comparison  *)
(* by CompetitiveReport.run.  Every commit of execute, discover_competitors *)
(* and research is an action, and so is every place where they let a       *)
(* failure through or catch it.  Other callers of run meet the workflow    *)
(* only at the lock of its target; they are the business of that module.   *)
(***************************************************************************)
EXTENDS CompetitiveReport, FiniteSets

CONSTANTS
  Flow,         \* the caller of run that is the workflow
  FlowTask,     \* the task id of its budget
  FlowScope,    \* what it compares
  Main,         \* task.target
  Rivals,       \* names it can be given, or discover
  MaxSelected,  \* competitors a task holds or a discovery selects: 2 in the code
  Unfolded      \* names whose casefold is not the normalized name of their profile

Products == {Main} \cup Rivals

\* Places of execute; while it researches a product, it is at that product.
Places == {"start", "understand", "select", "discovering", "research", "compare", "comparing",
           "finish", "done", "raised", "dead"}

ASSUME WorkflowAssumption ==
  /\ Flow \in Callers \ Clients /\ FlowTask \in Tasks /\ FlowScope \in Scopes
  /\ Main \notin Rivals /\ Unfolded \subseteq Products
  /\ MaxSelected \in Nat /\ Products \cap (Places \cup {"discovery"}) = {}

VARIABLES
  at,         \* where execute is
  root,       \* agent_runs.status of the workflow
  verdict,    \* result["status"]
  todo,       \* products still to research
  names,      \* the products of the task: target and selected competitors
  discovery,  \* result and status of the discovery run
  research,   \* what is known of each product: its profile, and its run
  exhausted,  \* budget.exhausted
  lost        \* children of the workflow whose last transaction failed

flowVars == <<at, root, verdict, todo, names, discovery, research, exhausted, lost>>
vars == <<flowVars, reportVars>>

\* A product has no verified identity; an identity but no profile id; a profile but
\* no run; the id of a run whose insertion did not commit; or a run.
NoRow == {"none", "unbound", "no run", "absent"}

TypeOK ==
  /\ ReportTypeOK
  /\ at \in Places \cup Products
  /\ root \in {"none", "RUNNING", "COMPLETED", "PARTIAL_SUCCESS", "FAILED"}
  /\ verdict \in {"none", "COMPLETE", "PARTIAL", "FAILED", "UNRESOLVED"}
  /\ todo \subseteq names /\ names \subseteq Products
  /\ discovery \in {"none", "RUNNING", "READY", "PARTIAL", "NEEDS_CLARIFICATION", "FAILED"}
  /\ research \in [Products -> NoRow \cup {"RUNNING", "COMPLETED", "PARTIAL_SUCCESS"}]
  /\ exhausted \in BOOLEAN
  /\ lost \subseteq Products \cup {"discovery"}

Init ==
  /\ ReportInit
  /\ at = "start" /\ root = "none" /\ verdict = "none" /\ todo = {} /\ names = {}
  /\ discovery = "none" /\ research = [p \in Products |-> "none"]
  /\ exhausted = FALSE /\ lost = {}

\* execute leaves its try block with a status.
End(status) == at' = "finish" /\ verdict' = status
\* The products to research are known.
Choose(rivals) ==
  /\ names' = {Main} \cup rivals /\ todo' = {Main} \cup rivals
  /\ at' = "research" /\ UNCHANGED verdict
-----------------------------------------------------------------------------
(* Understanding and discovery *)

Prepare ==
  /\ at = "start"
  /\ root' = "RUNNING" /\ at' = "understand"
  /\ UNCHANGED <<verdict, todo, names, discovery, research, exhausted, lost, reportVars>>

\* A READY task names its competitors or has them discovered; one for a single
\* product does neither.
Understand ==
  /\ at = "understand"
  /\ \/ \E rivals \in SUBSET Rivals : Cardinality(rivals) <= MaxSelected /\ Choose(rivals)
     \/ at' = "select" /\ UNCHANGED <<verdict, todo, names>>
  /\ UNCHANGED <<root, discovery, research, exhausted, lost, reportVars>>

\* The task is unclear or unsupported, or the model did not answer with one.
Unresolved ==
  /\ at = "understand"
  /\ End("UNRESOLVED") \/ End("FAILED")
  /\ UNCHANGED <<root, todo, names, discovery, research, exhausted, lost, reportVars>>

\* The ledger refuses the first request.
NothingLeft ==
  /\ at = "understand"
  /\ exhausted' = TRUE /\ End("PARTIAL")
  /\ UNCHANGED <<root, todo, names, discovery, research, lost, reportVars>>

\* A later request is refused; the code that made it goes on to report an issue.
Deny ==
  /\ at \in {"discovering", "research"} \cup Products /\ ~exhausted
  /\ exhausted' = TRUE
  /\ UNCHANGED <<at, root, verdict, todo, names, discovery, research, lost, reportVars>>

\* A checkpoint or a transaction outside the inner handlers raises.
Raise ==
  /\ at \in {"understand", "select", "research", "compare"}
  /\ End("FAILED")
  /\ UNCHANGED <<root, todo, names, discovery, research, exhausted, lost, reportVars>>

BeginDiscovery ==
  /\ at = "select"
  /\ discovery' = "RUNNING" /\ at' = "discovering"
  /\ UNCHANGED <<root, verdict, todo, names, research, exhausted, lost, reportVars>>

\* READY is two supported candidates and no issue; a target that is not resolved
\* needs clarification; an unexpected exception is FAILED; the rest is PARTIAL.
EndDiscovery ==
  /\ at = "discovering"
  /\ \/ /\ \E rivals \in SUBSET Rivals :
             /\ Cardinality(rivals) <= MaxSelected /\ Choose(rivals)
             /\ \/ discovery' = "PARTIAL"
                \/ discovery' = "READY" /\ Cardinality(rivals) = MaxSelected /\ ~exhausted
     \/ /\ discovery' \in {"NEEDS_CLARIFICATION", "FAILED"}
        /\ End(IF discovery' = "FAILED" THEN "FAILED" ELSE "UNRESOLVED")
        /\ UNCHANGED <<todo, names>>
  /\ UNCHANGED <<root, research, exhausted, lost, reportVars>>

\* The last transaction of discover_competitors fails.
LoseDiscovery ==
  /\ at = "discovering"
  /\ lost' = lost \cup {"discovery"} /\ End("FAILED")
  /\ UNCHANGED <<root, todo, names, discovery, research, exhausted, reportVars>>
-----------------------------------------------------------------------------
(* Research: the target first, then its competitors *)

Turn(p) == at = "research" /\ p \in todo /\ (Main \in todo => p = Main)

\* Mutant of NoResearch: a product without a run is tried again.
NoResearchYet(p) ==
  /\ Turn(p)
  /\ \E found \in IF exhausted THEN {"none"} ELSE NoRow :
       research' = [research EXCEPT ![p] = found]
  /\ UNCHANGED <<at, root, verdict, todo, names, discovery, exhausted, lost, reportVars>>

\* research returns without a run: nothing is left, the official source was not
\* verified, or a transaction of the verified product failed; every such failure is
\* caught, and the next product is researched.
NoResearch(p) ==
  /\ Turn(p)
  /\ \E found \in IF exhausted THEN {"none"} ELSE NoRow :
       research' = [research EXCEPT ![p] = found]
  /\ todo' = todo \ {p}
  /\ UNCHANGED <<at, root, verdict, names, discovery, exhausted, lost, reportVars>>

OpenResearch(p) ==
  /\ Turn(p) /\ ~exhausted
  /\ research' = [research EXCEPT ![p] = "RUNNING"] /\ at' = p
  /\ UNCHANGED <<root, verdict, todo, names, discovery, exhausted, lost, reportVars>>

\* Pages are stored and facts extracted, and the run ends: COMPLETED with facts and
\* without an issue.
CloseResearch(p) ==
  /\ at = p
  /\ \E status \in {"COMPLETED", "PARTIAL_SUCCESS"} :
       /\ exhausted => status = "PARTIAL_SUCCESS"
       /\ research' = [research EXCEPT ![p] = status]
  /\ todo' = todo \ {p} /\ at' = "research"
  /\ UNCHANGED <<root, verdict, names, discovery, exhausted, lost, reportVars>>

\* Mutant of LoseResearch: research catches the failure of its last transaction too.
SwallowLoss(p) ==
  /\ at = p
  /\ lost' = lost \cup {p} /\ todo' = todo \ {p} /\ at' = "research"
  /\ UNCHANGED <<root, verdict, names, discovery, research, exhausted, reportVars>>

\* The transaction that ends the run fails, outside the handlers of research.
LoseResearch(p) ==
  /\ at = p
  /\ lost' = lost \cup {p} /\ End("FAILED")
  /\ UNCHANGED <<root, todo, names, discovery, research, exhausted, reportVars>>

EndResearch ==
  /\ at = "research" /\ todo = {}
  /\ IF research[Main] = "none" THEN End("PARTIAL") ELSE at' = "compare" /\ UNCHANGED verdict
  /\ UNCHANGED <<root, todo, names, discovery, research, exhausted, lost, reportVars>>
-----------------------------------------------------------------------------
(* Comparison *)

HasRun(p) == research[p] \notin {"none", "unbound", "no run"}

\* run refuses the products: no id for the target, a run that is not there, or a
\* name whose casefold is not the normalized name of the profile.
Mismatch ==
  \/ research[Main] = "unbound" \/ Main \in Unfolded
  \/ \E p \in names : research[p] = "absent" \/ (HasRun(p) /\ p \in Unfolded)

RefuseProducts ==
  /\ at = "compare" /\ Mismatch
  /\ End("FAILED")
  /\ UNCHANGED <<root, todo, names, discovery, research, exhausted, lost, reportVars>>

Compare ==
  /\ at = "compare" /\ ~Mismatch
  /\ Ask(Flow, FlowTask, FlowScope) /\ at' = "comparing"
  /\ UNCHANGED <<root, verdict, todo, names, discovery, research, exhausted, lost>>

\* Mutant of Whole: the runs of the products are not looked at.
WholeBut == Cardinality(names) >= 2 /\ discovery \in {"none", "READY"} /\ ~exhausted

\* The matrix can be COMPLETE: two products or more, the discovery READY, the run of
\* each product COMPLETED, and a request still possible.
Whole ==
  /\ Cardinality(names) >= 2
  /\ discovery \in {"none", "READY"}
  /\ \A p \in names : research[p] = "COMPLETED"
  /\ ~exhausted

BuildMatrix ==
  /\ at = "comparing"
  /\ \E k \in Coverages : (k = "COMPLETE" => Whole) /\ Build(Flow, k)
  /\ UNCHANGED flowVars

\* compare_products returns, or lets an exception through.
EndComparison ==
  /\ at = "comparing"
  /\ \/ pc[Flow] = "done" /\ End(answer[Flow].status)
     \/ pc[Flow] = "raised" /\ End("FAILED")
  /\ UNCHANGED <<root, todo, names, discovery, research, exhausted, lost, reportVars>>
-----------------------------------------------------------------------------
(* The end of execute *)

\* Mutant of Finish: the status of the result becomes the status of the run.
FinishWithVerdict ==
  /\ at = "finish"
  /\ root' = verdict /\ at' = "done"
  /\ UNCHANGED <<verdict, todo, names, discovery, research, exhausted, lost, reportVars>>

Finish ==
  /\ at = "finish"
  /\ root' = CASE verdict = "COMPLETE" -> "COMPLETED"
               [] verdict = "FAILED"   -> "FAILED"
               [] OTHER                -> "PARTIAL_SUCCESS"
  /\ at' = "done"
  /\ UNCHANGED <<verdict, todo, names, discovery, research, exhausted, lost, reportVars>>

\* The last transaction fails: the rows stay RUNNING and the context stays open.
LoseRoot ==
  /\ at = "finish" /\ at' = "raised"
  /\ UNCHANGED <<root, verdict, todo, names, discovery, research, exhausted, lost, reportVars>>

Ended == {"start", "done", "raised", "dead"}

Crash ==
  /\ at \notin Ended /\ at' = "dead"
  /\ LoseProcess
  /\ UNCHANGED <<root, verdict, todo, names, discovery, research, exhausted, lost>>
-----------------------------------------------------------------------------
Execute ==
  \/ Understand \/ Unresolved \/ NothingLeft \/ Raise
  \/ BeginDiscovery \/ EndDiscovery \/ LoseDiscovery
  \/ \E p \in Products : NoResearch(p) \/ OpenResearch(p) \/ CloseResearch(p) \/ LoseResearch(p)
  \/ EndResearch \/ RefuseProducts \/ Compare \/ BuildMatrix \/ EndComparison
  \/ Finish \/ LoseRoot

RunStep == Run(Flow) /\ UNCHANGED flowVars

Next == Prepare \/ Execute \/ RunStep \/ Deny \/ Crash

\* execute and run are steps of one thread, which goes on while the process lives.
Fairness == WF_vars(Execute) /\ WF_vars(RunStep)

Spec == Init /\ [][Next]_vars /\ Fairness
-----------------------------------------------------------------------------
(* Properties *)

\* A COMPLETED workflow has published a complete report of its task: its competitors
\* were given or its discovery was READY, and the run of every product compared is
\* COMPLETED, nothing having been denied before the analysis.
CompleteMeansComplete ==
  root = "COMPLETED" =>
    /\ \E i \in Stored(FlowTask) : calls[i].status = "SUCCEEDED" /\ calls[i].report = "COMPLETE"
    /\ discovery \in {"none", "READY"}
    /\ Cardinality(names) >= 2 /\ \A p \in names : research[p] = "COMPLETED"

\* Nothing is compared before it is settled: src/docs/core-workflow-acceptance.md:16,
\* "UNKNOWN research runs are finished before conversion to ResearchProduct".  And when the
\* run of a workflow is settled, its discovery, its research and its comparison are settled
\* too, but for one whose own last transaction failed: and then the workflow is FAILED.
Children == {p \in Products : research[p] = "RUNNING"}
            \cup (IF discovery = "RUNNING" THEN {"discovery"} ELSE {})
ChildrenSettle ==
  /\ (\E i \in DOMAIN calls : calls[i].task = FlowTask) => Children = {} /\ research[Main] # "none"
  /\ root \in {"COMPLETED", "PARTIAL_SUCCESS", "FAILED"} =>
       /\ Children \subseteq lost
       /\ root # "FAILED" => Children = {} /\ \A i \in Stored(FlowTask) : calls[i].status # "RUNNING"

\* A workflow that started ends, unless its process is lost: whatever is denied or
\* fails on the way.
WorkflowEnds == at = "understand" ~> at \in Ended
=============================================================================

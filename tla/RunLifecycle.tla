---------------------------- MODULE RunLifecycle ----------------------------
(***************************************************************************)
(* What an analysis run promises to the pages and to the other runs that   *)
(* read its rows: it is RUNNING until it settles once and for all, its tool*)
(* calls never exceed its budget, a completed run has published a formal   *)
(* report, and a partial run publishes its report and settles in one step. *)
(***************************************************************************)
EXTENDS Naturals

CONSTANT MaxToolCalls   \* agent_runs.max_tool_calls

VARIABLES
  status,  \* agent_runs.status
  used,    \* rows of tool_calls
  report   \* "none", "formal" or "partial"

lifecycleVars == <<status, used, report>>

Init == status = "absent" /\ used = 0 /\ report = "none"

Begin == status = "absent" /\ status' = "RUNNING" /\ UNCHANGED <<used, report>>

Charge ==
  /\ status = "RUNNING" /\ used < MaxToolCalls
  /\ used' = used + 1
  /\ UNCHANGED <<status, report>>

PublishFormal ==
  /\ status = "RUNNING" /\ report = "none"
  /\ report' = "formal"
  /\ UNCHANGED <<status, used>>

PublishPartial ==
  /\ status = "RUNNING" /\ report = "none" /\ used < MaxToolCalls
  /\ report' = "partial" /\ status' = "PARTIAL_SUCCESS" /\ used' = used + 1

Complete ==
  /\ status = "RUNNING" /\ report = "formal"
  /\ status' = "COMPLETED"
  /\ UNCHANGED <<used, report>>

Fail == status = "RUNNING" /\ status' = "FAILED" /\ UNCHANGED <<used, report>>

Next == Begin \/ Charge \/ PublishFormal \/ PublishPartial \/ Complete \/ Fail

Spec == Init /\ [][Next]_lifecycleVars
=============================================================================

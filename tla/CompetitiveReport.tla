------------------------- MODULE CompetitiveReport -------------------------
(***************************************************************************)
(* CompetitiveReportService.run under concurrent callers: an execution is  *)
(* claimed for a task id while the row of its target is locked, analysed   *)
(* with at most one paid request, and published or recorded as failed.  A  *)
(* caller that brings a task id again is answered from the stored          *)
(* execution.  A transaction of the code is one action, except the claim,  *)
(* whose lock, insert and commit are apart because other claims fall       *)
(* between them.                                                           *)
(***************************************************************************)
EXTENDS Naturals, Sequences

CONSTANTS
  Callers,  \* calls of run: one per analysis workflow, one per request to write
  Writers,  \* those with a report_writer: a workflow may have its own
  Clients,  \* those whose client chose the task id: POST /api/analyst/saved-writing
  Tasks,    \* task ids: the id of a workflow's budget, the request_id of a client
  Scopes,   \* what is compared: task, products, goal and source report
  Targets,  \* competitors whose row a claim locks
  Target    \* the target of each scope

ASSUME ReportAssumption ==
  /\ Clients \subseteq Writers /\ Writers \subseteq Callers
  /\ Target \in [Scopes -> Targets]
  /\ "none" \notin Callers \cup Tasks \cup Scopes

VARIABLES
  calls,     \* compare_products rows by id, with the status of their run and their report
  lockedBy,  \* the transaction that holds the row lock of each target
  files,     \* task ids whose attempt file exists
  paid,      \* requests paid for each task
  pc,        \* where each caller is in run
  req,       \* task id and scope of each caller
  mine,      \* the execution each caller claimed
  coverage,  \* analysis["status"] of each caller
  answer     \* what run returned

reportVars == <<calls, lockedBy, files, paid, pc, req, mine, coverage, answer>>

Coverages == {"PARTIAL", "COMPLETE"}
Request   == [task : Tasks \cup {"none"}, scope : Scopes \cup {"none"}]
Execution == [task : Tasks, scope : Scopes, visible : BOOLEAN,
              status : {"RUNNING", "SUCCEEDED", "FAILED"}, report : {"none"} \cup Coverages]
Claiming  == {"claim", "commit"}
Working   == {"build", "write", "send", "publish", "failed"}

ReportTypeOK ==
  /\ calls \in Seq(Execution)
  /\ lockedBy \in [Targets -> Callers \cup {"none"}]
  /\ files \subseteq Tasks /\ paid \in [Tasks -> Nat]
  /\ pc \in [Callers -> {"idle", "lock", "refused", "done", "raised", "dead"} \cup Claiming \cup Working]
  /\ req \in [Callers -> Request]
  /\ mine \in [Callers -> Nat] /\ \A c \in Callers : mine[c] <= Len(calls)
  /\ coverage \in [Callers -> Coverages]
  /\ answer \in [Callers -> [call : Nat, status : {"none", "RUNNING", "FAILED"} \cup Coverages]]

ReportInit ==
  /\ calls = <<>> /\ lockedBy = [g \in Targets |-> "none"]
  /\ files = {} /\ paid = [t \in Tasks |-> 0]
  /\ pc = [c \in Callers |-> "idle"]
  /\ req = [c \in Callers |-> [task |-> "none", scope |-> "none"]]
  /\ mine = [c \in Callers |-> 0] /\ coverage = [c \in Callers |-> "PARTIAL"]
  /\ answer = [c \in Callers |-> [call |-> 0, status |-> "none"]]

Goto(c, place) == pc' = [pc EXCEPT ![c] = place]
Lock(c)        == Target[req[c].scope]
Unlock(c)      == lockedBy' = [lockedBy EXCEPT ![Lock(c)] = "none"]

\* The committed executions of a task; get_comparison_task takes the oldest.
Stored(t)    == {i \in DOMAIN calls : calls[i].visible /\ calls[i].task = t}
Existing(t)  == {i \in Stored(t) : \A j \in Stored(t) : i <= j}
\* Mutant of StatusOf: the status of the run, not the one of the stored answer.
RowStatus(i) == calls[i].status
StatusOf(i)  == IF calls[i].status = "SUCCEEDED" THEN calls[i].report ELSE calls[i].status
-----------------------------------------------------------------------------
(* The claim *)

\* A caller enters run. A workflow brings the fresh id of its budget, a request to
\* write the id its client chose, which other requests may carry too.
Ask(c, t, s) ==
  /\ pc[c] = "idle"
  /\ c \notin Clients => \A d \in Callers : req[d].task # t
  /\ \A d \in Callers \ Clients : d # c => req[d].task # t
  /\ req' = [req EXCEPT ![c] = [task |-> t, scope |-> s]]
  /\ Goto(c, "lock")
  /\ UNCHANGED <<calls, lockedBy, files, paid, mine, coverage, answer>>

\* Mutant of LockTarget: the row is read without FOR UPDATE.
ReadTarget(c) ==
  /\ pc[c] = "lock"
  /\ lockedBy' = [lockedBy EXCEPT ![Lock(c)] = c]
  /\ Goto(c, "claim")
  /\ UNCHANGED <<calls, files, paid, req, mine, coverage, answer>>

\* lock_target: SELECT ... FOR UPDATE on the competitor.
LockTarget(c) ==
  /\ pc[c] = "lock" /\ lockedBy[Lock(c)] = "none"
  /\ lockedBy' = [lockedBy EXCEPT ![Lock(c)] = c]
  /\ Goto(c, "claim")
  /\ UNCHANGED <<calls, files, paid, req, mine, coverage, answer>>

Tell(c, i) == answer' = [answer EXCEPT ![c] = [call |-> i, status |-> StatusOf(i)]]

\* Mutant of Reuse: the stored scope is not compared.
ReuseAny(c) ==
  /\ pc[c] = "claim"
  /\ \E i \in Existing(req[c].task) : Tell(c, i)
  /\ Unlock(c) /\ Goto(c, "done")
  /\ UNCHANGED <<calls, files, paid, req, mine, coverage>>

\* The stored execution of the same scope is the answer, whatever its status.
Reuse(c) ==
  /\ pc[c] = "claim"
  /\ \E i \in Existing(req[c].task) : calls[i].scope = req[c].scope /\ Tell(c, i)
  /\ Unlock(c) /\ Goto(c, "done")
  /\ UNCHANGED <<calls, files, paid, req, mine, coverage>>

\* TASK_SCOPE_CHANGED
Refuse(c) ==
  /\ pc[c] = "claim"
  /\ \E i \in Existing(req[c].task) : calls[i].scope # req[c].scope
  /\ Unlock(c) /\ Goto(c, "refused")
  /\ UNCHANGED <<calls, files, paid, req, mine, coverage, answer>>

\* Run, stage and call are inserted and take their ids; nobody else sees them yet.
Insert(c) ==
  /\ pc[c] = "claim" /\ Stored(req[c].task) = {}
  /\ calls' = Append(calls, [task |-> req[c].task, scope |-> req[c].scope, visible |-> FALSE,
                             status |-> "RUNNING", report |-> "none"])
  /\ mine' = [mine EXCEPT ![c] = Len(calls) + 1]
  /\ Goto(c, "commit")
  /\ UNCHANGED <<lockedBy, files, paid, req, coverage, answer>>

Show(c) == calls' = [calls EXCEPT ![mine[c]].visible = TRUE]

CommitClaim(c) ==
  /\ pc[c] = "commit"
  /\ Show(c) /\ Unlock(c) /\ Goto(c, "build")
  /\ UNCHANGED <<files, paid, req, mine, coverage, answer>>

\* The commit raises, before or after it took effect: run leaves the claim as it is.
LoseClaim(c) ==
  /\ pc[c] = "commit"
  /\ Show(c) \/ UNCHANGED calls
  /\ Unlock(c) /\ Goto(c, "raised")
  /\ UNCHANGED <<files, paid, req, mine, coverage, answer>>
-----------------------------------------------------------------------------
(* Matrix, analysis and writing *)

\* The matrix has gaps or none; a report with gaps, or without findings, is PARTIAL.
Build(c, k) ==
  /\ pc[c] = "build"
  /\ coverage' = [coverage EXCEPT ![c] = k]
  /\ Goto(c, "write")
  /\ UNCHANGED <<calls, lockedBy, files, paid, req, mine, answer>>

\* The matrix, the analysis or the reading view raises.
Break(c) ==
  /\ pc[c] = "build" /\ Goto(c, "failed")
  /\ UNCHANGED <<calls, lockedBy, files, paid, req, mine, coverage, answer>>

\* Mutant of OpenAttempt: the attempt file is opened with "w".
ReopenAttempt(c) ==
  /\ pc[c] = "write" /\ c \in Writers
  /\ files' = files \cup {req[c].task}
  /\ Goto(c, "send")
  /\ UNCHANGED <<calls, lockedBy, paid, req, mine, coverage, answer>>

\* The attempt file is created, exclusively, before anything is sent.
OpenAttempt(c) ==
  /\ pc[c] = "write" /\ c \in Writers /\ req[c].task \notin files
  /\ files' = files \cup {req[c].task}
  /\ Goto(c, "send")
  /\ UNCHANGED <<calls, lockedBy, paid, req, mine, coverage, answer>>

\* The one paid request: by the writer, or by the synthesis of a workflow without
\* one, whose failure makes the report PARTIAL.
Pay(c) ==
  /\ pc[c] = IF c \in Writers THEN "send" ELSE "write"
  /\ paid' = [paid EXCEPT ![req[c].task] = @ + 1]
  /\ \E k \in IF c \in Writers THEN {coverage[c]} ELSE {coverage[c], "PARTIAL"} :
       coverage' = [coverage EXCEPT ![c] = k]
  /\ Goto(c, "publish")
  /\ UNCHANGED <<calls, lockedBy, files, req, mine, answer>>

\* Nothing is sent: preflight, attempt file or ledger refuse, or there is nothing
\* to rank. The prose of a writer is withheld, the coverage stays.
SendNothing(c) ==
  /\ pc[c] \in {"write", "send"}
  /\ coverage' = [coverage EXCEPT ![c] = IF c \in Writers THEN @ ELSE "PARTIAL"]
  /\ Goto(c, "publish")
  /\ UNCHANGED <<calls, lockedBy, files, paid, req, mine, answer>>
-----------------------------------------------------------------------------
(* Publication *)

Answered(c, status) == answer' = [answer EXCEPT ![c] = [call |-> mine[c], status |-> status]]
Published(c) ==
  calls' = [calls EXCEPT ![mine[c]].status = "SUCCEEDED", ![mine[c]].report = coverage[c]]

\* Report, call, stage and run are written in one transaction.
Publish(c) ==
  /\ pc[c] = "publish"
  /\ Published(c) /\ Answered(c, coverage[c]) /\ Goto(c, "done")
  /\ UNCHANGED <<lockedBy, files, paid, req, mine, coverage>>

\* That transaction raises, before or after it took effect.
LosePublication(c) ==
  /\ pc[c] = "publish"
  /\ Published(c) \/ UNCHANGED calls
  /\ Goto(c, "failed")
  /\ UNCHANGED <<lockedBy, files, paid, req, mine, coverage, answer>>

\* Mutant of RecordFailure: the handler of run only returns.
ReturnFailure(c) ==
  /\ pc[c] = "failed"
  /\ Answered(c, "FAILED") /\ Goto(c, "done")
  /\ UNCHANGED <<calls, lockedBy, files, paid, req, mine, coverage>>

Failed(c) == calls' = [calls EXCEPT ![mine[c]].status = "FAILED"]

\* The handler of run records the failure in a transaction of its own.
RecordFailure(c) ==
  /\ pc[c] = "failed"
  /\ Failed(c) /\ Answered(c, "FAILED") /\ Goto(c, "done")
  /\ UNCHANGED <<lockedBy, files, paid, req, mine, coverage>>

LoseFailure(c) ==
  /\ pc[c] = "failed"
  /\ Failed(c) \/ UNCHANGED calls
  /\ Goto(c, "raised")
  /\ UNCHANGED <<lockedBy, files, paid, req, mine, coverage, answer>>
-----------------------------------------------------------------------------
\* What run does by itself, once it was asked, but the choice of Build.
Run(c) ==
  \/ LockTarget(c) \/ Reuse(c) \/ Refuse(c) \/ Insert(c) \/ CommitClaim(c) \/ LoseClaim(c)
  \/ Break(c) \/ OpenAttempt(c) \/ Pay(c) \/ SendNothing(c)
  \/ Publish(c) \/ LosePublication(c) \/ RecordFailure(c) \/ LoseFailure(c)

\* The process is lost: open transactions are rolled back, their locks released.
LoseProcess ==
  /\ pc' = [c \in Callers |-> IF pc[c] \in {"lock"} \cup Claiming \cup Working THEN "dead" ELSE pc[c]]
  /\ lockedBy' = [g \in Targets |-> "none"]
  /\ UNCHANGED <<calls, files, paid, req, mine, coverage, answer>>

ReportNext ==
  \/ \E c \in Callers : \/ \E t \in Tasks, s \in Scopes : Ask(c, t, s)
                        \/ \E k \in Coverages : Build(c, k)
                        \/ Run(c)
  \/ \E c \in Callers : pc[c] \in {"lock"} \cup Claiming \cup Working /\ LoseProcess

ReportSpec == ReportInit /\ [][ReportNext]_reportVars
-----------------------------------------------------------------------------
(* Properties *)

\* For one target there is at most one execution of a task, however many calls
\* carry its id, fail or are lost: the row lock makes look-up and claim one step.
\* (Claims of two targets take two locks, and can be made for one task.)
OneExecutionPerTarget ==
  \A t \in Tasks : \A i, j \in Stored(t) :
    Target[calls[i].scope] = Target[calls[j].scope] => i = j

\* A task is paid for at most once, over all processes and calls that carry its id,
\* even when two of them hold claims: the claim guards a workflow, the attempt file a
\* writer.
PaidOnce == \A t \in Tasks : paid[t] <= 1

\* What a call is answered is an execution of the task and scope it asked for, and
\* two calls that ask for the same are told of the same execution.
AnswersAgree ==
  \A c, d \in Callers : answer[c].call # 0 =>
    /\ [task |-> calls[answer[c].call].task, scope |-> calls[answer[c].call].scope] = req[c]
    /\ answer[d].call # 0 /\ req[c] = req[d] => answer[c].call = answer[d].call

\* A claim that stays RUNNING has a caller at work on it, or one that died with the
\* process or could not write to the database any more: no failure of the analysis
\* leaves it behind.
ClaimsAreOwned ==
  \A i \in DOMAIN calls : calls[i].visible /\ calls[i].status = "RUNNING" =>
    \E c \in Callers : mine[c] = i /\ pc[c] \in Working \cup {"raised", "dead"}
=============================================================================

------------------------ MODULE AnalysisTaskManager ------------------------
(***************************************************************************)
(* The task manager of the web console: requests are admitted by the key of*)
(* their competitor and by capacity, submitted to a pool of threads, and   *)
(* answered when their run has started or five seconds have passed.  One   *)
(* action is one critical section, one transaction, or one step of the     *)
(* runner that the manager can observe.                                    *)
(***************************************************************************)
EXTENDS FiniteSets, Naturals

CONSTANTS
  Requests,    \* requests to POST /api/analyses and to the workflow endpoint
  Workflows,   \* those handled by start_workflow
  Keys,        \* normalized names, and hashes of workflow texts
  Key,         \* the key the manager derives from a request
  MaxWorkers,  \* max_workers of the manager and of its executor
  Faults       \* what may go wrong: "submit", "build", "row", "runner", "crash"

ASSUME ManagerAssumption ==
  /\ Workflows \subseteq Requests
  /\ Key \in [Requests -> Keys]
  /\ MaxWorkers \in Nat \ {0}
  /\ Faults \subseteq {"submit", "build", "row", "runner", "crash"}

VARIABLES
  active,   \* _active
  client,   \* what each request's HTTP handler is doing or was answered
  task,     \* where the work of each request is
  holder,   \* what _execute has told start: holder and the Event started
  run,      \* agent_runs.status of each request's run
  lost      \* requests whose row a failed transaction or a crash left behind

vars == <<active, client, task, holder, run, lost>>

\* The status the runner or the workflow stored itself, and the one the manager stores.
Settled == {"ended", "FAILED"}
InPool  == {"building", "created", "running", "escaped", "ending"}
Live(q) == task[q] \in {"queued"} \cup InPool

TypeOK ==
  /\ active \subseteq Keys
  /\ client \in [Requests -> {"new", "submit", "waiting", "accepted", "failed", "refused"}]
  /\ task \in [Requests -> {"none", "queued", "done"} \cup InPool]
  /\ holder \in [Requests -> {"empty", "run", "error"}]
  /\ run \in [Requests -> {"none", "RUNNING"} \cup Settled]
  /\ lost \subseteq Requests

Init ==
  /\ active = {}
  /\ client = [q \in Requests |-> "new"] /\ task = [q \in Requests |-> "none"]
  /\ holder = [q \in Requests |-> "empty"] /\ run = [q \in Requests |-> "none"]
  /\ lost = {}
-----------------------------------------------------------------------------
(* start and start_workflow *)

\* Under the lock: one active task for a key, and no more than the pool can run.
Refuse(q) ==
  /\ client[q] = "new"
  /\ Key[q] \in active \/ Cardinality(active) >= MaxWorkers
  /\ client' = [client EXCEPT ![q] = "refused"]
  /\ UNCHANGED <<active, task, holder, run, lost>>

\* Mutant of Admissible: the key is not looked up.
AdmissibleByCapacity(q) == Cardinality(active) < MaxWorkers
Admissible(q) == Key[q] \notin active /\ Cardinality(active) < MaxWorkers

\* Mutant of Admit: the slot is taken under the name as it was typed.
AdmitByName(q) ==
  /\ q \notin Workflows /\ client[q] = "new" /\ Admissible(q)
  /\ active' = active \cup {q}
  /\ client' = [client EXCEPT ![q] = "submit"]
  /\ UNCHANGED <<task, holder, run, lost>>

Admit(q) ==
  /\ q \notin Workflows /\ client[q] = "new" /\ Admissible(q)
  /\ active' = active \cup {Key[q]}
  /\ client' = [client EXCEPT ![q] = "submit"]
  /\ UNCHANGED <<task, holder, run, lost>>

\* start_workflow: the run is created under the lock.
Prepare(q) ==
  /\ q \in Workflows /\ client[q] = "new" /\ Admissible(q)
  /\ \/ /\ run' = [run EXCEPT ![q] = "RUNNING"]
        /\ active' = active \cup {Key[q]}
        /\ client' = [client EXCEPT ![q] = "submit"]
     \/ /\ "row" \in Faults
        /\ client' = [client EXCEPT ![q] = "failed"]
        /\ UNCHANGED <<active, run>>
  /\ UNCHANGED <<task, holder, lost>>

Submit(q) ==
  /\ client[q] = "submit"
  /\ task' = [task EXCEPT ![q] = "queued"]
  /\ client' = [client EXCEPT ![q] = IF q \in Workflows THEN "accepted" ELSE "waiting"]
  /\ UNCHANGED <<active, holder, run, lost>>

\* Mutant of SubmitFails: the slot is kept.
SubmitFailsHolding(q) ==
  /\ "submit" \in Faults /\ client[q] = "submit"
  /\ client' = [client EXCEPT ![q] = "failed"]
  /\ UNCHANGED <<active, task, holder, run, lost>>

\* submit raises: the slot is given back, and the run of a workflow is failed.
SubmitFails(q) ==
  /\ "submit" \in Faults /\ client[q] = "submit"
  /\ active' = active \ {Key[q]}
  /\ client' = [client EXCEPT ![q] = "failed"]
  /\ \/ run' = [run EXCEPT ![q] = IF q \in Workflows THEN "FAILED" ELSE @] /\ UNCHANGED lost
     \/ "row" \in Faults /\ lost' = lost \cup {q} /\ UNCHANGED run
  /\ UNCHANGED <<task, holder>>

\* started was set: by run_started, or by a failure before it.
Answer(q) ==
  /\ client[q] = "waiting" /\ holder[q] # "empty"
  /\ client' = [client EXCEPT ![q] = IF holder[q] = "run" THEN "accepted" ELSE "failed"]
  /\ UNCHANGED <<active, task, holder, run, lost>>

\* Mutant of TimeOut: a request that gave up gives its slot back.
TimeOutAndRelease(q) ==
  /\ client[q] = "waiting" /\ holder[q] = "empty"
  /\ client' = [client EXCEPT ![q] = "failed"]
  /\ active' = active \ {Key[q]}
  /\ UNCHANGED <<task, holder, run, lost>>

\* Five seconds without run_started: the request fails, its task goes on.
TimeOut(q) ==
  /\ client[q] = "waiting" /\ holder[q] = "empty"
  /\ client' = [client EXCEPT ![q] = "failed"]
  /\ UNCHANGED <<active, task, holder, run, lost>>
-----------------------------------------------------------------------------
(* _execute, on a thread of the pool *)

Take(q) ==
  /\ task[q] = "queued"
  /\ Cardinality({p \in Requests : task[p] \in InPool}) < MaxWorkers
  /\ task' = [task EXCEPT ![q] = IF q \in Workflows THEN "running" ELSE "building"]
  /\ UNCHANGED <<active, client, holder, run, lost>>

\* The builder, or the transaction that creates the run, raises.
BuildFails(q) ==
  /\ "build" \in Faults /\ task[q] = "building"
  /\ task' = [task EXCEPT ![q] = "ending"]
  /\ holder' = [holder EXCEPT ![q] = "error"]
  /\ UNCHANGED <<active, client, run, lost>>

CreateRun(q) ==
  /\ task[q] = "building"
  /\ run' = [run EXCEPT ![q] = "RUNNING"]
  /\ task' = [task EXCEPT ![q] = "created"]
  /\ UNCHANGED <<active, client, holder, lost>>

\* The first stage is stored and run_started reported; or the transaction raises
\* before the manager knows the run.
Started(q) ==
  /\ task[q] = "created"
  /\ \/ /\ task' = [task EXCEPT ![q] = "running"] /\ holder' = [holder EXCEPT ![q] = "run"]
        /\ UNCHANGED lost
     \/ /\ "row" \in Faults /\ lost' = lost \cup {q}
        /\ task' = [task EXCEPT ![q] = "ending"] /\ holder' = [holder EXCEPT ![q] = "error"]
  /\ UNCHANGED <<active, client, run>>

\* The runner, or the workflow, stores how it ended.
End(q) ==
  /\ task[q] = "running"
  /\ run' = [run EXCEPT ![q] = "ended"]
  /\ task' = [task EXCEPT ![q] = "ending"]
  /\ UNCHANGED <<active, client, holder, lost>>

\* Mutant of Escape: the exception of a runner is not handled.
EscapeUnmarked(q) ==
  /\ task[q] = "running" /\ "runner" \in Faults
  /\ task' = [task EXCEPT ![q] = "ending"]
  /\ lost' = IF q \in Workflows THEN lost \cup {q} ELSE lost
  /\ UNCHANGED <<active, client, holder, run>>

\* An exception leaves the runner, or the last transaction of the workflow.
Escape(q) ==
  /\ task[q] = "running" /\ "runner" \in Faults
  /\ task' = [task EXCEPT ![q] = IF q \in Workflows THEN "ending" ELSE "escaped"]
  /\ lost' = IF q \in Workflows THEN lost \cup {q} ELSE lost
  /\ UNCHANGED <<active, client, holder, run>>

\* The run the manager knows of is marked failed, if the database allows it.
MarkFailed(q) ==
  /\ task[q] = "escaped"
  /\ \/ run' = [run EXCEPT ![q] = "FAILED"] /\ UNCHANGED lost
     \/ "row" \in Faults /\ lost' = lost \cup {q} /\ UNCHANGED run
  /\ task' = [task EXCEPT ![q] = "ending"]
  /\ UNCHANGED <<active, client, holder>>

\* finally: the slot is given back.
Release(q) ==
  /\ task[q] = "ending"
  /\ active' = active \ {Key[q]}
  /\ task' = [task EXCEPT ![q] = "done"]
  /\ UNCHANGED <<client, holder, run, lost>>
-----------------------------------------------------------------------------
\* The process stops.  Nothing in it is recovered; the rows stay as they are.
Crash ==
  /\ "crash" \in Faults
  /\ active' = {}
  /\ client' = [q \in Requests |-> IF client[q] \in {"submit", "waiting"} THEN "failed" ELSE client[q]]
  /\ task' = [q \in Requests |-> IF Live(q) THEN "done" ELSE task[q]]
  /\ lost' = lost \cup {q \in Requests : Live(q) \/ client[q] = "submit"}
  /\ UNCHANGED <<holder, run>>

Handler(q) == Admit(q) \/ Prepare(q) \/ Submit(q) \/ SubmitFails(q) \/ Answer(q) \/ TimeOut(q)
Worker(q)  == \/ Take(q) \/ BuildFails(q) \/ CreateRun(q) \/ Started(q) \/ End(q) \/ Escape(q)
              \/ MarkFailed(q) \/ Release(q)

Next == \/ \E q \in Requests : Refuse(q) \/ Handler(q) \/ Worker(q)
        \/ Crash

\* A thread of the pool goes on until its work is done (a run terminates), and a
\* handler that waits is answered or times out.
Spec == /\ Init /\ [][Next]_vars
        /\ \A q \in Requests : /\ WF_vars(Worker(q))
                               /\ WF_vars(Submit(q) \/ SubmitFails(q) \/ Answer(q) \/ TimeOut(q))
-----------------------------------------------------------------------------
(* Properties *)

\* Two tasks of one key are never in the pool or in its queue at once, however
\* late an earlier one is ("one active task per normalized competitor").
OneTaskPerKey ==
  \A p, q \in Requests : p # q /\ Live(p) /\ Live(q) => Key[p] # Key[q]

\* Every slot belongs to a task or to a request about to submit one, and every
\* task has a slot: none leaks, none is given back early, and an admitted task
\* never waits for a thread behind another.
SlotsAreHeld ==
  /\ active = {Key[q] : q \in {p \in Requests : Live(p) \/ client[p] = "submit"}}
  /\ \A q \in Requests : task[q] = "queued" =>
       Cardinality({p \in Requests : task[p] \in InPool}) < MaxWorkers

\* A run told to a client exists, and only a failed transaction or a lost process
\* leaves a row in RUNNING that no task will settle.
RunsAreOwned ==
  \A q \in Requests :
    /\ client[q] = "accepted" => run[q] # "none"
    /\ run[q] = "RUNNING" => Live(q) \/ client[q] = "submit" \/ q \in lost

\* Every slot comes back, whatever fails in the task that holds it.
SlotsReturn == \A k \in Keys : k \in active ~> k \notin active
=============================================================================

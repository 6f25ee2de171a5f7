--------------------- MODULE AnalysisTaskManagerProofs ---------------------
(***************************************************************************)
(* Theorems about AnalysisTaskManager, for all requests, keys and faults.  *)
(***************************************************************************)
EXTENDS AnalysisTaskManager, FiniteSetTheorems, TLAPS

\* A request holds a slot from its admission to the end of its task.
Holds(q) == Live(q) \/ client[q] = "submit"

\* A request has no task before it is submitted; the slot of every holder is
\* taken, and taken once.
HeldOnce ==
  /\ \A q \in Requests : client[q] \in {"new", "submit", "refused"} => task[q] = "none"
  /\ \A q \in Requests : Holds(q) => Key[q] \in active
  /\ \A p, q \in Requests : p # q /\ Holds(p) /\ Holds(q) => Key[p] # Key[q]

LEMMA StartTyped ==
  ASSUME TypeOK, NEW q \in Requests, Refuse(q) \/ Handler(q)
  PROVE  TypeOK'
<1> USE ManagerAssumption DEF TypeOK, Settled, InPool
<1>1. CASE Refuse(q)
  BY <1>1 DEF Refuse
<1>2. CASE Admit(q)
  BY <1>2 DEF Admit
<1>3. CASE Prepare(q)
  BY <1>3 DEF Prepare
<1>4. CASE Submit(q)
  BY <1>4 DEF Submit
<1>5. CASE SubmitFails(q)
  BY <1>5 DEF SubmitFails
<1>6. CASE Answer(q)
  BY <1>6 DEF Answer
<1>7. CASE TimeOut(q)
  BY <1>7 DEF TimeOut
<1> QED  BY <1>1, <1>2, <1>3, <1>4, <1>5, <1>6, <1>7 DEF Handler

LEMMA WorkTyped ==
  ASSUME TypeOK, NEW q \in Requests, Worker(q)
  PROVE  TypeOK'
<1> USE DEF TypeOK, Settled, InPool
<1>1. CASE Take(q)
  BY <1>1 DEF Take
<1>2. CASE BuildFails(q)
  BY <1>2 DEF BuildFails
<1>3. CASE CreateRun(q)
  BY <1>3 DEF CreateRun
<1>4. CASE Started(q)
  BY <1>4 DEF Started
<1>5. CASE End(q)
  BY <1>5 DEF End
<1>6. CASE Escape(q)
  BY <1>6 DEF Escape
<1>7. CASE MarkFailed(q)
  BY <1>7 DEF MarkFailed
<1>8. CASE Release(q)
  BY <1>8 DEF Release
<1> QED  BY <1>1, <1>2, <1>3, <1>4, <1>5, <1>6, <1>7, <1>8 DEF Worker

LEMMA TypedStep == ASSUME TypeOK, [Next]_vars PROVE TypeOK'
<1>1. CASE UNCHANGED vars
  BY <1>1 DEF vars, TypeOK
<1>2. ASSUME NEW q \in Requests, Refuse(q) \/ Handler(q) \/ Worker(q)
      PROVE  TypeOK'
  BY <1>2, StartTyped, WorkTyped
<1>3. CASE Crash
  BY <1>3 DEF Crash, TypeOK, InPool
<1> QED  BY <1>1, <1>2, <1>3 DEF Next

\* Every reachable state of the manager is well typed.
THEOREM TypeCorrect == Spec => []TypeOK
<1>1. Init => TypeOK
  BY DEF Init, TypeOK
<1>2. TypeOK /\ [Next]_vars => TypeOK'
  BY TypedStep
<1> QED  BY <1>1, <1>2, PTL DEF Spec
-----------------------------------------------------------------------------
(* One task for a key *)

LEMMA HandlerHeldOnce ==
  ASSUME TypeOK, HeldOnce, NEW q \in Requests, Refuse(q) \/ Handler(q)
  PROVE  HeldOnce'
<1> USE DEF TypeOK, HeldOnce, Holds, Live, InPool
<1>1. CASE Refuse(q)
  BY <1>1 DEF Refuse
<1>2. CASE Admit(q)
  BY <1>2 DEF Admit, Admissible
<1>3. CASE Prepare(q)
  BY <1>3 DEF Prepare, Admissible
<1>4. CASE Submit(q)
  BY <1>4 DEF Submit
<1>5. CASE SubmitFails(q)
  BY <1>5 DEF SubmitFails
<1>6. CASE Answer(q)
  BY <1>6 DEF Answer
<1>7. CASE TimeOut(q)
  BY <1>7 DEF TimeOut
<1> QED  BY <1>1, <1>2, <1>3, <1>4, <1>5, <1>6, <1>7 DEF Handler

LEMMA WorkerHeldOnce ==
  ASSUME TypeOK, HeldOnce, NEW q \in Requests, Worker(q)
  PROVE  HeldOnce'
<1> USE DEF TypeOK, HeldOnce, Holds, Live, InPool
<1>1. CASE Take(q)
  BY <1>1 DEF Take
<1>2. CASE BuildFails(q) \/ CreateRun(q) \/ Started(q)
  BY <1>2 DEF BuildFails, CreateRun, Started
<1>3. CASE End(q) \/ Escape(q) \/ MarkFailed(q)
  BY <1>3 DEF End, Escape, MarkFailed
<1>4. CASE Release(q)
  BY <1>4 DEF Release
<1> QED  BY <1>1, <1>2, <1>3, <1>4 DEF Worker

LEMMA HeldOnceStep == ASSUME TypeOK, HeldOnce, [Next]_vars PROVE HeldOnce'
<1>1. CASE UNCHANGED vars
  BY <1>1 DEF vars, HeldOnce, Holds, Live, InPool
<1>2. ASSUME NEW q \in Requests, Refuse(q) \/ Handler(q) \/ Worker(q)
      PROVE  HeldOnce'
  BY <1>2, HandlerHeldOnce, WorkerHeldOnce
<1>3. CASE Crash
  BY <1>3 DEF Crash, TypeOK, HeldOnce, Holds, Live, InPool
<1> QED  BY <1>1, <1>2, <1>3 DEF Next

\* For any number of requests and threads: two tasks of one key never coexist,
\* whichever requests time out, fail to be submitted or lose their process.
THEOREM OneTask == Spec => []OneTaskPerKey
<1>1. Init => HeldOnce
  BY DEF Init, HeldOnce, Holds, Live, InPool
<1>2. TypeOK /\ HeldOnce /\ [Next]_vars => HeldOnce'
  BY HeldOnceStep
<1>3. HeldOnce => OneTaskPerKey
  BY DEF HeldOnce, OneTaskPerKey, Holds
<1> QED  BY <1>1, <1>2, <1>3, TypeCorrect, PTL DEF Spec
-----------------------------------------------------------------------------
(* Slots *)

\* No slot without a holder, and never more slots than threads.
Bounded ==
  /\ \A k \in active : \E q \in Requests : Holds(q) /\ Key[q] = k
  /\ IsFiniteSet(active) /\ Cardinality(active) <= MaxWorkers

LEMMA SlotTaken ==
  ASSUME IsFiniteSet(active), Cardinality(active) < MaxWorkers, NEW k
  PROVE  IsFiniteSet(active \cup {k}) /\ Cardinality(active \cup {k}) <= MaxWorkers
<1>1. /\ IsFiniteSet(active \cup {k})
      /\ Cardinality(active \cup {k}) = IF k \in active THEN Cardinality(active) ELSE Cardinality(active) + 1
  BY FS_AddElement
<1>2. Cardinality(active) \in Nat
  BY FS_CardinalityType
<1> QED  BY <1>1, <1>2, ManagerAssumption

LEMMA SlotGiven ==
  ASSUME IsFiniteSet(active), Cardinality(active) <= MaxWorkers, NEW k
  PROVE  IsFiniteSet(active \ {k}) /\ Cardinality(active \ {k}) <= MaxWorkers
<1>1. /\ IsFiniteSet(active \ {k})
      /\ Cardinality(active \ {k}) = IF k \in active THEN Cardinality(active) - 1 ELSE Cardinality(active)
  BY FS_RemoveElement
<1>2. Cardinality(active) \in Nat
  BY FS_CardinalityType
<1> QED  BY <1>1, <1>2, ManagerAssumption

LEMMA HandlerBounded ==
  ASSUME TypeOK, HeldOnce, Bounded, NEW q \in Requests, Refuse(q) \/ Handler(q)
  PROVE  Bounded'
<1> USE DEF TypeOK, Holds, Live, InPool
<1>1. CASE Refuse(q)
  BY <1>1 DEF Refuse, Bounded
<1>2. CASE Admit(q) \/ (Prepare(q) /\ active' = active \cup {Key[q]} /\ client' = [client EXCEPT ![q] = "submit"])
  <2>1. /\ active' = active \cup {Key[q]} /\ client' = [client EXCEPT ![q] = "submit"]
        /\ task' = task /\ Cardinality(active) < MaxWorkers
        /\ client[q] = "new"
    BY <1>2 DEF Admit, Prepare, Admissible
  <2>2. \A p \in Requests : Holds(p) => Holds(p)'
    BY <2>1
  <2>3. Holds(q)'
    BY <2>1
  <2>4. \A k \in active' : \E p \in Requests : Holds(p)' /\ Key[p] = k
    BY <2>1, <2>2, <2>3 DEF Bounded
  <2> QED  BY <2>1, <2>4, SlotTaken DEF Bounded
<1>3. CASE Prepare(q) /\ UNCHANGED <<active, task>> /\ client' = [client EXCEPT ![q] = "failed"]
  BY <1>3 DEF Bounded, Prepare
<1>4. CASE Submit(q)
  BY <1>4 DEF Submit, Bounded
<1>5. CASE SubmitFails(q)
  <2>1. active' = active \ {Key[q]} /\ client' = [client EXCEPT ![q] = "failed"] /\ task' = task
    BY <1>5 DEF SubmitFails
  <2>2. \A p \in Requests : p # q /\ Holds(p) => Holds(p)'
    BY <2>1
  <2>3. \A k \in active' : \E p \in Requests : Holds(p)' /\ Key[p] = k
    BY <2>1, <2>2 DEF Bounded
  <2> QED  BY <2>1, <2>3, SlotGiven DEF Bounded
<1>6. CASE Answer(q) \/ TimeOut(q)
  BY <1>6 DEF Answer, TimeOut, Bounded
<1> QED  BY <1>1, <1>2, <1>3, <1>4, <1>5, <1>6 DEF Handler, Prepare

LEMMA WorkerBounded ==
  ASSUME TypeOK, HeldOnce, Bounded, NEW q \in Requests, Worker(q)
  PROVE  Bounded'
<1> USE DEF TypeOK, Holds, Live, InPool
<1>1. CASE Take(q)
  BY <1>1 DEF Take, Bounded
<1>2. CASE BuildFails(q) \/ CreateRun(q) \/ Started(q)
  BY <1>2 DEF BuildFails, CreateRun, Started, Bounded
<1>3. CASE End(q) \/ Escape(q) \/ MarkFailed(q)
  BY <1>3 DEF End, Escape, MarkFailed, Bounded
<1>4. CASE Release(q)
  <2>1. active' = active \ {Key[q]} /\ client' = client /\ task' = [task EXCEPT ![q] = "done"]
    BY <1>4 DEF Release
  <2>2. \A p \in Requests : p # q /\ Holds(p) => Holds(p)'
    BY <2>1
  <2>3. \A k \in active' : \E p \in Requests : Holds(p)' /\ Key[p] = k
    BY <2>1, <2>2 DEF Bounded
  <2> QED  BY <2>1, <2>3, SlotGiven DEF Bounded
<1> QED  BY <1>1, <1>2, <1>3, <1>4 DEF Worker

LEMMA BoundedStep == ASSUME TypeOK, HeldOnce, Bounded, [Next]_vars PROVE Bounded'
<1>1. CASE UNCHANGED vars
  BY <1>1 DEF vars, Bounded, Holds, Live, InPool
<1>2. ASSUME NEW q \in Requests, Refuse(q) \/ Handler(q) \/ Worker(q)
      PROVE  Bounded'
  BY <1>2, HandlerBounded, WorkerBounded
<1>3. CASE Crash
  BY <1>3, FS_EmptySet, ManagerAssumption DEF Crash, Bounded
<1> QED  BY <1>1, <1>2, <1>3 DEF Next

\* The key maps the tasks in the pool, and one that waits, to different slots.
LEMMA QueuedFindsAThread ==
  ASSUME TypeOK, HeldOnce, Bounded, NEW q \in Requests, task[q] = "queued"
  PROVE  Cardinality({p \in Requests : task[p] \in InPool}) < MaxWorkers
<1> DEFINE Pool == {p \in Requests : task[p] \in InPool}
           f == [p \in Pool \cup {q} |-> Key[p]]
<1>1. q \notin Pool
  BY DEF InPool
<1>2. \A p \in Pool \cup {q} : p \in Requests /\ Holds(p)
  BY DEF Holds, Live
<1>3. f \in Injection(Pool \cup {q}, active)
  <2>1. f \in [Pool \cup {q} -> active]
    BY <1>2 DEF HeldOnce
  <2>2. \A a, b \in Pool \cup {q} : f[a] = f[b] => a = b
    BY <1>2 DEF HeldOnce
  <2> QED  BY <2>1, <2>2 DEF Injection, IsInjective
<1>4. /\ IsFiniteSet(Pool \cup {q})
      /\ Cardinality(Pool \cup {q}) <= Cardinality(active)
  BY <1>3, FS_Injection DEF Bounded, ExistsInjection
<1>5. IsFiniteSet(Pool)
  BY <1>4, FS_Subset
<1>6. Cardinality(Pool \cup {q}) = Cardinality(Pool) + 1
  BY <1>1, <1>5, FS_AddElement
<1> QED  BY <1>4, <1>5, <1>6, FS_CardinalityType, ManagerAssumption DEF Bounded

\* For any number of requests and threads: the slots taken are those of the tasks and of
\* the requests about to submit one, and a task that was admitted finds a free thread.
THEOREM SlotsHeld == Spec => []SlotsAreHeld
<1>1. Init => HeldOnce /\ Bounded
  BY FS_EmptySet, ManagerAssumption DEF Init, HeldOnce, Bounded, Holds, Live, InPool
<1>2. TypeOK /\ HeldOnce /\ Bounded /\ [Next]_vars => HeldOnce' /\ Bounded'
  BY HeldOnceStep, BoundedStep
<1>3. TypeOK /\ HeldOnce /\ Bounded => SlotsAreHeld
  <2> SUFFICES ASSUME TypeOK, HeldOnce, Bounded PROVE SlotsAreHeld
    OBVIOUS
  <2>1. active = {Key[q] : q \in {p \in Requests : Holds(p)}}
    BY DEF HeldOnce, Bounded
  <2>2. active = {Key[q] : q \in {p \in Requests : Live(p) \/ client[p] = "submit"}}
    BY <2>1 DEF Holds
  <2> QED  BY <2>2, QueuedFindsAThread DEF SlotsAreHeld
<1> QED  BY <1>1, <1>2, <1>3, TypeCorrect, PTL DEF Spec
-----------------------------------------------------------------------------
(* Rows of runs *)

\* When the row of a request is there, and which task is to settle it.
Owned(q) ==
  /\ client[q] = "new" => run[q] = "none"
  /\ task[q] = "building" => q \notin Workflows
  /\ q \notin Workflows /\ (client[q] = "submit" \/ task[q] \in {"queued", "building"}) => run[q] = "none"
  /\ q \in Workflows /\ client[q] = "submit" => run[q] # "none"
  /\ holder[q] = "run" \/ task[q] = "created" \/ client[q] = "accepted" => run[q] # "none"
  /\ run[q] = "RUNNING" => Live(q) \/ client[q] = "submit" \/ q \in lost
  /\ run[q] = "RUNNING" /\ task[q] = "ending" => q \in lost

LEMMA HandlerOwned ==
  ASSUME TypeOK, HeldOnce, NEW p \in Requests, Owned(p), NEW q \in Requests, Refuse(q) \/ Handler(q)
  PROVE  Owned(p)'
<1> USE DEF TypeOK, Owned, HeldOnce, Live, InPool
<1>1. CASE Refuse(q)
  BY <1>1 DEF Refuse
<1>2. CASE Admit(q)
  BY <1>2 DEF Admit
<1>3. CASE Prepare(q)
  BY <1>3 DEF Prepare
<1>4. CASE Submit(q)
  BY <1>4 DEF Submit
<1>5. CASE SubmitFails(q)
  BY <1>5 DEF SubmitFails
<1>6. CASE Answer(q)
  BY <1>6 DEF Answer
<1>7. CASE TimeOut(q)
  BY <1>7 DEF TimeOut
<1> QED  BY <1>1, <1>2, <1>3, <1>4, <1>5, <1>6, <1>7 DEF Handler

LEMMA WorkerOwned ==
  ASSUME TypeOK, HeldOnce, NEW p \in Requests, Owned(p), NEW q \in Requests, Worker(q)
  PROVE  Owned(p)'
<1> USE DEF TypeOK, Owned, HeldOnce, Live, InPool
<1>1. CASE Take(q)
  BY <1>1 DEF Take
<1>2. CASE BuildFails(q)
  BY <1>2 DEF BuildFails
<1>3. CASE CreateRun(q)
  BY <1>3 DEF CreateRun
<1>4. CASE Started(q)
  BY <1>4 DEF Started
<1>5. CASE End(q)
  BY <1>5 DEF End
<1>6. CASE Escape(q)
  BY <1>6 DEF Escape
<1>7. CASE MarkFailed(q)
  BY <1>7 DEF MarkFailed
<1>8. CASE Release(q)
  BY <1>8 DEF Release
<1> QED  BY <1>1, <1>2, <1>3, <1>4, <1>5, <1>6, <1>7, <1>8 DEF Worker

LEMMA OwnedStep ==
  ASSUME TypeOK, HeldOnce, NEW p \in Requests, Owned(p), [Next]_vars
  PROVE  Owned(p)'
<1>1. CASE UNCHANGED vars
  BY <1>1 DEF vars, Owned, Live, InPool
<1>2. ASSUME NEW q \in Requests, Refuse(q) \/ Handler(q) \/ Worker(q)
      PROVE  Owned(p)'
  BY <1>2, HandlerOwned, WorkerOwned
<1>3. CASE Crash
  BY <1>3 DEF Crash, TypeOK, Owned, Live, InPool
<1> QED  BY <1>1, <1>2, <1>3 DEF Next

\* For all requests and faults: a client is told of runs that exist only, and a row stays
\* in RUNNING without a task of its own only after a lost transaction or process.
THEOREM RunsOwned == Spec => []RunsAreOwned
<1>1. Init => HeldOnce /\ \A p \in Requests : Owned(p)
  BY DEF Init, HeldOnce, Holds, Owned, Live, InPool
<1>2. TypeOK /\ HeldOnce /\ (\A p \in Requests : Owned(p)) /\ [Next]_vars
        => HeldOnce' /\ (\A p \in Requests : Owned(p))'
  BY HeldOnceStep, OwnedStep
<1>3. (\A p \in Requests : Owned(p)) => RunsAreOwned
  BY DEF RunsAreOwned, Owned
<1> QED  BY <1>1, <1>2, <1>3, TypeCorrect, PTL DEF Spec
=============================================================================

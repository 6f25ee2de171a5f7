----------------------- MODULE AnalysisWorkflowProofs -----------------------
(***************************************************************************)
(* Theorems about CompetitiveReport, for any number of callers, tasks,     *)
(* scopes and targets, and about AnalysisWorkflow, which calls it, for any *)
(* competitors a task can name and any number they are limited to.         *)
(***************************************************************************)
EXTENDS AnalysisWorkflow, SequenceTheorems, TLAPS
-----------------------------------------------------------------------------
(* The report service, on its own *)

\* A caller that entered run brought a task id and a scope; one that did not has none.
Asked == \A c \in Callers :
           IF pc[c] = "idle" THEN req[c] = [task |-> "none", scope |-> "none"]
                             ELSE req[c] \in [task : Tasks, scope : Scopes]

\* A caller past its claim has a row.
Claimed == \A c \in Callers : pc[c] \in {"commit"} \cup Working => mine[c] \in 1 .. Len(calls)

Typed == ReportTypeOK /\ Asked /\ Claimed

\* Rows keep their task and scope, and none of them disappears.
SameRows ==
  /\ calls' \in Seq(Execution) /\ Len(calls') = Len(calls)
  /\ \A i \in 1 .. Len(calls) : calls'[i].task = calls[i].task /\ calls'[i].scope = calls[i].scope
SameView == \A i \in 1 .. Len(calls) : calls'[i].visible = calls[i].visible

LEMMA CallsAreRecords ==
  ASSUME ReportTypeOK
  PROVE  /\ DOMAIN calls = 1 .. Len(calls) /\ Len(calls) \in Nat
         /\ \A i \in 1 .. Len(calls) : calls[i] \in Execution
BY DEF ReportTypeOK

\* Showing a row, publishing it and recording its failure.
LEMMA ShowKeeps ==
  ASSUME Typed, NEW c \in Callers, mine[c] \in 1 .. Len(calls), Show(c)
  PROVE  /\ SameRows
         /\ \A i \in 1 .. Len(calls) : calls'[i].visible = (i = mine[c] \/ calls[i].visible)
<1> DEFINE r == [calls[mine[c]] EXCEPT !.visible = TRUE]
<1>1. calls \in Seq(Execution) /\ calls[mine[c]] \in Execution
  BY CallsAreRecords DEF Typed, ReportTypeOK
<1>2. r \in Execution /\ r.task = calls[mine[c]].task /\ r.scope = calls[mine[c]].scope /\ r.visible
  BY <1>1 DEF Execution
<1>3. calls' = [calls EXCEPT ![mine[c]] = r]
  BY DEF Show
<1> HIDE DEF r
<1>4. /\ calls' \in Seq(Execution) /\ Len(calls') = Len(calls)
      /\ \A i \in 1 .. Len(calls) : calls'[i] = IF i = mine[c] THEN r ELSE calls[i]
  BY <1>1, <1>2, <1>3, ExceptSeq
<1>5. \A i \in 1 .. Len(calls) : calls[i].visible \in BOOLEAN
  BY CallsAreRecords DEF Typed, Execution
<1> QED  BY <1>2, <1>4, <1>5 DEF SameRows

LEMMA PublishKeeps ==
  ASSUME Typed, NEW c \in Callers, mine[c] \in 1 .. Len(calls), Published(c)
  PROVE  SameRows /\ SameView
<1> DEFINE r == [calls[mine[c]] EXCEPT !.status = "SUCCEEDED", !.report = coverage[c]]
<1>1. calls \in Seq(Execution) /\ calls[mine[c]] \in Execution /\ coverage[c] \in Coverages
  BY CallsAreRecords DEF Typed, ReportTypeOK
<1>2. /\ r \in Execution /\ r.task = calls[mine[c]].task /\ r.scope = calls[mine[c]].scope
      /\ r.visible = calls[mine[c]].visible
  BY <1>1 DEF Execution
<1>3. calls' = [calls EXCEPT ![mine[c]] = r]
  BY <1>1 DEF Published
<1> HIDE DEF r
<1>4. /\ calls' \in Seq(Execution) /\ Len(calls') = Len(calls)
      /\ \A i \in 1 .. Len(calls) : calls'[i] = IF i = mine[c] THEN r ELSE calls[i]
  BY <1>1, <1>2, <1>3, ExceptSeq
<1> QED  BY <1>2, <1>4 DEF SameRows, SameView

LEMMA FailureKeeps ==
  ASSUME Typed, NEW c \in Callers, mine[c] \in 1 .. Len(calls), Failed(c)
  PROVE  SameRows /\ SameView
<1> DEFINE r == [calls[mine[c]] EXCEPT !.status = "FAILED"]
<1>1. calls \in Seq(Execution) /\ calls[mine[c]] \in Execution
  BY CallsAreRecords DEF Typed, ReportTypeOK
<1>2. /\ r \in Execution /\ r.task = calls[mine[c]].task /\ r.scope = calls[mine[c]].scope
      /\ r.visible = calls[mine[c]].visible
  BY <1>1 DEF Execution
<1>3. calls' = [calls EXCEPT ![mine[c]] = r]
  BY <1>1 DEF Failed
<1> HIDE DEF r
<1>4. /\ calls' \in Seq(Execution) /\ Len(calls') = Len(calls)
      /\ \A i \in 1 .. Len(calls) : calls'[i] = IF i = mine[c] THEN r ELSE calls[i]
  BY <1>1, <1>2, <1>3, ExceptSeq
<1> QED  BY <1>2, <1>4 DEF SameRows, SameView

LEMMA SameIsSame == ASSUME Typed, UNCHANGED calls PROVE SameRows /\ SameView
BY DEF Typed, ReportTypeOK, SameRows, SameView

LEMMA InsertAppends ==
  ASSUME Typed, NEW c \in Callers, Insert(c)
  PROVE  /\ calls' \in Seq(Execution) /\ Len(calls') = Len(calls) + 1
         /\ \A i \in 1 .. Len(calls) : calls'[i] = calls[i]
         /\ LET r == calls'[Len(calls) + 1] IN
              r.task = req[c].task /\ r.scope = req[c].scope /\ ~r.visible
<1> DEFINE r == [task |-> req[c].task, scope |-> req[c].scope, visible |-> FALSE,
                 status |-> "RUNNING", report |-> "none"]
<1>1. calls \in Seq(Execution) /\ r \in Execution
  BY DEF Insert, Typed, ReportTypeOK, Asked, Execution
<1>2. calls' = Append(calls, r)
  BY DEF Insert
<1>3. r.task = req[c].task /\ r.scope = req[c].scope /\ ~r.visible
  OBVIOUS
<1> HIDE DEF r
<1> QED  BY <1>1, <1>2, <1>3, AppendProperties

LEMMA InitTyped == ReportInit => Typed
BY ReportAssumption DEF ReportInit, Typed, ReportTypeOK, Asked, Claimed, Request, Coverages, Working

LEMMA TypedStep == ASSUME Typed, [ReportNext]_reportVars PROVE Typed'
<1> USE ReportAssumption DEF Typed, Asked, Claimed, Claiming, Working, Goto, Unlock, Lock
<1>0. CASE UNCHANGED reportVars
  BY <1>0 DEF reportVars, ReportTypeOK
<1>1. ASSUME NEW c \in Callers, NEW t \in Tasks, NEW s \in Scopes, Ask(c, t, s) PROVE Typed'
  BY <1>1 DEF Ask, ReportTypeOK, Request
<1>2. ASSUME NEW c \in Callers, NEW k \in Coverages, Build(c, k) PROVE Typed'
  BY <1>2 DEF Build, ReportTypeOK
<1>3. ASSUME NEW c \in Callers, LockTarget(c) PROVE Typed'
  BY <1>3 DEF LockTarget, ReportTypeOK
<1>4. ASSUME NEW c \in Callers, Reuse(c) PROVE Typed'
  <2>1. PICK i \in Existing(req[c].task) : Tell(c, i)
    BY <1>4 DEF Reuse
  <2>2. i \in Nat /\ i \in 1 .. Len(calls)
    BY <2>1, CallsAreRecords DEF Existing, Stored
  <2>3. StatusOf(i) \in {"none", "RUNNING", "FAILED"} \cup Coverages
    BY <2>2, CallsAreRecords DEF StatusOf, Execution
  <2>4. answer' \in [Callers -> [call : Nat, status : {"none", "RUNNING", "FAILED"} \cup Coverages]]
    BY <2>1, <2>2, <2>3 DEF Tell, ReportTypeOK
  <2>5. UNCHANGED <<calls, files, paid, req, mine, coverage>> /\ pc' = [pc EXCEPT ![c] = "done"]
        /\ lockedBy' \in [Targets -> Callers \cup {"none"}]
    BY <1>4 DEF Reuse, ReportTypeOK
  <2>6. pc[c] # "idle"
    BY <1>4 DEF Reuse
  <2> QED  BY <2>4, <2>5, <2>6 DEF ReportTypeOK
<1>5. ASSUME NEW c \in Callers, Refuse(c) PROVE Typed'
  BY <1>5 DEF Refuse, ReportTypeOK
<1>6. ASSUME NEW c \in Callers, Insert(c) PROVE Typed'
  <2>1. calls' \in Seq(Execution) /\ Len(calls') = Len(calls) + 1 /\ Len(calls) \in Nat
    BY <1>6, InsertAppends, CallsAreRecords
  <2> QED  BY <1>6, <2>1 DEF Insert, ReportTypeOK
<1>7. ASSUME NEW c \in Callers, CommitClaim(c) PROVE Typed'
  <2>1. SameRows
    BY <1>7, ShowKeeps DEF CommitClaim
  <2> QED  BY <1>7, <2>1 DEF CommitClaim, ReportTypeOK, SameRows
<1>8. ASSUME NEW c \in Callers, LoseClaim(c) PROVE Typed'
  <2>1. SameRows
    BY <1>8, ShowKeeps, SameIsSame DEF LoseClaim
  <2> QED  BY <1>8, <2>1 DEF LoseClaim, ReportTypeOK, SameRows
<1>9. ASSUME NEW c \in Callers, Break(c) PROVE Typed'
  BY <1>9 DEF Break, ReportTypeOK
<1>10. ASSUME NEW c \in Callers, OpenAttempt(c) PROVE Typed'
  BY <1>10 DEF OpenAttempt, ReportTypeOK
<1>11. ASSUME NEW c \in Callers, Pay(c) PROVE Typed'
  <2>1. paid' \in [Tasks -> Nat]
    BY <1>11 DEF Pay, ReportTypeOK
  <2>2. PICK k \in Coverages : coverage' = [coverage EXCEPT ![c] = k]
    BY <1>11 DEF Pay, ReportTypeOK, Coverages
  <2>3. pc[c] \in {"write", "send"} /\ pc' = [pc EXCEPT ![c] = "publish"]
        /\ UNCHANGED <<calls, lockedBy, files, req, mine, answer>>
    BY <1>11 DEF Pay
  <2> QED  BY <2>1, <2>2, <2>3 DEF ReportTypeOK
<1>12. ASSUME NEW c \in Callers, SendNothing(c) PROVE Typed'
  BY <1>12 DEF SendNothing, ReportTypeOK, Coverages
<1>13. ASSUME NEW c \in Callers, Publish(c) PROVE Typed'
  <2>1. SameRows
    BY <1>13, PublishKeeps DEF Publish
  <2> QED  BY <1>13, <2>1 DEF Publish, Answered, ReportTypeOK, SameRows
<1>14. ASSUME NEW c \in Callers, LosePublication(c) PROVE Typed'
  <2>1. SameRows
    BY <1>14, PublishKeeps, SameIsSame DEF LosePublication
  <2> QED  BY <1>14, <2>1 DEF LosePublication, ReportTypeOK, SameRows
<1>15. ASSUME NEW c \in Callers, RecordFailure(c) PROVE Typed'
  <2>1. SameRows
    BY <1>15, FailureKeeps DEF RecordFailure
  <2> QED  BY <1>15, <2>1 DEF RecordFailure, Answered, ReportTypeOK, SameRows
<1>16. ASSUME NEW c \in Callers, LoseFailure(c) PROVE Typed'
  <2>1. SameRows
    BY <1>16, FailureKeeps, SameIsSame DEF LoseFailure
  <2> QED  BY <1>16, <2>1 DEF LoseFailure, ReportTypeOK, SameRows
<1>17. ASSUME LoseProcess PROVE Typed'
  BY <1>17 DEF LoseProcess, ReportTypeOK
<1> QED
  BY <1>0, <1>1, <1>2, <1>3, <1>4, <1>5, <1>6, <1>7, <1>8, <1>9, <1>10, <1>11, <1>12, <1>13,
     <1>14, <1>15, <1>16, <1>17 DEF ReportNext, Run

\* Type correctness: rows, locks, attempt files and the state of each caller keep their
\* ranges, whatever the callers ask for and wherever they are lost.
THEOREM TypeCorrect == ReportSpec => []ReportTypeOK
<1>1. Typed /\ [ReportNext]_reportVars => Typed'
  BY TypedStep
<1>2. Typed => ReportTypeOK
  BY DEF Typed
<1> QED  BY InitTyped, <1>1, <1>2, PTL DEF ReportSpec
-----------------------------------------------------------------------------
(* One execution per target *)

\* A claim holds the lock of its target until it is committed.
Held == \A c \in Callers : pc[c] \in Claiming => lockedBy[Lock(c)] = c

\* The row of a claim that is not committed is the caller's own, and nobody else has
\* a visible one for the same task and target.
Hidden ==
  \A c \in Callers : pc[c] = "commit" =>
    /\ calls[mine[c]].task = req[c].task /\ calls[mine[c]].scope = req[c].scope
    /\ \A i \in Stored(req[c].task) : Target[calls[i].scope] # Lock(c)

OneInv == Held /\ Hidden /\ OneExecutionPerTarget

LEMMA StoredRows ==
  ASSUME ReportTypeOK
  PROVE  \A t : Stored(t) = {i \in 1 .. Len(calls) : calls[i].visible /\ calls[i].task = t}
BY CallsAreRecords DEF Stored

LEMMA StoredRowsNext ==
  ASSUME ReportTypeOK'
  PROVE  \A t : Stored(t)' = {i \in 1 .. Len(calls') : calls'[i].visible /\ calls'[i].task = t}
<1>1. calls' \in Seq(Execution)
  BY DEF ReportTypeOK
<1>2. DOMAIN calls' = 1 .. Len(calls')
  BY <1>1, LenProperties
<1> QED  BY <1>2 DEF Stored

\* Two claims under way are for different targets.
LEMMA ClaimsApart ==
  ASSUME Held, NEW c \in Callers, NEW d \in Callers, pc[c] \in Claiming, pc[d] \in Claiming, c # d
  PROVE  Lock(c) # Lock(d)
BY DEF Held

LEMMA LockTyped == ASSUME Typed, NEW c \in Callers, pc[c] # "idle" PROVE Lock(c) \in Targets
BY ReportAssumption DEF Typed, Asked, Lock

\* A step that shows no row and changes no claim under way.
LEMMA QuietStep ==
  ASSUME Typed, Typed', OneInv, SameRows, SameView,
         \A c \in Callers : pc'[c] \in Claiming =>
           /\ pc'[c] = pc[c] /\ req'[c] = req[c] /\ mine'[c] = mine[c]
           /\ lockedBy'[Lock(c)] = lockedBy[Lock(c)]
  PROVE  OneInv'
<1>1. ASSUME NEW t PROVE Stored(t)' = Stored(t)
  <2>1. Stored(t) = {i \in 1 .. Len(calls) : calls[i].visible /\ calls[i].task = t}
    BY StoredRows DEF Typed
  <2>2. Stored(t)' = {i \in 1 .. Len(calls) : calls'[i].visible /\ calls'[i].task = t}
    BY StoredRowsNext DEF Typed, SameRows
  <2> QED  BY <2>1, <2>2 DEF SameRows, SameView
<1>2. \A t : \A i \in Stored(t) : i \in 1 .. Len(calls) /\ calls'[i].scope = calls[i].scope
  BY StoredRows DEF Typed, SameRows
<1>3. Held'
  BY DEF OneInv, Held, Lock
<1>4. Hidden'
  <2> SUFFICES ASSUME NEW c \in Callers, pc'[c] = "commit"
               PROVE  /\ calls'[mine[c]].task = req[c].task /\ calls'[mine[c]].scope = req[c].scope
                      /\ \A i \in Stored(req[c].task) : Target[calls'[i].scope] # Lock(c)
    BY <1>1 DEF Hidden, Lock, Claiming
  <2>1. pc[c] = "commit" /\ mine[c] \in 1 .. Len(calls)
    BY DEF Claiming, Typed, Claimed
  <2> QED  BY <1>2, <2>1 DEF OneInv, Hidden, SameRows
<1>5. OneExecutionPerTarget'
  BY <1>1, <1>2 DEF OneInv, OneExecutionPerTarget
<1> QED  BY <1>3, <1>4, <1>5 DEF OneInv

LEMMA OneInit == ReportInit => OneInv
BY DEF ReportInit, OneInv, Held, Hidden, OneExecutionPerTarget, Stored, Claiming

\* A caller leaves its claim, its row committed or not.
LEMMA LeaveClaim ==
  ASSUME Typed, Typed', OneInv, NEW c \in Callers, pc[c] = "commit", Show(c) \/ UNCHANGED calls,
         Unlock(c), UNCHANGED <<req, mine>>, NEW place \in {"build", "raised"}, Goto(c, place)
  PROVE  OneInv'
<1>0. /\ mine[c] \in 1 .. Len(calls) /\ SameRows
      /\ \A i \in 1 .. Len(calls) : calls'[i].visible => i = mine[c] \/ calls[i].visible
  BY ShowKeeps, SameIsSame DEF Typed, Claimed, SameView
<1>1. ASSUME NEW t, NEW i \in Stored(t)'
      PROVE  /\ i \in 1 .. Len(calls) /\ calls'[i].scope = calls[i].scope
             /\ i \in Stored(t) \/ (i = mine[c] /\ t = req[c].task)
  BY <1>0, <1>1, StoredRows, StoredRowsNext DEF Typed, SameRows, OneInv, Hidden
<1>2. ASSUME NEW d \in Callers, pc'[d] \in Claiming
      PROVE  d # c /\ pc[d] = pc'[d] /\ Lock(d) # Lock(c) /\ Lock(d)' = Lock(d) /\ lockedBy'[Lock(d)] = d
  <2>1. d # c /\ pc[d] = pc'[d]
    BY <1>2 DEF Goto, Claiming, Typed, ReportTypeOK
  <2>2. Lock(d) # Lock(c) /\ lockedBy[Lock(d)] = d
    BY <1>2, <2>1, ClaimsApart DEF OneInv, Held, Claiming
  <2>3. Lock(d) \in Targets /\ Lock(d)' = Lock(d)
    BY <1>2, <2>1, LockTyped DEF Claiming, Lock
  <2> QED  BY <2>1, <2>2, <2>3 DEF Unlock, Typed, ReportTypeOK
<1>3. Held'
  BY <1>2 DEF Held
<1>4. Hidden'
  <2> SUFFICES ASSUME NEW d \in Callers, pc'[d] = "commit"
               PROVE  /\ calls'[mine[d]].task = req[d].task /\ calls'[mine[d]].scope = req[d].scope
                      /\ \A i \in Stored(req[d].task)' : Target[calls'[i].scope] # Lock(d)
    BY DEF Hidden, Lock
  <2>1. pc[d] = "commit" /\ d # c /\ Lock(d) # Lock(c)
    BY <1>2 DEF Claiming
  <2>2. mine[d] \in 1 .. Len(calls)
    BY <2>1 DEF Typed, Claimed
  <2>3. ASSUME NEW i \in Stored(req[d].task)' PROVE Target[calls'[i].scope] # Lock(d)
    <3>1. CASE i \in Stored(req[d].task)
      BY <1>1, <2>1, <3>1 DEF OneInv, Hidden
    <3>2. CASE i = mine[c]
      BY <1>1, <2>1, <3>2 DEF OneInv, Hidden, Lock
    <3> QED  BY <1>1, <3>1, <3>2
  <2> QED  BY <1>0, <2>1, <2>2, <2>3 DEF OneInv, Hidden, SameRows
<1>5. OneExecutionPerTarget'
  <2> SUFFICES ASSUME NEW t \in Tasks, NEW i \in Stored(t)', NEW j \in Stored(t)',
                      Target[calls'[i].scope] = Target[calls'[j].scope]
               PROVE  i = j
    BY DEF OneExecutionPerTarget
  <2>1. Target[calls[i].scope] = Target[calls[j].scope]
    BY <1>1
  <2>2. \A k \in Stored(req[c].task) : Target[calls[k].scope] # Target[calls[mine[c]].scope]
    BY DEF OneInv, Hidden, Lock
  <2> QED  BY <1>1, <2>1, <2>2 DEF OneInv, OneExecutionPerTarget
<1> QED  BY <1>3, <1>4, <1>5 DEF OneInv

LEMMA OneStep == ASSUME Typed, OneInv, [ReportNext]_reportVars PROVE OneInv'
<1>0. Typed'
  BY TypedStep
<1>1. CASE UNCHANGED reportVars
  BY <1>0, <1>1, SameIsSame, QuietStep DEF reportVars
<1>2. ASSUME NEW c \in Callers, NEW t \in Tasks, NEW s \in Scopes, Ask(c, t, s) PROVE OneInv'
  BY <1>0, <1>2, SameIsSame, QuietStep DEF Ask, Goto, Claiming, Typed, ReportTypeOK
<1>3. ASSUME NEW c \in Callers, NEW k \in Coverages, Build(c, k) PROVE OneInv'
  BY <1>0, <1>3, SameIsSame, QuietStep DEF Build, Goto, Claiming, Typed, ReportTypeOK
<1>4. ASSUME NEW c \in Callers, LockTarget(c) PROVE OneInv'
  <2>1. \A t : Stored(t)' = Stored(t)
    BY <1>4 DEF LockTarget, Stored
  <2>2. ASSUME NEW d \in Callers, pc'[d] \in Claiming
        PROVE  lockedBy'[Lock(d)] = d /\ (pc'[d] = "commit" => pc[d] = "commit")
    <3>1. CASE d = c
      BY <1>4, <3>1, LockTyped DEF LockTarget, Goto, Typed, ReportTypeOK, Claiming
    <3>2. CASE d # c
      <4>1. pc[d] \in Claiming /\ pc'[d] = pc[d] /\ lockedBy[Lock(d)] = d
        BY <1>4, <2>2, <3>2 DEF LockTarget, Goto, Typed, ReportTypeOK, OneInv, Held
      <4>2. d # "none"
        BY ReportAssumption
      <4>3. Lock(d) # Lock(c)
        BY <1>4, <4>1, <4>2 DEF LockTarget
      <4> QED  BY <1>4, <4>1, <4>3, LockTyped DEF LockTarget, Typed, ReportTypeOK, Claiming
    <3> QED  BY <3>1, <3>2
  <2>3. Held'
    BY <1>4, <2>2 DEF Held, Lock, LockTarget
  <2>4. Hidden'
    BY <1>4, <2>1, <2>2 DEF Hidden, OneInv, LockTarget, Lock, Claiming
  <2>5. OneExecutionPerTarget'
    BY <1>4, <2>1 DEF OneInv, OneExecutionPerTarget, LockTarget
  <2> QED  BY <2>3, <2>4, <2>5 DEF OneInv
<1>5. ASSUME NEW c \in Callers, Reuse(c) \/ Refuse(c) PROVE OneInv'
  <2>1. /\ pc[c] = "claim" /\ pc' \in {[pc EXCEPT ![c] = "done"], [pc EXCEPT ![c] = "refused"]}
        /\ UNCHANGED <<calls, req, mine>> /\ Unlock(c)
    BY <1>5 DEF Reuse, Refuse, Goto
  <2>2. ASSUME NEW d \in Callers, pc'[d] \in Claiming
        PROVE  pc'[d] = pc[d] /\ lockedBy'[Lock(d)] = lockedBy[Lock(d)]
    <3>1. d # c /\ pc'[d] = pc[d]
      BY <2>1, <2>2 DEF Claiming, Typed, ReportTypeOK
    <3>2. Lock(d) # Lock(c)
      BY <2>1, <2>2, <3>1, ClaimsApart DEF OneInv, Claiming
    <3>3. Lock(d) \in Targets /\ Lock(c) \in Targets
      BY <2>1, <2>2, <3>1, LockTyped DEF Claiming
    <3> QED  BY <2>1, <3>1, <3>2, <3>3 DEF Unlock, Typed, ReportTypeOK
  <2> QED  BY <1>0, <2>1, <2>2, SameIsSame, QuietStep
<1>6. ASSUME NEW c \in Callers, Insert(c) PROVE OneInv'
  <2>0. /\ pc[c] = "claim" /\ Stored(req[c].task) = {} /\ pc' = [pc EXCEPT ![c] = "commit"]
        /\ mine' = [mine EXCEPT ![c] = Len(calls) + 1] /\ UNCHANGED <<req, lockedBy>>
    BY <1>6 DEF Insert, Goto
  <2>1. /\ Len(calls') = Len(calls) + 1 /\ Len(calls) \in Nat
        /\ \A i \in 1 .. Len(calls) : calls'[i] = calls[i]
        /\ calls'[Len(calls) + 1].task = req[c].task /\ calls'[Len(calls) + 1].scope = req[c].scope
        /\ ~calls'[Len(calls) + 1].visible
    BY <1>6, InsertAppends, CallsAreRecords DEF Typed
  <2>2. ASSUME NEW t PROVE Stored(t)' = Stored(t)
    <3>1. Stored(t) = {i \in 1 .. Len(calls) : calls[i].visible /\ calls[i].task = t}
      BY StoredRows DEF Typed
    <3>2. Stored(t)' = {i \in 1 .. Len(calls) + 1 : calls'[i].visible /\ calls'[i].task = t}
      BY <1>0, <2>1, StoredRowsNext DEF Typed
    <3>3. 1 .. Len(calls) + 1 = (1 .. Len(calls)) \cup {Len(calls) + 1}
      BY <2>1
    <3> QED  BY <2>1, <3>1, <3>2, <3>3
  <2>3. \A t : \A i \in Stored(t) : calls'[i] = calls[i]
    BY <2>1, StoredRows DEF Typed
  <2>4. Held'
    BY <2>0 DEF Held, OneInv, Typed, ReportTypeOK, Claiming, Lock
  <2>5. Hidden'
    <3> SUFFICES ASSUME NEW d \in Callers, pc'[d] = "commit"
                 PROVE  /\ calls'[mine'[d]].task = req[d].task /\ calls'[mine'[d]].scope = req[d].scope
                        /\ \A i \in Stored(req[d].task) : Target[calls'[i].scope] # Lock(d)
      BY <2>0, <2>2 DEF Hidden, Lock
    <3>1. CASE d = c
      BY <2>0, <2>1, <3>1 DEF Typed, ReportTypeOK
    <3>2. CASE d # c
      <4>1. pc[d] = "commit" /\ mine'[d] = mine[d] /\ mine[d] \in 1 .. Len(calls)
        BY <2>0, <3>2 DEF Typed, ReportTypeOK, Claimed
      <4> QED  BY <2>1, <2>3, <4>1 DEF OneInv, Hidden
    <3> QED  BY <3>1, <3>2
  <2>6. OneExecutionPerTarget'
    BY <2>2, <2>3 DEF OneInv, OneExecutionPerTarget
  <2> QED  BY <2>4, <2>5, <2>6 DEF OneInv
<1>7. ASSUME NEW c \in Callers, CommitClaim(c) \/ LoseClaim(c) PROVE OneInv'
  <2>1. /\ pc[c] = "commit" /\ (Show(c) \/ UNCHANGED calls)
        /\ Unlock(c) /\ UNCHANGED <<req, mine>>
        /\ \E place \in {"build", "raised"} : Goto(c, place)
    BY <1>7 DEF CommitClaim, LoseClaim
  <2> QED  BY <1>0, <2>1, LeaveClaim
<1>8. ASSUME NEW c \in Callers, Break(c) \/ OpenAttempt(c) \/ Pay(c) \/ SendNothing(c) PROVE OneInv'
  <2>1. /\ \E place \in Working : pc' = [pc EXCEPT ![c] = place]
        /\ UNCHANGED <<calls, lockedBy, req, mine>>
    BY <1>8 DEF Break, OpenAttempt, Pay, SendNothing, Goto, Working
  <2>2. \A d \in Callers : pc'[d] \in Claiming => pc'[d] = pc[d]
    BY <2>1 DEF Working, Claiming, Typed, ReportTypeOK
  <2> QED  BY <1>0, <2>1, <2>2, SameIsSame, QuietStep
<1>9. ASSUME NEW c \in Callers, Publish(c) \/ LosePublication(c) \/ RecordFailure(c) \/ LoseFailure(c)
      PROVE  OneInv'
  <2>1. /\ pc[c] \in Working /\ (Published(c) \/ Failed(c) \/ UNCHANGED calls)
        /\ \E place \in {"done", "failed", "raised"} : pc' = [pc EXCEPT ![c] = place]
        /\ UNCHANGED <<lockedBy, req, mine>>
    BY <1>9 DEF Publish, LosePublication, RecordFailure, LoseFailure, Goto, Working
  <2>2. SameRows /\ SameView
    BY <2>1, PublishKeeps, FailureKeeps, SameIsSame DEF Typed, Claimed
  <2>3. \A d \in Callers : pc'[d] \in Claiming => pc'[d] = pc[d]
    BY <2>1 DEF Claiming, Typed, ReportTypeOK
  <2> QED  BY <1>0, <2>1, <2>2, <2>3, QuietStep
<1>10. ASSUME LoseProcess PROVE OneInv'
  <2>1. \A d \in Callers : pc'[d] \notin Claiming
    BY <1>10 DEF LoseProcess, Claiming, Working, Typed, ReportTypeOK
  <2> QED  BY <1>0, <1>10, <2>1, SameIsSame, QuietStep DEF LoseProcess
<1> QED
  BY <1>1, <1>2, <1>3, <1>4, <1>5, <1>6, <1>7, <1>8, <1>9, <1>10 DEF ReportNext, Run

\* For every number of callers and tasks, lost or failing anywhere, a task has at most
\* one visible execution for one target.
THEOREM OneExecution == ReportSpec => []OneExecutionPerTarget
<1>1. Typed /\ OneInv /\ [ReportNext]_reportVars => Typed' /\ OneInv'
  BY TypedStep, OneStep
<1>2. OneInv => OneExecutionPerTarget
  BY DEF OneInv
<1> QED  BY InitTyped, OneInit, <1>1, <1>2, PTL DEF ReportSpec
-----------------------------------------------------------------------------
(* One payment per task *)

Workflows == Callers \ Writers
Asking(c, t) == pc[c] # "idle" /\ req[c].task = t
Unpaid == {"lock", "build", "write"} \cup Claiming

\* Nobody shares the task of a workflow.
OwnTasks == \A c \in Workflows, d \in Callers :
              pc[c] # "idle" /\ d # c => req[d].task # req[c].task
\* A payment left an attempt file, or was made by the workflow of the task.
Spent == \A t \in Tasks :
           /\ paid[t] \in {0, 1}
           /\ paid[t] = 1 => t \in files \/ \E d \in Workflows : Asking(d, t)
FilesAsked == \A t \in files : \E d \in Writers : Asking(d, t)
\* A workflow pays at the end of "write", a writer once it has created its file.
FlowsUnpaid == \A c \in Workflows : /\ pc[c] # "send"
                                    /\ pc[c] \in Unpaid => paid[req[c].task] = 0
Sending == \A c \in Writers : pc[c] = "send" =>
             /\ req[c].task \in files /\ paid[req[c].task] = 0
             /\ \A d \in Writers : pc[d] = "send" /\ req[d].task = req[c].task => d = c

PayInv == OwnTasks /\ Spent /\ FilesAsked /\ FlowsUnpaid /\ Sending

LEMMA PayInit == ReportInit => PayInv
BY ReportAssumption
DEF ReportInit, PayInv, OwnTasks, Spent, FilesAsked, FlowsUnpaid, Sending, Workflows, Unpaid, Claiming

\* A step that pays nothing, creates no file and leads nobody to "send".
LEMMA QuietPay ==
  ASSUME PayInv, UNCHANGED <<paid, files, req>>,
         \A c \in Callers : /\ pc'[c] = "send" => pc[c] = "send"
                            /\ pc'[c] = "idle" <=> pc[c] = "idle"
                            /\ pc'[c] \in Unpaid => pc[c] \in Unpaid
  PROVE  PayInv'
<1> USE ReportAssumption DEF PayInv, Workflows
<1>1. OwnTasks'
  BY DEF OwnTasks
<1>2. Spent'
  BY DEF Spent, Asking
<1>3. FilesAsked'
  BY DEF FilesAsked, Asking
<1>4. FlowsUnpaid'
  BY DEF FlowsUnpaid
<1>5. Sending'
  BY DEF Sending
<1> QED  BY <1>1, <1>2, <1>3, <1>4, <1>5

LEMMA PayStep == ASSUME Typed, PayInv, [ReportNext]_reportVars PROVE PayInv'
<1> USE ReportAssumption DEF Workflows
<1>1. CASE UNCHANGED reportVars
  BY <1>1, QuietPay DEF reportVars
<1>2. ASSUME NEW c \in Callers, NEW t \in Tasks, NEW s \in Scopes, Ask(c, t, s) PROVE PayInv'
  <2>0. /\ pc[c] = "idle" /\ req[c].task = "none"
        /\ pc' = [pc EXCEPT ![c] = "lock"] /\ req' = [req EXCEPT ![c] = [task |-> t, scope |-> s]]
        /\ UNCHANGED <<files, paid>>
        /\ \A d \in Workflows : d # c => req[d].task # t
        /\ c \in Workflows => \A d \in Callers : req[d].task # t
    BY <1>2 DEF Ask, Goto, Typed, Asked
  <2>1. /\ \A d \in Callers : d # c => pc'[d] = pc[d] /\ req'[d] = req[d]
        /\ pc'[c] = "lock" /\ req'[c].task = t
    BY <2>0 DEF Typed, ReportTypeOK
  <2>2. OwnTasks'
    BY <2>0, <2>1 DEF PayInv, OwnTasks
  <2>3. Spent' /\ FilesAsked'
    <3>1. \A d \in Callers, u \in Tasks : Asking(d, u) => Asking(d, u)'
      BY <2>0, <2>1 DEF Asking
    <3>2. files \subseteq Tasks
      BY DEF Typed, ReportTypeOK
    <3> QED  BY <2>0, <3>1, <3>2 DEF PayInv, Spent, FilesAsked
  <2>4. c \in Workflows => paid[t] = 0
    BY <2>0 DEF PayInv, Spent, FilesAsked, Asking
  <2>5. FlowsUnpaid'
    BY <2>0, <2>1, <2>4 DEF PayInv, FlowsUnpaid
  <2>6. Sending'
    BY <2>0, <2>1 DEF PayInv, Sending
  <2> QED  BY <2>2, <2>3, <2>5, <2>6 DEF PayInv
<1>3. ASSUME NEW c \in Callers,
             \/ \E k \in Coverages : Build(c, k)
             \/ LockTarget(c) \/ Reuse(c) \/ Refuse(c) \/ Insert(c) \/ CommitClaim(c) \/ LoseClaim(c)
             \/ Break(c) \/ SendNothing(c) \/ Publish(c) \/ LosePublication(c)
             \/ RecordFailure(c) \/ LoseFailure(c)
      PROVE  PayInv'
  <2>1. /\ UNCHANGED <<paid, files, req>> /\ pc[c] # "idle"
        /\ \/ pc[c] \in Unpaid /\ \E place \in Unpaid : pc' = [pc EXCEPT ![c] = place]
           \/ \E place \in {"done", "refused", "raised", "failed", "publish"} : pc' = [pc EXCEPT ![c] = place]
    BY <1>3 DEF Build, LockTarget, Reuse, Refuse, Insert, CommitClaim, LoseClaim, Break, SendNothing,
                Publish, LosePublication, RecordFailure, LoseFailure, Goto, Unpaid, Claiming
  <2>2. \A d \in Callers : /\ pc'[d] = "send" => pc[d] = "send"
                           /\ pc'[d] = "idle" <=> pc[d] = "idle"
                           /\ pc'[d] \in Unpaid => pc[d] \in Unpaid
    BY <2>1 DEF Typed, ReportTypeOK, Unpaid, Claiming
  <2> QED  BY <2>1, <2>2, QuietPay
<1>4. ASSUME NEW c \in Callers, OpenAttempt(c) PROVE PayInv'
  <2>0. /\ pc[c] = "write" /\ c \in Writers /\ req[c].task \notin files /\ req[c].task \in Tasks
        /\ files' = files \cup {req[c].task} /\ pc' = [pc EXCEPT ![c] = "send"]
        /\ UNCHANGED <<paid, req>>
    BY <1>4 DEF OpenAttempt, Goto, Typed, Asked
  <2>1. pc'[c] = "send" /\ \A d \in Callers : d # c => pc'[d] = pc[d]
    BY <2>0 DEF Typed, ReportTypeOK
  <2>2. paid[req[c].task] = 0
    BY <2>0 DEF PayInv, OwnTasks, Spent, Asking
  <2>3. OwnTasks'
    BY <2>0, <2>1 DEF PayInv, OwnTasks
  <2>4. Spent'
    BY <2>0, <2>1 DEF PayInv, Spent, Asking
  <2>5. FilesAsked'
    BY <2>0, <2>1 DEF PayInv, FilesAsked, Asking
  <2>6. FlowsUnpaid'
    BY <2>0, <2>1 DEF PayInv, FlowsUnpaid
  <2>7. Sending'
    BY <2>0, <2>1, <2>2 DEF PayInv, Sending
  <2> QED  BY <2>3, <2>4, <2>5, <2>6, <2>7 DEF PayInv
<1>5. ASSUME NEW c \in Callers, Pay(c) PROVE PayInv'
  <2>0. /\ pc[c] = IF c \in Writers THEN "send" ELSE "write"
        /\ paid' = [paid EXCEPT ![req[c].task] = @ + 1] /\ pc' = [pc EXCEPT ![c] = "publish"]
        /\ UNCHANGED <<files, req>>
    BY <1>5 DEF Pay, Goto
  <2>1. req[c].task \in Tasks /\ paid[req[c].task] = 0 /\ pc[c] # "idle"
    BY <2>0 DEF Typed, Asked, PayInv, FlowsUnpaid, Sending, Unpaid
  <2>2. /\ pc'[c] = "publish" /\ \A d \in Callers : d # c => pc'[d] = pc[d]
        /\ paid'[req[c].task] = 1 /\ \A t \in Tasks : t # req[c].task => paid'[t] = paid[t]
    BY <2>0, <2>1 DEF Typed, ReportTypeOK
  <2>3. OwnTasks'
    BY <2>0, <2>2 DEF PayInv, OwnTasks
  <2>4. Spent'
    <3>1. \A d \in Callers, t \in Tasks : Asking(d, t)' <=> Asking(d, t)
      BY <2>0, <2>1, <2>2 DEF Asking
    <3>2. req[c].task \in files \/ (c \in Workflows /\ Asking(c, req[c].task))
      BY <2>0, <2>1 DEF PayInv, Sending, Asking
    <3> QED  BY <2>0, <2>2, <3>1, <3>2 DEF PayInv, Spent
  <2>5. FilesAsked'
    BY <2>0, <2>1, <2>2 DEF PayInv, FilesAsked, Asking
  <2>6. FlowsUnpaid'
    <3> SUFFICES ASSUME NEW d \in Workflows
                 PROVE  pc'[d] # "send" /\ (pc'[d] \in Unpaid => paid'[req[d].task] = 0)
      BY <2>0 DEF FlowsUnpaid
    <3>1. CASE d = c
      BY <2>2, <3>1 DEF Unpaid, Claiming
    <3>2. ASSUME d # c, pc[d] \in Unpaid PROVE paid'[req[d].task] = 0
      <4>1. req[d].task \in Tasks /\ req[d].task # req[c].task /\ paid[req[d].task] = 0
        BY <3>2 DEF PayInv, OwnTasks, FlowsUnpaid, Unpaid, Claiming, Typed, Asked
      <4> QED  BY <2>2, <4>1
    <3> QED  BY <2>2, <3>1, <3>2 DEF PayInv, FlowsUnpaid
  <2>7. Sending'
    <3> SUFFICES ASSUME NEW d \in Writers, pc'[d] = "send"
                 PROVE  paid'[req[d].task] = 0
      BY <2>0, <2>2 DEF Sending, PayInv
    <3>1. d # c /\ pc[d] = "send" /\ paid[req[d].task] = 0 /\ req[d].task \in Tasks
      BY <2>2 DEF PayInv, Sending, Typed, Asked
    <3>2. req[d].task # req[c].task
      BY <2>0, <2>1, <3>1 DEF PayInv, Sending, OwnTasks
    <3> QED  BY <2>2, <3>1, <3>2
  <2> QED  BY <2>3, <2>4, <2>5, <2>6, <2>7 DEF PayInv
<1>6. ASSUME LoseProcess PROVE PayInv'
  <2>1. \A d \in Callers : /\ pc'[d] = "send" => pc[d] = "send"
                           /\ pc'[d] = "idle" <=> pc[d] = "idle"
                           /\ pc'[d] \in Unpaid => pc[d] \in Unpaid
    BY <1>6 DEF LoseProcess, Claiming, Working, Unpaid
  <2> QED  BY <1>6, <2>1, QuietPay DEF LoseProcess
<1> QED
  BY <1>1, <1>2, <1>3, <1>4, <1>5, <1>6 DEF ReportNext, Run

\* Whoever brings a task id, as often as they like and in as many processes: the task is
\* paid for at most once.
THEOREM Paid == ReportSpec => []PaidOnce
<1>1. Typed /\ PayInv /\ [ReportNext]_reportVars => Typed' /\ PayInv'
  BY TypedStep, PayStep
<1>2. PayInv => PaidOnce
  BY DEF PayInv, Spent, PaidOnce
<1> QED  BY InitTyped, PayInit, <1>1, <1>2, PTL DEF ReportSpec
-----------------------------------------------------------------------------
(* Claims and answers *)

Owners == Working \cup {"raised", "dead"}

\* A transaction of a caller writes no row but its own.
LEMMA OthersKeep ==
  ASSUME Typed, NEW c \in Callers, mine[c] \in 1 .. Len(calls),
         Show(c) \/ Published(c) \/ Failed(c) \/ UNCHANGED calls
  PROVE  /\ Len(calls') = Len(calls)
         /\ \A i \in 1 .. Len(calls) : i # mine[c] => calls'[i] = calls[i]
         /\ Published(c) \/ Failed(c) => calls'[mine[c]].status # "RUNNING"
<1>1. calls \in Seq(Execution) /\ calls[mine[c]] \in Execution
  BY CallsAreRecords DEF Typed, ReportTypeOK
<1>2. SameRows
  BY ShowKeeps, PublishKeeps, FailureKeeps, SameIsSame
<1>3. \A i \in 1 .. Len(calls) : i # mine[c] => calls'[i] = calls[i]
  BY <1>1 DEF Show, Published, Failed
<1>4. Published(c) \/ Failed(c) => calls'[mine[c]].status # "RUNNING"
  BY <1>1 DEF Published, Failed, Execution
<1> QED  BY <1>2, <1>3, <1>4 DEF SameRows

LEMMA OwnedInit == ReportInit => ClaimsAreOwned
BY DEF ReportInit, ClaimsAreOwned

\* A step that leaves the rows alone and takes nobody from a claim.
LEMMA QuietOwned ==
  ASSUME ClaimsAreOwned, UNCHANGED <<calls, mine>>,
         \A c \in Callers : pc[c] \in Owners => pc'[c] \in Owners
  PROVE  ClaimsAreOwned'
BY DEF ClaimsAreOwned, Owners

LEMMA OwnedStep == ASSUME Typed, ClaimsAreOwned, [ReportNext]_reportVars PROVE ClaimsAreOwned'
<1> USE DEF Owners, Working
<1>0. Typed' /\ DOMAIN calls' = 1 .. Len(calls')
  BY TypedStep DEF Typed, ReportTypeOK
<1>1. CASE UNCHANGED reportVars
  BY <1>1, QuietOwned DEF reportVars
<1>2. ASSUME NEW c \in Callers,
             \/ \E t \in Tasks, s \in Scopes : Ask(c, t, s)
             \/ \E k \in Coverages : Build(c, k)
             \/ LockTarget(c) \/ Reuse(c) \/ Refuse(c)
             \/ Break(c) \/ OpenAttempt(c) \/ Pay(c) \/ SendNothing(c)
      PROVE  ClaimsAreOwned'
  <2>1. /\ UNCHANGED <<calls, mine>> /\ pc[c] \in {"idle", "lock", "claim"} \cup Working
        /\ \E place \in {"lock", "claim", "done", "refused"} \cup Working :
             pc' = [pc EXCEPT ![c] = place] /\ (pc[c] \in Working => place \in Working)
    BY <1>2 DEF Ask, Build, LockTarget, Reuse, Refuse, Break, OpenAttempt, Pay, SendNothing, Goto
  <2> QED  BY <2>1, QuietOwned DEF Typed, ReportTypeOK
<1>3. ASSUME NEW c \in Callers, Insert(c) PROVE ClaimsAreOwned'
  <2>1. /\ Len(calls') = Len(calls) + 1 /\ Len(calls) \in Nat
        /\ \A i \in 1 .. Len(calls) : calls'[i] = calls[i]
        /\ ~calls'[Len(calls) + 1].visible
    BY <1>3, InsertAppends, CallsAreRecords DEF Typed
  <2>2. \A d \in Callers : pc[d] \in Owners => d # c /\ pc'[d] = pc[d] /\ mine'[d] = mine[d]
    BY <1>3 DEF Insert, Goto, Typed, ReportTypeOK
  <2>3. ASSUME NEW i \in 1 .. Len(calls'), calls'[i].visible, calls'[i].status = "RUNNING"
        PROVE  \E d \in Callers : mine'[d] = i /\ pc'[d] \in Owners
    <3>1. i \in 1 .. Len(calls) /\ calls'[i] = calls[i]
      BY <2>1, <2>3
    <3>2. PICK d \in Callers : mine[d] = i /\ pc[d] \in Owners
      BY <2>3, <3>1, CallsAreRecords DEF ClaimsAreOwned, Typed
    <3> QED  BY <2>2, <3>2
  <2> QED  BY <1>0, <2>3 DEF ClaimsAreOwned
<1>4. ASSUME NEW c \in Callers,
             \/ CommitClaim(c) \/ LoseClaim(c)
             \/ Publish(c) \/ LosePublication(c) \/ RecordFailure(c) \/ LoseFailure(c)
      PROVE  ClaimsAreOwned'
  <2>1. /\ pc[c] \in {"commit"} \cup Working /\ mine' = mine
        /\ Show(c) \/ Published(c) \/ Failed(c) \/ UNCHANGED calls
    BY <1>4 DEF CommitClaim, LoseClaim, Publish, LosePublication, RecordFailure, LoseFailure
  <2>2. \/ Published(c) \/ Failed(c)
        \/ pc' = [pc EXCEPT ![c] = "build"] \/ pc' = [pc EXCEPT ![c] = "raised"]
        \/ pc' = [pc EXCEPT ![c] = "failed"]
    BY <1>4 DEF CommitClaim, LoseClaim, Publish, LosePublication, RecordFailure, LoseFailure, Goto
  <2>3. \A d \in Callers : d # c => pc'[d] = pc[d]
    BY <1>4 DEF CommitClaim, LoseClaim, Publish, LosePublication, RecordFailure, LoseFailure, Goto,
                Typed, ReportTypeOK
  <2>4. mine[c] \in 1 .. Len(calls)
    BY <2>1 DEF Typed, Claimed
  <2>5. ASSUME NEW i \in 1 .. Len(calls'), calls'[i].visible, calls'[i].status = "RUNNING"
        PROVE  \E d \in Callers : mine'[d] = i /\ pc'[d] \in Owners
    <3>1. CASE i = mine[c]
      BY <2>1, <2>2, <2>4, <2>5, <3>1, OthersKeep DEF Typed, ReportTypeOK
    <3>2. CASE i # mine[c]
      <4>1. i \in 1 .. Len(calls) /\ calls'[i] = calls[i]
        BY <2>1, <2>4, <3>2, OthersKeep
      <4>2. PICK d \in Callers : mine[d] = i /\ pc[d] \in Owners
        BY <2>5, <4>1, CallsAreRecords DEF ClaimsAreOwned, Typed
      <4> QED  BY <2>1, <2>3, <3>2, <4>2
    <3> QED  BY <3>1, <3>2
  <2> QED  BY <1>0, <2>5 DEF ClaimsAreOwned
<1>5. ASSUME LoseProcess PROVE ClaimsAreOwned'
  BY <1>5, QuietOwned DEF LoseProcess, Typed, ReportTypeOK
<1> QED  BY <1>1, <1>2, <1>3, <1>4, <1>5 DEF ReportNext, Run

\* Of any number of executions, one that stays RUNNING has its caller at work, or lost with the
\* process or the database.
THEOREM ClaimsOwned == ReportSpec => []ClaimsAreOwned
<1>1. Typed /\ ClaimsAreOwned /\ [ReportNext]_reportVars => Typed' /\ ClaimsAreOwned'
  BY TypedStep, OwnedStep
<1> QED  BY InitTyped, OwnedInit, <1>1, PTL DEF ReportSpec

\* The row i is committed, and for what c asked.
Fits(c, i) == /\ i \in 1 .. Len(calls) /\ calls[i].visible
              /\ calls[i].task = req[c].task /\ calls[i].scope = req[c].scope

\* The row a caller works for, and the one it is told of, fit its request.
Fitting(c) ==
  /\ pc[c] = "commit" => calls[mine[c]].task = req[c].task /\ calls[mine[c]].scope = req[c].scope
  /\ pc[c] \in Working => Fits(c, mine[c])
  /\ pc[c] = "idle" => answer[c].call = 0
  /\ answer[c].call # 0 => Fits(c, answer[c].call)

AnswerInv == \A c \in Callers : Fitting(c)

\* Rows stay, and a committed row stays committed.
Grows == \A i \in 1 .. Len(calls) :
  /\ i \in 1 .. Len(calls') /\ calls'[i].task = calls[i].task /\ calls'[i].scope = calls[i].scope
  /\ calls[i].visible => calls'[i].visible

LEMMA RowsGrow == ASSUME Typed, [ReportNext]_reportVars PROVE Grows
<1>1. ASSUME UNCHANGED calls PROVE Grows
  BY <1>1 DEF Grows
<1>2. ASSUME NEW c \in Callers, Insert(c) PROVE Grows
  <2>1. /\ Len(calls') = Len(calls) + 1 /\ Len(calls) \in Nat
        /\ \A i \in 1 .. Len(calls) : calls'[i] = calls[i]
    BY <1>2, InsertAppends, CallsAreRecords DEF Typed
  <2> QED  BY <2>1 DEF Grows
<1>3. ASSUME NEW c \in Callers, pc[c] \in {"commit"} \cup Working, Show(c) \/ Published(c) \/ Failed(c)
      PROVE  Grows
  <2>1. /\ SameRows
        /\ \A i \in 1 .. Len(calls) : calls[i].visible => calls'[i].visible
    BY <1>3, ShowKeeps, PublishKeeps, FailureKeeps DEF Typed, Claimed, SameView
  <2> QED  BY <2>1 DEF SameRows, Grows
<1>4. \/ UNCHANGED calls \/ (\E c \in Callers : Insert(c))
      \/ \E c \in Callers : pc[c] \in {"commit"} \cup Working /\ (Show(c) \/ Published(c) \/ Failed(c))
  BY DEF reportVars, ReportNext, Run, Ask, Build, LockTarget, Reuse, Refuse, Break, OpenAttempt, Pay,
         SendNothing, CommitClaim, LoseClaim, Publish, LosePublication, RecordFailure, LoseFailure,
         LoseProcess, Working
<1> QED  BY <1>1, <1>2, <1>3, <1>4

LEMMA AnswerInit == ReportInit => AnswerInv
<1> SUFFICES ASSUME ReportInit, NEW c \in Callers PROVE Fitting(c)
  BY DEF AnswerInv
<1>1. pc[c] = "idle" /\ answer[c].call = 0
  BY DEF ReportInit
<1> QED  BY <1>1 DEF Fitting, Working

\* A caller whose work and answer stay what they were.
LEMMA QuietAnswer ==
  ASSUME Typed, Grows, NEW c \in Callers, Fitting(c), req'[c] = req[c], mine'[c] = mine[c],
         answer'[c] = answer[c], pc'[c] = "idle" => pc[c] = "idle", pc'[c] = "commit" => pc[c] = "commit",
         pc'[c] \in Working => pc[c] \in Working
  PROVE  Fitting(c)'
<1>1. ASSUME NEW i, Fits(c, i)
      PROVE  /\ i \in 1 .. Len(calls') /\ calls'[i].visible
             /\ calls'[i].task = req'[c].task /\ calls'[i].scope = req'[c].scope
  BY <1>1 DEF Fits, Grows
<1>2. pc'[c] = "commit" => calls'[mine'[c]].task = req'[c].task /\ calls'[mine'[c]].scope = req'[c].scope
  BY DEF Fitting, Grows, Typed, Claimed
<1>3. pc'[c] \in Working => Fits(c, mine[c])
  BY DEF Fitting
<1>4. answer'[c].call # 0 => Fits(c, answer[c].call)
  BY DEF Fitting
<1>5. pc'[c] = "idle" => answer'[c].call = 0
  BY DEF Fitting
<1>6. pc'[c] \in Working => Fits(c, mine[c])'
  BY <1>1, <1>3 DEF Fits
<1>7. answer'[c].call # 0 => Fits(c, answer[c].call)'
  BY <1>1, <1>4 DEF Fits
<1> QED  BY <1>2, <1>5, <1>6, <1>7 DEF Fitting

\* Every step of a caller, but for those that follow, is quiet for all of them.
LEMMA AnswerStep == ASSUME Typed, AnswerInv, [ReportNext]_reportVars PROVE AnswerInv'
<1> SUFFICES ASSUME NEW d \in Callers PROVE Fitting(d)'
  BY DEF AnswerInv
<1>0. Typed' /\ Grows /\ Fitting(d)
  BY TypedStep, RowsGrow DEF AnswerInv
<1>1. CASE UNCHANGED reportVars
  BY <1>0, <1>1, QuietAnswer DEF reportVars
<1>2. ASSUME NEW c \in Callers, NEW t \in Tasks, NEW s \in Scopes, Ask(c, t, s) PROVE Fitting(d)'
  <2>1. CASE d = c
    BY <1>0, <1>2, <2>1 DEF Ask, Goto, Fitting, Working, Typed, ReportTypeOK
  <2>2. CASE d # c
    BY <1>0, <1>2, <2>2, QuietAnswer DEF Ask, Goto, Typed, ReportTypeOK
  <2> QED  BY <2>1, <2>2
<1>3. ASSUME NEW c \in Callers,
             \/ \E k \in Coverages : Build(c, k)
             \/ LockTarget(c) \/ Refuse(c) \/ Break(c) \/ OpenAttempt(c) \/ Pay(c) \/ SendNothing(c)
             \/ LoseClaim(c) \/ LosePublication(c) \/ LoseFailure(c)
      PROVE  Fitting(d)'
  <2>1. /\ UNCHANGED <<req, mine, answer>> /\ pc[c] # "idle"
        /\ \E place \in {"claim", "refused", "raised"} \cup Working :
             pc' = [pc EXCEPT ![c] = place] /\ (place \in Working => pc[c] \in Working)
    BY <1>3 DEF Build, LockTarget, Refuse, Break, OpenAttempt, Pay, SendNothing, LoseClaim,
                LosePublication, LoseFailure, Goto, Working
  <2>2. /\ pc'[d] = "idle" => pc[d] = "idle"
        /\ pc'[d] = "commit" => pc[d] = "commit"
        /\ pc'[d] \in Working => pc[d] \in Working
    BY <2>1 DEF Typed, ReportTypeOK, Working
  <2>3. req'[d] = req[d] /\ mine'[d] = mine[d] /\ answer'[d] = answer[d]
    BY <2>1
  <2> QED  BY <1>0, <2>2, <2>3, QuietAnswer
<1>4. ASSUME NEW c \in Callers, Reuse(c) PROVE Fitting(d)'
  <2>1. PICK i \in Existing(req[c].task) : calls[i].scope = req[c].scope /\ Tell(c, i)
    BY <1>4 DEF Reuse
  <2>2. Fits(c, i)
    BY <2>1, StoredRows DEF Existing, Fits, Typed
  <2>3. CASE d = c
    <3>1. pc'[c] = "done" /\ answer'[c].call = i /\ UNCHANGED <<calls, req>>
      BY <1>4, <2>1 DEF Reuse, Goto, Tell, Typed, ReportTypeOK
    <3> QED  BY <2>2, <2>3, <3>1 DEF Fitting, Fits, Working
  <2>4. CASE d # c
    BY <1>0, <1>4, <2>1, <2>4, QuietAnswer DEF Reuse, Goto, Tell, Typed, ReportTypeOK
  <2> QED  BY <2>3, <2>4
<1>5. ASSUME NEW c \in Callers, Insert(c) PROVE Fitting(d)'
  <2>1. CASE d = c
    <3>1. /\ pc'[c] = "commit" /\ mine'[c] = Len(calls) + 1 /\ answer'[c] = answer[c] /\ req' = req
      BY <1>5 DEF Insert, Goto, Typed, ReportTypeOK
    <3>2. calls'[Len(calls) + 1].task = req[c].task /\ calls'[Len(calls) + 1].scope = req[c].scope
      BY <1>5, InsertAppends
    <3>3. answer'[c].call # 0 =>
            /\ answer'[c].call \in 1 .. Len(calls') /\ calls'[answer'[c].call].visible
            /\ calls'[answer'[c].call].task = req'[c].task /\ calls'[answer'[c].call].scope = req'[c].scope
      BY <1>0, <2>1, <3>1 DEF Fitting, Fits, Grows
    <3> QED  BY <2>1, <3>1, <3>2, <3>3 DEF Fitting, Working, Fits
  <2>2. CASE d # c
    BY <1>0, <1>5, <2>2, QuietAnswer DEF Insert, Goto, Typed, ReportTypeOK
  <2> QED  BY <2>1, <2>2
<1>6. ASSUME NEW c \in Callers, CommitClaim(c) PROVE Fitting(d)'
  <2>1. CASE d = c
    <3>1. pc[c] = "commit" /\ pc'[c] = "build" /\ mine[c] \in 1 .. Len(calls) /\ UNCHANGED <<req, mine, answer>>
      BY <1>6 DEF CommitClaim, Goto, Typed, ReportTypeOK, Claimed
    <3>2. calls'[mine[c]].visible
      BY <1>6, <3>1, ShowKeeps DEF CommitClaim
    <3> QED  BY <1>0, <2>1, <3>1, <3>2 DEF Fitting, Fits, Grows, Working
  <2>2. CASE d # c
    BY <1>0, <1>6, <2>2, QuietAnswer DEF CommitClaim, Goto, Typed, ReportTypeOK
  <2> QED  BY <2>1, <2>2
<1>7. ASSUME NEW c \in Callers, Publish(c) \/ RecordFailure(c) PROVE Fitting(d)'
  <2>1. /\ pc[c] \in Working /\ pc' = [pc EXCEPT ![c] = "done"] /\ UNCHANGED <<req, mine>>
        /\ \E k \in {coverage[c], "FAILED"} : Answered(c, k)
    BY <1>7 DEF Publish, RecordFailure, Goto, Working
  <2>2. CASE d = c
    <3>1. pc'[c] = "done" /\ answer'[c].call = mine[c]
      BY <2>1 DEF Answered, Typed, ReportTypeOK
    <3> QED  BY <1>0, <2>1, <2>2, <3>1 DEF Fitting, Fits, Grows, Working
  <2>3. CASE d # c
    BY <1>0, <2>1, <2>3, QuietAnswer DEF Answered, Typed, ReportTypeOK
  <2> QED  BY <2>2, <2>3
<1>8. ASSUME LoseProcess PROVE Fitting(d)'
  BY <1>0, <1>8, QuietAnswer DEF LoseProcess, Typed, ReportTypeOK, Working
<1> QED  BY <1>1, <1>2, <1>3, <1>4, <1>5, <1>6, <1>7, <1>8 DEF ReportNext, Run

\* For any number of callers: an answer names a committed execution of what was asked, and two
\* callers with one request are told of one execution.
THEOREM Agree == ReportSpec => []AnswersAgree
<1>1. Typed /\ OneInv /\ AnswerInv /\ [ReportNext]_reportVars => Typed' /\ OneInv' /\ AnswerInv'
  BY TypedStep, OneStep, AnswerStep
<1>2. Typed /\ OneInv /\ AnswerInv => AnswersAgree
  <2> SUFFICES ASSUME Typed, OneInv, AnswerInv, NEW c \in Callers, NEW d \in Callers, answer[c].call # 0
               PROVE  /\ [task |-> calls[answer[c].call].task, scope |-> calls[answer[c].call].scope] = req[c]
                      /\ answer[d].call # 0 /\ req[c] = req[d] => answer[c].call = answer[d].call
    BY DEF AnswersAgree
  <2>1. Fits(c, answer[c].call) /\ pc[c] # "idle" /\ req[c] \in [task : Tasks, scope : Scopes]
    BY DEF AnswerInv, Fitting, Typed, Asked
  <2>2. [task |-> calls[answer[c].call].task, scope |-> calls[answer[c].call].scope] = req[c]
    BY <2>1 DEF Fits
  <2>3. ASSUME answer[d].call # 0, req[c] = req[d] PROVE answer[c].call = answer[d].call
    <3>1. Fits(d, answer[d].call)
      BY <2>3 DEF AnswerInv, Fitting
    <3>2. answer[c].call \in Stored(req[c].task) /\ answer[d].call \in Stored(req[c].task)
      BY <2>1, <2>3, <3>1, StoredRows DEF Fits, Typed
    <3> QED  BY <2>1, <2>3, <3>1, <3>2 DEF Fits, OneInv, OneExecutionPerTarget
  <2> QED  BY <2>2, <2>3
<1> QED  BY InitTyped, OneInit, AnswerInit, <1>1, <1>2, PTL DEF ReportSpec
-----------------------------------------------------------------------------
(* The workflow *)

FlowTyped ==
  /\ at \in Places \cup Products
  /\ root \in {"none", "RUNNING", "COMPLETED", "PARTIAL_SUCCESS", "FAILED"}
  /\ verdict \in {"none", "COMPLETE", "PARTIAL", "FAILED", "UNRESOLVED"}
  /\ todo \subseteq names /\ names \subseteq Products
  /\ discovery \in {"none", "RUNNING", "READY", "PARTIAL", "NEEDS_CLARIFICATION", "FAILED"}
  /\ research \in [Products -> NoRow \cup {"RUNNING", "COMPLETED", "PARTIAL_SUCCESS"}]
  /\ exhausted \in BOOLEAN
  /\ lost \subseteq Products \cup {"discovery"}

\* The one execution of a workflow, its report, and what run answered.
Unwritten == {"commit", "build", "write", "send", "publish"}
OwnExecution ==
  /\ pc[Flow] # "idle" => req[Flow].task = FlowTask
  /\ Len(calls) <= 1 /\ (pc[Flow] \in {"idle", "lock", "claim"} => Len(calls) = 0)
  /\ pc[Flow] \in {"commit", "done"} \cup Working => Len(calls) = 1 /\ mine[Flow] = 1
  /\ pc[Flow] \in Working \cup {"done"} => calls[1].visible
  /\ pc[Flow] \in Unwritten => calls[1].report = "none"
  /\ \A i \in 1 .. Len(calls) : /\ calls[i].task = FlowTask
                                /\ calls[i].report = "COMPLETE" => coverage[Flow] = "COMPLETE"
  /\ pc[Flow] = "done" =>
       /\ answer[Flow].status \in {"FAILED"} \cup Coverages /\ calls[1].status # "RUNNING"
       /\ answer[Flow].status = "COMPLETE" => calls[1].status = "SUCCEEDED" /\ calls[1].report = "COMPLETE"

Closing == {"finish", "done", "raised", "dead"}
Settling == Children = {} /\ research[Main] # "none"

\* The comparison begins when all else is settled, and ends before the workflow does.
Ordered ==
  /\ at # "comparing" => pc[Flow] \in {"idle", "done", "raised", "refused", "dead"}
  /\ at \in {"compare", "comparing"} => Settling
  /\ pc[Flow] # "idle" => at \in {"comparing"} \cup Closing /\ Settling
  /\ coverage[Flow] = "COMPLETE" => at \in {"comparing"} \cup Closing /\ Whole

\* What is left RUNNING was lost, and a workflow that lost something is FAILED.
Settled ==
  /\ \A p \in Products : research[p] = "RUNNING" => at = p \/ p \in lost \/ at = "dead"
  /\ discovery = "RUNNING" => at = "discovering" \/ "discovery" \in lost \/ at = "dead"
  /\ lost # {} => at \in Closing /\ verdict = "FAILED"
  /\ at \in Closing \ {"dead"} /\ verdict # "FAILED" => pc[Flow] \in {"idle", "done"}
  /\ verdict = "COMPLETE" => at \in Closing /\ pc[Flow] = "done" /\ answer[Flow].status = "COMPLETE"
  /\ root \in {"COMPLETED", "PARTIAL_SUCCESS", "FAILED"} =>
       /\ at = "done"
       /\ root = "COMPLETED" => verdict = "COMPLETE"
       /\ root # "FAILED" => verdict # "FAILED"

FlowInv == Typed /\ FlowTyped /\ OwnExecution /\ Ordered /\ Settled

\* A step of the workflow alone.
Quiet ==
  \/ Prepare \/ Deny \/ Understand \/ Unresolved \/ NothingLeft \/ Raise \/ BeginDiscovery
  \/ EndDiscovery \/ LoseDiscovery \/ EndResearch \/ RefuseProducts \/ EndComparison
  \/ Finish \/ LoseRoot
  \/ \E p \in Products : NoResearch(p) \/ OpenResearch(p) \/ CloseResearch(p) \/ LoseResearch(p)

LEMMA Steps == Next => Quiet \/ Compare \/ BuildMatrix \/ RunStep \/ Crash
BY DEF Next, Execute, Quiet

LEMMA QuietReports == Quiet => UNCHANGED reportVars
BY DEF Quiet, Prepare, Deny, Understand, Unresolved, NothingLeft, Raise, BeginDiscovery, EndDiscovery,
       LoseDiscovery, EndResearch, RefuseProducts, EndComparison, Finish, LoseRoot, NoResearch,
       OpenResearch, CloseResearch, LoseResearch
-----------------------------------------------------------------------------
(* Types *)

LEMMA InitHolds == Init => FlowInv
<1> SUFFICES ASSUME Init PROVE FlowInv
  OBVIOUS
<1>1. Typed
  BY InitTyped DEF Init
<1>2. FlowTyped
  BY DEF Init, FlowTyped, Places, NoRow
<1>3. pc[Flow] = "idle" /\ Len(calls) = 0 /\ coverage[Flow] = "PARTIAL"
  BY WorkflowAssumption DEF Init, ReportInit
<1>4. OwnExecution
  BY <1>3 DEF OwnExecution, Working, Unwritten
<1>5. Ordered /\ Settled
  BY <1>3 DEF Init, Ordered, Settled, Closing
<1> QED  BY <1>1, <1>2, <1>4, <1>5 DEF FlowInv

LEMMA ReportsTyped == ASSUME Typed, Next PROVE Typed'
<1>1. CASE Quiet
  BY <1>1, QuietReports, TypedStep
<1>2. CASE Compare
  BY <1>2, TypedStep, WorkflowAssumption DEF Compare, ReportNext
<1>3. CASE BuildMatrix
  BY <1>3, TypedStep, WorkflowAssumption DEF BuildMatrix, ReportNext
<1>4. CASE RunStep
  BY <1>4, TypedStep, WorkflowAssumption DEF RunStep, ReportNext
<1>5. CASE Crash
  BY <1>5 DEF Crash, LoseProcess, Typed, Asked, Claimed, Claiming, Working, ReportTypeOK
<1> QED  BY <1>1, <1>2, <1>3, <1>4, <1>5, Steps

LEMMA QuietTyped == ASSUME FlowInv, Quiet PROVE FlowTyped'
<1> USE WorkflowAssumption DEF FlowInv, FlowTyped, Places, End
<1>1. CASE Prepare \/ Deny \/ Unresolved \/ NothingLeft \/ Raise \/ BeginDiscovery
  BY <1>1 DEF Prepare, Deny, Unresolved, NothingLeft, Raise, BeginDiscovery
<1>2. CASE Understand
  BY <1>2 DEF Understand, Choose, Products
<1>3. CASE EndDiscovery
  BY <1>3 DEF EndDiscovery, Choose, Products
<1>4. CASE LoseDiscovery \/ EndResearch \/ RefuseProducts \/ Finish \/ LoseRoot
  BY <1>4 DEF LoseDiscovery, EndResearch, RefuseProducts, Finish, LoseRoot
<1>5. CASE EndComparison
  <2>1. UNCHANGED <<root, todo, names, discovery, research, exhausted, lost>> /\ at' = "finish"
    BY <1>5 DEF EndComparison
  <2>2. verdict' \in {"FAILED"} \cup Coverages
    BY <1>5 DEF EndComparison, OwnExecution
  <2> QED  BY <2>1, <2>2 DEF Coverages
<1>6. ASSUME NEW p \in Products, NoResearch(p) \/ OpenResearch(p) \/ CloseResearch(p) \/ LoseResearch(p)
      PROVE  FlowTyped'
  <2>1. CASE NoResearch(p)
    BY <2>1 DEF NoResearch, NoRow
  <2>2. CASE OpenResearch(p)
    BY <2>2 DEF OpenResearch
  <2>3. CASE CloseResearch(p)
    <3>1. PICK status \in {"COMPLETED", "PARTIAL_SUCCESS"} : research' = [research EXCEPT ![p] = status]
      BY <2>3 DEF CloseResearch
    <3>2. /\ todo' = todo \ {p} /\ at' = "research"
          /\ UNCHANGED <<root, verdict, names, discovery, exhausted, lost>>
      BY <2>3 DEF CloseResearch
    <3> QED  BY <3>1, <3>2
  <2>4. CASE LoseResearch(p)
    BY <2>4 DEF LoseResearch
  <2> QED  BY <1>6, <2>1, <2>2, <2>3, <2>4
<1> QED  BY <1>1, <1>2, <1>3, <1>4, <1>5, <1>6 DEF Quiet

LEMMA FlowTypes == ASSUME FlowInv, Next PROVE FlowTyped'
<1>1. CASE Compare \/ BuildMatrix \/ RunStep \/ Crash
  BY <1>1 DEF Compare, BuildMatrix, RunStep, Crash, flowVars, FlowInv, FlowTyped, Places
<1> QED  BY <1>1, Steps, QuietTyped
-----------------------------------------------------------------------------
(* The execution of the workflow *)

LEMMA QuietExecution ==
  ASSUME OwnExecution, UNCHANGED reportVars
  PROVE  OwnExecution'
BY DEF OwnExecution, reportVars

\* run, called by the workflow: one step, in the place where its caller is.
LEMMA RunExecution == ASSUME Typed, OwnExecution, Run(Flow) PROVE OwnExecution'
<1> USE WorkflowAssumption DEF Working, Unwritten, Goto, Claiming
<1>0. /\ Flow \in Callers
      /\ pc \in [Callers -> {"idle", "lock", "refused", "done", "raised", "dead"} \cup Claiming \cup Working]
      /\ calls \in Seq(Execution) /\ Len(calls) \in Nat
      /\ mine \in [Callers -> Nat] /\ coverage \in [Callers -> Coverages]
      /\ answer \in [Callers -> [call : Nat, status : {"none", "RUNNING", "FAILED"} \cup Coverages]]
  BY DEF Typed, ReportTypeOK
<1>1. CASE LockTarget(Flow)
  BY <1>0, <1>1 DEF LockTarget, OwnExecution
<1>2. CASE Reuse(Flow) \/ Refuse(Flow)
  <2>1. Len(calls) = 0 /\ \E i \in Existing(req[Flow].task) : TRUE
    BY <1>2 DEF Reuse, Refuse, OwnExecution
  <2>2. DOMAIN calls = {}
    BY <1>0, <2>1
  <2> QED  BY <2>1, <2>2 DEF Existing, Stored
<1>3. CASE Insert(Flow)
  <2>1. /\ pc[Flow] = "claim" /\ pc'[Flow] = "commit" /\ Len(calls) = 0 /\ mine'[Flow] = 1
        /\ UNCHANGED <<req, coverage, answer>> /\ req[Flow].task = FlowTask
    BY <1>0, <1>3 DEF Insert, OwnExecution
  <2>2. calls' = Append(calls, [task |-> FlowTask, scope |-> req[Flow].scope, visible |-> FALSE,
                                status |-> "RUNNING", report |-> "none"])
    BY <1>3, <2>1 DEF Insert
  <2>3. Len(calls') = 1 /\ calls'[1].task = FlowTask /\ calls'[1].report = "none"
    BY <1>0, <2>1, <2>2
  <2> QED  BY <2>1, <2>3 DEF OwnExecution
<1>4. CASE CommitClaim(Flow) \/ LoseClaim(Flow)
  <2>1. /\ pc[Flow] = "commit" /\ pc'[Flow] \in {"build", "raised"} /\ Len(calls) = 1 /\ mine[Flow] = 1
        /\ UNCHANGED <<req, mine, coverage, answer>>
        /\ calls' = [calls EXCEPT ![1].visible = TRUE] \/ (UNCHANGED calls /\ pc'[Flow] = "raised")
    BY <1>0, <1>4 DEF CommitClaim, LoseClaim, Show, OwnExecution
  <2>2. calls[1] \in Execution /\ DOMAIN calls = 1 .. 1
    BY <2>1, CallsAreRecords DEF Typed
  <2>3. /\ Len(calls') = 1 /\ calls'[1].task = calls[1].task /\ calls'[1].report = calls[1].report
        /\ calls'[1].visible \/ pc'[Flow] = "raised"
    BY <2>1, <2>2, <1>0 DEF Execution
  <2> QED  BY <2>1, <2>3 DEF OwnExecution
<1>5. CASE Break(Flow)
  BY <1>0, <1>5 DEF Break, OwnExecution
<1>6. CASE OpenAttempt(Flow)
  BY <1>0, <1>6 DEF OpenAttempt, OwnExecution
<1>7. CASE Pay(Flow) \/ SendNothing(Flow)
  <2>1. /\ pc[Flow] \in {"write", "send"} /\ pc'[Flow] = "publish" /\ UNCHANGED <<calls, req, mine, answer>>
    BY <1>0, <1>7 DEF Pay, SendNothing
  <2> QED  BY <2>1 DEF OwnExecution
<1>8. CASE Publish(Flow) \/ LosePublication(Flow) \/ RecordFailure(Flow) \/ LoseFailure(Flow)
  <2>1. /\ pc[Flow] \in {"publish", "failed"} /\ Len(calls) = 1 /\ mine[Flow] = 1
        /\ UNCHANGED <<req, mine, coverage>>
        /\ pc'[Flow] \in {"done", "failed", "raised"}
    BY <1>0, <1>8 DEF Publish, LosePublication, RecordFailure, LoseFailure, OwnExecution
  <2>2. calls[1] \in Execution /\ DOMAIN calls = 1 .. 1
    BY <2>1, CallsAreRecords DEF Typed
  <2>3. ASSUME Published(Flow)
        PROVE  /\ Len(calls') = 1 /\ calls'[1].task = calls[1].task /\ calls'[1].visible = calls[1].visible
               /\ calls'[1].status = "SUCCEEDED" /\ calls'[1].report = coverage[Flow]
    BY <1>0, <2>1, <2>2, <2>3 DEF Published, Execution
  <2>4. ASSUME Failed(Flow)
        PROVE  /\ Len(calls') = 1 /\ calls'[1].task = calls[1].task /\ calls'[1].visible = calls[1].visible
               /\ calls'[1].status = "FAILED" /\ calls'[1].report = calls[1].report
    BY <1>0, <2>1, <2>2, <2>4 DEF Failed, Execution
  <2>0. /\ req[Flow].task = FlowTask /\ calls[1].visible /\ calls[1].task = FlowTask
        /\ calls[1].report = "COMPLETE" => coverage[Flow] = "COMPLETE"
        /\ coverage[Flow] \in Coverages
        /\ \A i \in 1 .. 1 : i = 1
    BY <1>0, <2>1 DEF OwnExecution
  <2>5. CASE Publish(Flow)
    <3>1. pc'[Flow] = "done" /\ answer'[Flow].status = coverage[Flow] /\ Published(Flow)
      BY <1>0, <2>5 DEF Publish, Answered
    <3> QED  BY <2>0, <2>1, <2>3, <3>1 DEF OwnExecution
  <2>6. CASE RecordFailure(Flow)
    <3>1. pc'[Flow] = "done" /\ answer'[Flow].status = "FAILED" /\ Failed(Flow)
      BY <1>0, <2>6 DEF RecordFailure, Answered
    <3> QED  BY <2>0, <2>1, <2>4, <3>1 DEF OwnExecution
  <2>7. CASE LosePublication(Flow) \/ LoseFailure(Flow)
    <3>1. /\ pc'[Flow] \in {"failed", "raised"} /\ answer' = answer
          /\ Published(Flow) \/ Failed(Flow) \/ UNCHANGED calls
      BY <1>0, <2>7 DEF LosePublication, LoseFailure
    <3> QED  BY <2>0, <2>1, <2>3, <2>4, <3>1 DEF OwnExecution
  <2> QED  BY <1>8, <2>5, <2>6, <2>7
<1> QED  BY <1>1, <1>2, <1>3, <1>4, <1>5, <1>6, <1>7, <1>8 DEF Run

LEMMA ExecutionStep == ASSUME FlowInv, Next PROVE OwnExecution'
<1> USE WorkflowAssumption DEF FlowInv
<1>0. /\ Flow \in Callers /\ pc \in [Callers -> {"idle", "lock", "refused", "done", "raised", "dead"} \cup Claiming \cup Working]
  BY DEF Typed, ReportTypeOK
<1>1. CASE Quiet
  BY <1>1, QuietReports, QuietExecution
<1>2. CASE Compare
  <2>1. /\ pc[Flow] = "idle" /\ pc'[Flow] = "lock" /\ req'[Flow].task = FlowTask
        /\ UNCHANGED <<calls, mine, coverage, answer>>
    BY <1>0, <1>2 DEF Compare, Ask, Goto, Typed, ReportTypeOK
  <2> QED  BY <2>1 DEF OwnExecution, Working, Unwritten
<1>3. CASE BuildMatrix
  <2>1. /\ pc[Flow] = "build" /\ pc'[Flow] = "write" /\ UNCHANGED <<calls, mine, req, answer>>
    BY <1>0, <1>3 DEF BuildMatrix, Build, Goto
  <2> QED  BY <2>1 DEF OwnExecution, Working, Unwritten
<1>4. CASE RunStep
  BY <1>4, RunExecution DEF RunStep
<1>5. CASE Crash
  <2>1. /\ pc'[Flow] = pc[Flow] \/ pc'[Flow] = "dead"
        /\ pc[Flow] \in {"idle", "refused", "done", "raised", "dead"} \/ pc'[Flow] = "dead"
        /\ UNCHANGED <<calls, mine, req, answer, coverage>>
    BY <1>0, <1>5 DEF Crash, LoseProcess
  <2>2. pc'[Flow] = "dead" => pc[Flow] # "idle"
    BY <1>0, <1>5 DEF Crash, LoseProcess, Claiming, Working
  <2> QED  BY <2>1, <2>2 DEF OwnExecution, Working, Unwritten
<1> QED  BY <1>1, <1>2, <1>3, <1>4, <1>5, Steps
-----------------------------------------------------------------------------
(* The order of the workflow, and what it leaves behind *)

\* Steps before the comparison: run has not been called.
Early ==
  \/ Prepare \/ Deny \/ Understand \/ Unresolved \/ NothingLeft \/ Raise \/ BeginDiscovery
  \/ EndDiscovery \/ LoseDiscovery \/ EndResearch \/ RefuseProducts
  \/ \E p \in Products : NoResearch(p) \/ OpenResearch(p) \/ CloseResearch(p) \/ LoseResearch(p)

LEMMA EarlySteps == Quiet => Early \/ EndComparison \/ Finish \/ LoseRoot
BY DEF Quiet, Early

LEMMA EarlyPlaces ==
  ASSUME FlowInv, Early
  PROVE  /\ at \notin {"comparing"} \cup Closing
         /\ at' # "comparing" /\ pc[Flow] = "idle" /\ coverage[Flow] # "COMPLETE" /\ lost = {}
         /\ UNCHANGED reportVars
<1> USE WorkflowAssumption DEF FlowInv, Closing, Places
<1>1. at \notin {"comparing"} \cup Closing /\ at' # "comparing"
  BY DEF Early, Prepare, Deny, Understand, Choose, Unresolved, NothingLeft, Raise, BeginDiscovery,
         EndDiscovery, LoseDiscovery, EndResearch, RefuseProducts, NoResearch, OpenResearch,
         CloseResearch, LoseResearch, Turn, End
<1>2. UNCHANGED reportVars
  BY QuietReports DEF Early, Quiet
<1> QED  BY <1>1, <1>2 DEF Ordered, Settled

LEMMA OrderedStep == ASSUME FlowInv, Next PROVE Ordered'
<1> USE WorkflowAssumption DEF FlowInv
<1>0. /\ Flow \in Callers /\ coverage \in [Callers -> Coverages]
      /\ pc \in [Callers -> {"idle", "lock", "refused", "done", "raised", "dead"} \cup Claiming \cup Working]
  BY DEF Typed, ReportTypeOK
<1>1. CASE Early
  <2>1. /\ at' # "comparing" /\ pc'[Flow] = "idle" /\ coverage'[Flow] # "COMPLETE"
    BY <1>1, EarlyPlaces DEF reportVars
  <2>2. ASSUME at' = "compare" PROVE Settling'
    <3>1. CASE at = "compare"
      BY <1>1, <2>2, <3>1 DEF Early, Prepare, Deny, Understand, Choose, Unresolved, NothingLeft, Raise,
         BeginDiscovery, EndDiscovery, LoseDiscovery, EndResearch, RefuseProducts, NoResearch,
         OpenResearch, CloseResearch, LoseResearch, Turn, End, Places
    <3>2. CASE at # "compare"
      <4>1. EndResearch
        BY <1>1, <2>2, <3>2 DEF Early, Prepare, Deny, Understand, Choose, Unresolved, NothingLeft, Raise,
           BeginDiscovery, EndDiscovery, LoseDiscovery, RefuseProducts, NoResearch,
           OpenResearch, CloseResearch, LoseResearch, Turn, End, Places
      <4>2. /\ at = "research" /\ research[Main] # "none" /\ UNCHANGED <<research, discovery>> /\ lost = {}
        BY <1>1, <2>2, <4>1, EarlyPlaces DEF EndResearch, End
      <4>3. Children = {}
        BY <4>2 DEF Settled, Children, Places
      <4> QED  BY <4>2, <4>3 DEF Settling, Children
    <3> QED  BY <3>1, <3>2
  <2> QED  BY <2>1, <2>2 DEF Ordered
<1>2. CASE EndComparison \/ Finish \/ LoseRoot
  <2>1. /\ UNCHANGED reportVars /\ UNCHANGED <<research, discovery, names, exhausted>>
        /\ at' \in Closing /\ at' # "comparing" /\ at' # "compare"
    BY <1>2, QuietReports DEF EndComparison, Finish, LoseRoot, End, Closing, Quiet
  <2>2. Settling' = Settling /\ Whole' = Whole
    BY <2>1 DEF Settling, Children, Whole
  <2>3. pc'[Flow] \in {"idle", "done", "raised", "refused", "dead"}
    BY <1>2, <2>1 DEF EndComparison, Finish, LoseRoot, Ordered, reportVars
  <2> QED  BY <2>1, <2>2, <2>3 DEF Ordered, reportVars
<1>3. CASE Compare
  <2>1. /\ at = "compare" /\ at' = "comparing" /\ UNCHANGED <<research, discovery, coverage>>
        /\ pc[Flow] = "idle"
    BY <1>3 DEF Compare, Ask
  <2>2. Settling' = Settling
    BY <2>1 DEF Settling, Children
  <2>3. coverage[Flow] # "COMPLETE"
    BY <2>1 DEF Ordered, Closing
  <2> QED  BY <2>1, <2>2, <2>3 DEF Ordered
<1>4. CASE BuildMatrix
  <2>1. PICK k \in Coverages : (k = "COMPLETE" => Whole) /\ Build(Flow, k)
    BY <1>4 DEF BuildMatrix
  <2>2. at = "comparing" /\ at' = at /\ UNCHANGED <<research, discovery, names, exhausted>>
    BY <1>4 DEF BuildMatrix, flowVars
  <2>3. Settling' = Settling /\ Whole' = Whole /\ Settling
    BY <2>2 DEF Settling, Children, Whole, Ordered
  <2>4. coverage'[Flow] = k
    BY <1>0, <2>1 DEF Build
  <2> QED  BY <2>1, <2>2, <2>3, <2>4 DEF Ordered
<1>5. CASE RunStep
  <2>1. pc[Flow] \notin {"idle", "done", "raised", "refused", "dead"}
    BY <1>5 DEF RunStep, Run, LockTarget, Reuse, Refuse, Insert, CommitClaim, LoseClaim, Break,
         OpenAttempt, Pay, SendNothing, Publish, LosePublication, RecordFailure, LoseFailure
  <2>2. at = "comparing" /\ at' = at /\ UNCHANGED <<research, discovery, names, exhausted>>
    BY <1>5, <2>1 DEF RunStep, flowVars, Ordered
  <2>3. Settling' = Settling /\ Whole' = Whole /\ Settling
    BY <2>2 DEF Settling, Children, Whole, Ordered
  <2>4. coverage'[Flow] = coverage[Flow] \/ coverage'[Flow] = "PARTIAL"
    BY <1>0, <1>5 DEF RunStep, Run, LockTarget, Reuse, Refuse, Insert, CommitClaim, LoseClaim, Break,
         OpenAttempt, Pay, SendNothing, Publish, LosePublication, RecordFailure, LoseFailure
  <2> QED  BY <2>2, <2>3, <2>4 DEF Ordered
<1>6. CASE Crash
  <2>1. /\ at' = "dead" /\ UNCHANGED <<research, discovery, names, exhausted, coverage>>
        /\ pc'[Flow] \in {"idle", "done", "raised", "refused", "dead"}
        /\ at \notin Ended
    BY <1>0, <1>6 DEF Crash, LoseProcess, Claiming, Working
  <2>2. Settling' = Settling /\ Whole' = Whole
    BY <2>1 DEF Settling, Children, Whole
  <2>3. pc'[Flow] # "idle" => pc[Flow] # "idle"
    BY <1>0, <1>6 DEF Crash, LoseProcess, Claiming, Working
  <2> QED  BY <2>1, <2>2, <2>3 DEF Ordered, Closing
<1> QED  BY <1>1, <1>2, <1>3, <1>4, <1>5, <1>6, Steps, EarlySteps

LEMMA SettledStep == ASSUME FlowInv, Next PROVE Settled'
<1> USE WorkflowAssumption DEF FlowInv, Closing, Places
<1>0. /\ Flow \in Callers /\ research \in [Products -> NoRow \cup {"RUNNING", "COMPLETED", "PARTIAL_SUCCESS"}]
      /\ pc \in [Callers -> {"idle", "lock", "refused", "done", "raised", "dead"} \cup Claiming \cup Working]
  BY DEF Typed, ReportTypeOK, FlowTyped
<1>1. CASE Early
  <2>1. /\ at \notin {"comparing"} \cup Closing /\ pc[Flow] = "idle" /\ lost = {} /\ verdict # "COMPLETE"
        /\ root \notin {"COMPLETED", "PARTIAL_SUCCESS", "FAILED"} /\ pc' = pc /\ answer' = answer
    BY <1>1, EarlyPlaces DEF Settled, reportVars
  <2>2. /\ \A p \in Products : research[p] = "RUNNING" => at = p
        /\ discovery = "RUNNING" => at = "discovering"
    BY <2>1 DEF Settled
  <2>3. CASE Prepare \/ Deny \/ Understand \/ Unresolved \/ NothingLeft \/ Raise
    BY <2>1, <2>2, <2>3 DEF Settled, Prepare, Deny, Understand, Choose, Unresolved, NothingLeft, Raise, End
  <2>4. CASE BeginDiscovery \/ EndResearch \/ RefuseProducts
    BY <2>1, <2>2, <2>4 DEF Settled, BeginDiscovery, EndResearch, RefuseProducts, End
  <2>5. CASE EndDiscovery \/ LoseDiscovery
    BY <2>1, <2>2, <2>5 DEF Settled, EndDiscovery, LoseDiscovery, Choose, End
  <2>6. ASSUME NEW p \in Products, NoResearch(p) \/ OpenResearch(p) \/ CloseResearch(p) \/ LoseResearch(p)
        PROVE  Settled'
    <3>1. CASE NoResearch(p)
      BY <1>0, <2>1, <2>2, <3>1 DEF Settled, NoResearch, Turn, NoRow
    <3>2. CASE OpenResearch(p)
      BY <1>0, <2>1, <2>2, <3>2 DEF Settled, OpenResearch, Turn
    <3>3. CASE CloseResearch(p)
      BY <1>0, <2>1, <2>2, <3>3 DEF Settled, CloseResearch
    <3>4. CASE LoseResearch(p)
      BY <1>0, <2>1, <2>2, <3>4 DEF Settled, LoseResearch, End
    <3> QED  BY <2>6, <3>1, <3>2, <3>3, <3>4
  <2> QED  BY <1>1, <2>3, <2>4, <2>5, <2>6 DEF Early
<1>2. CASE EndComparison
  <2>1. /\ at = "comparing" /\ at' = "finish" /\ UNCHANGED <<root, discovery, research, lost, pc, answer>>
        /\ \/ pc[Flow] = "done" /\ verdict' = answer[Flow].status
           \/ pc[Flow] = "raised" /\ verdict' = "FAILED"
    BY <1>2 DEF EndComparison, End, reportVars
  <2> QED  BY <2>1 DEF Settled
<1>3. CASE Finish
  <2>1. /\ at = "finish" /\ at' = "done" /\ UNCHANGED <<verdict, discovery, research, lost, pc, answer>>
        /\ root' = "COMPLETED" => verdict = "COMPLETE"
        /\ root' # "FAILED" => verdict # "FAILED"
    BY <1>3 DEF Finish, reportVars
  <2> QED  BY <2>1 DEF Settled
<1>4. CASE LoseRoot
  BY <1>4 DEF LoseRoot, Settled, reportVars
<1>5. CASE Compare
  BY <1>5 DEF Compare, Settled
<1>6. CASE BuildMatrix
  <2>1. at = "comparing" /\ UNCHANGED flowVars
    BY <1>6 DEF BuildMatrix
  <2> QED  BY <2>1 DEF Settled, flowVars
<1>7. CASE RunStep
  <2>1. pc[Flow] \notin {"idle", "done", "raised", "refused", "dead"} /\ UNCHANGED flowVars
    BY <1>7 DEF RunStep, Run, LockTarget, Reuse, Refuse, Insert, CommitClaim, LoseClaim, Break,
         OpenAttempt, Pay, SendNothing, Publish, LosePublication, RecordFailure, LoseFailure
  <2>2. at = "comparing"
    BY <2>1 DEF Ordered
  <2> QED  BY <2>1, <2>2 DEF Settled, flowVars
<1>8. CASE Crash
  <2>1. /\ at \notin Ended /\ at' = "dead" /\ UNCHANGED <<root, verdict, discovery, research, lost, answer>>
        /\ pc[Flow] = "done" => pc'[Flow] = "done"
    BY <1>0, <1>8 DEF Crash, LoseProcess, Claiming, Working
  <2> QED  BY <2>1 DEF Settled, Ended
<1> QED  BY <1>1, <1>2, <1>3, <1>4, <1>5, <1>6, <1>7, <1>8, Steps, EarlySteps
-----------------------------------------------------------------------------
(* Theorems *)

LEMMA FlowStep == ASSUME FlowInv, [Next]_vars PROVE FlowInv'
<1>1. CASE Next
  BY <1>1, ReportsTyped, FlowTypes, ExecutionStep, OrderedStep, SettledStep DEF FlowInv
<1>2. CASE UNCHANGED vars
  <2>1. Typed'
    BY <1>2, TypedStep DEF FlowInv, vars
  <2>2. FlowTyped' /\ OwnExecution' /\ Ordered' /\ Settled'
    BY <1>2 DEF vars, flowVars, reportVars, FlowInv, FlowTyped, OwnExecution, Ordered, Settling, Children,
       Whole, Settled
  <2> QED  BY <2>1, <2>2 DEF FlowInv
<1> QED  BY <1>1, <1>2

LEMMA FlowHolds == Spec => []FlowInv
<1> QED  BY InitHolds, FlowStep, PTL DEF Spec

\* Every variable of the workflow has its type, and so has every variable of run.
THEOREM FlowTypeCorrect == Spec => []TypeOK
<1>1. FlowInv => TypeOK
  BY DEF FlowInv, Typed, FlowTyped, TypeOK
<1> QED  BY <1>1, FlowHolds, PTL

LEMMA OnlyRow == ASSUME FlowInv PROVE \A i \in DOMAIN calls : i = 1 /\ Len(calls) = 1
<1>1. DOMAIN calls = 1 .. Len(calls) /\ Len(calls) \in Nat /\ Len(calls) <= 1
  BY CallsAreRecords DEF FlowInv, Typed, OwnExecution
<1> QED  BY <1>1

\* A run of a workflow is COMPLETED only when its report is complete and stored, and
\* its discovery and the research of all it compares left nothing open
\* (AgentWorkflow.execute with CompetitiveReportService.run).
THEOREM Complete == Spec => []CompleteMeansComplete
<1>1. ASSUME FlowInv, root = "COMPLETED" PROVE CompleteMeansComplete
  <2>1. pc[Flow] = "done" /\ answer[Flow].status = "COMPLETE"
    BY <1>1 DEF FlowInv, Settled
  <2>2. /\ calls[1].status = "SUCCEEDED" /\ calls[1].report = "COMPLETE" /\ calls[1].visible
        /\ Len(calls) = 1
    BY <1>1, <2>1 DEF FlowInv, OwnExecution
  <2>3. DOMAIN calls = 1 .. 1
    BY <1>1, <2>2, CallsAreRecords DEF FlowInv, Typed
  <2>4. 1 \in Stored(FlowTask) /\ coverage[Flow] = "COMPLETE"
    BY <1>1, <2>2, <2>3 DEF FlowInv, OwnExecution, Stored
  <2>5. Whole
    BY <1>1, <2>4 DEF FlowInv, Ordered
  <2> QED  BY <2>2, <2>4, <2>5 DEF CompleteMeansComplete, Whole
<1>2. FlowInv => CompleteMeansComplete
  BY <1>1 DEF CompleteMeansComplete
<1> QED  BY <1>2, FlowHolds, PTL

\* Nothing is compared before discovery and research are settled; and a settled
\* workflow leaves no run of its own RUNNING but one whose last transaction failed.
THEOREM ChildrenSettled == Spec => []ChildrenSettle
<1>1. ASSUME FlowInv PROVE ChildrenSettle
  <2> USE <1>1 DEF FlowInv
  <2>1. ASSUME NEW i \in DOMAIN calls PROVE Settling
    <3>1. pc[Flow] # "idle"
      BY <2>1, OnlyRow DEF OwnExecution
    <3> QED  BY <3>1 DEF Ordered
  <2>2. ASSUME root \in {"COMPLETED", "PARTIAL_SUCCESS", "FAILED"} PROVE Children \subseteq lost
    <3>1. at = "done" /\ at \notin Products
      BY <2>2, WorkflowAssumption DEF Settled, Places
    <3> QED  BY <3>1 DEF Settled, Children
  <2>3. ASSUME root \in {"COMPLETED", "PARTIAL_SUCCESS"}
        PROVE  Children = {} /\ \A i \in Stored(FlowTask) : calls[i].status # "RUNNING"
    <3>1. at = "done" /\ verdict # "FAILED" /\ lost = {} /\ pc[Flow] \in {"idle", "done"}
      BY <2>3 DEF Settled, Closing
    <3>2. ASSUME NEW i \in Stored(FlowTask) PROVE calls[i].status # "RUNNING"
      <4>1. i = 1 /\ Len(calls) = 1
        BY <3>2, OnlyRow DEF Stored
      <4> QED  BY <3>1, <4>1 DEF OwnExecution
    <3> QED  BY <2>2, <2>3, <3>1, <3>2
  <2> QED  BY <2>1, <2>2, <2>3 DEF ChildrenSettle, Settling
<1> QED  BY <1>1, FlowHolds, PTL
=============================================================================

------------------------- MODULE FactHistoryProofs -------------------------
(***************************************************************************)
(* The history of facts for any number of runs, pages, identities, values  *)
(* and overlapping runs.                                                   *)
(***************************************************************************)
EXTENDS FactHistory, WellFoundedInduction, SequenceTheorems, TLAPS

-----------------------------------------------------------------------------
(* The latest of a set of rows *)

Below == {ss \in Nat \X Nat : ss[1] < ss[2]}

LEMMA BelowIsWellFounded == IsWellFoundedOn(Below, Nat)
<1>1. Below = OpToRel(<, Nat)
  BY DEF Below, OpToRel
<1> QED  BY <1>1, NatLessThanWellFounded

LEMMA SmallestExists ==
  ASSUME NEW T, T \subseteq Nat, T # {}
  PROVE  \E x \in T : \A y \in T : x <= y
<1>1. PICK x \in T : \A y \in T : ~ (<<y, x>> \in Below)
  BY BelowIsWellFounded, WFMin
<1>2. \A y \in T : ~ (y < x)
  BY <1>1 DEF Below
<1> QED  BY <1>2

\* A set of ids below a bound has a latest one.
LEMMA LatestIn ==
  ASSUME NEW n \in Nat, NEW S, S \subseteq 1 .. n, S # {}
  PROVE  Latest(S) \in S
<1> DEFINE T == {n - x : x \in S}
<1>1. \A x \in S : n - x \in Nat
  OBVIOUS
<1>2. T \subseteq Nat /\ T # {}
  BY <1>1
<1>3. PICK z \in T : \A y \in T : z <= y
  BY <1>2, SmallestExists
<1>4. PICK x \in S : z = n - x
  OBVIOUS
<1>5. \A y \in S : n - x <= n - y
  BY <1>3, <1>4
<1>6. \A y \in S : y <= x
  BY <1>5
<1> QED  BY <1>6 DEF Latest
-----------------------------------------------------------------------------
(* Types *)

\* While a page is open its candidates have values and its snapshot exists; a
\* comparison has a run to compare with; a change that ends an identity has no
\* new version, any other one has.
OpenPage  == \A r \in Runs : phase[r] = "page" =>
               /\ cursor[r] \in Sources /\ work[r].owner \in Runs
               /\ \A k \in work[r].todo : answer[r][cursor[r]][k] \in Values
Compared  == \A r \in Runs : phase[r] = "compare" => prev[r] \in Runs
PlanShape == \A r \in Runs : \A c \in plan[r] :
               /\ c.run = r
               /\ c.type \in {"ADDED", "MODIFIED", "UNCHANGED"} => c.new # 0
               /\ c.type \in {"REMOVED", "UNCOMPARABLE"} => c.new = 0
Typed == TypeOK /\ OpenPage /\ Compared /\ PlanShape

LEMMA SameFacts == facts' = facts => Observation' = Observation /\ Change' = Change
BY DEF Observation, Change

LEMMA InitTyped == Init => Typed
BY HistoryAssumption DEF Init, Typed, TypeOK, OpenPage, Compared, PlanShape, NoAnswer, Idle, NoKind,
   Answers, Statuses, PageStatuses, Phases, Runs, Sources, Observation, Change

\* The queries return rows that exist.
LEMMA BaselineTyped == ASSUME Typed, NEW r \in Runs PROVE Baseline(r) \in Runs \cup {0}
<1>1. EligibleBaselines(r) \subseteq 1 .. MaxRuns
  BY DEF EligibleBaselines, Runs
<1>2. EligibleBaselines(r) # {} => Latest(EligibleBaselines(r)) \in EligibleBaselines(r)
  BY <1>1, LatestIn, HistoryAssumption
<1> QED  BY <1>1, <1>2 DEF Baseline, Runs

LEMMA OwnerTyped ==
  ASSUME Typed, NEW r \in Runs, NEW s \in Sources
  PROVE  SnapshotOwner(r, s) \in Runs \cup {0}
<1> DEFINE S == {q \in IF kind[r].job = "smoke" THEN Runs ELSE {r} : snaps[q][s] = "SUCCESS"}
<1>1. S \subseteq 1 .. MaxRuns
  BY DEF Runs
<1>2. S # {} => Latest(S) \in S
  BY <1>1, LatestIn, HistoryAssumption
<1> QED  BY <1>1, <1>2 DEF SnapshotOwner, Runs

LEMMA CurrentTyped ==
  ASSUME Typed, NEW k \in Keys
  PROVE  CurrentOf(k) \in {0} \cup DOMAIN facts
<1> DEFINE S == {f \in current : facts[f].key = k}
<1>1. Len(facts) \in Nat /\ DOMAIN facts = 1 .. Len(facts)
  BY DEF Typed, TypeOK
<1>2. S \subseteq 1 .. Len(facts)
  BY <1>1 DEF Typed, TypeOK
<1>3. S # {} => Latest(S) \in S
  BY <1>1, <1>2, LatestIn
<1> QED  BY <1>1, <1>2, <1>3 DEF CurrentOf

\* A run has a fact for exactly the identities it observed.
LEMMA FactInTyped ==
  ASSUME Typed, NEW r \in Runs, NEW k \in Keys
  PROVE  /\ FactIn(r, k) \in {0} \cup DOMAIN facts
         /\ FactIn(r, k) # 0 <=> k \in ObsKeys(r)
<1> DEFINE S == {o.fact : o \in {x \in ObsOf(r) : KeyOf(x) = k}}
<1>1. Len(facts) \in Nat /\ DOMAIN facts = 1 .. Len(facts)
  BY DEF Typed, TypeOK
<1>2. \A o \in obs : o.fact \in DOMAIN facts
  BY DEF Typed, TypeOK, Observation
<1>3. S \subseteq 1 .. Len(facts)
  BY <1>1, <1>2 DEF ObsOf
<1>4. S # {} => Latest(S) \in S
  BY <1>1, <1>3, LatestIn
<1>5. S # {} <=> k \in ObsKeys(r)
  BY DEF ObsKeys
<1> QED  BY <1>1, <1>3, <1>4, <1>5 DEF FactIn

\* Only the status of an observation is ever updated.
LEMMA JudgedTyped ==
  ASSUME NEW o \in Observation, NEW st \in ObsStatuses
  PROVE  [o EXCEPT !.status = st] \in Observation
BY DEF Observation

LEMMA AcceptedTyped ==
  ASSUME Typed, NEW A \in SUBSET obs
  PROVE  (obs \ A) \cup {[o EXCEPT !.status = "BASELINE"] : o \in A} \subseteq Observation
<1>1. obs \subseteq Observation /\ "BASELINE" \in ObsStatuses
  BY DEF Typed, TypeOK, ObsStatuses, Accepted
<1>2. \A o \in A : [o EXCEPT !.status = "BASELINE"] \in Observation
  BY <1>1, JudgedTyped
<1> QED  BY <1>1, <1>2

LEMMA PageKeysTyped == ASSUME NEW s \in Sources PROVE PageKeys[s] \subseteq Keys
BY HistoryAssumption DEF Sources

LEMMA CreateTyped ==
  ASSUME Typed, NEW r \in Runs, Create(r)
  PROVE  Typed'
<1>1. Observation' = Observation /\ Change' = Change
  BY SameFacts DEF Create, rows
<1>2. TypeOK'
  <2>1. status' \in [Runs -> Statuses]
    BY <1>1 DEF Typed, TypeOK, Create, Statuses
  <2>2. phase' \in [Runs -> Phases]
    BY <1>1 DEF Typed, TypeOK, Create, Phases
  <2>3. kind' \in [Runs -> Kinds \cup {NoKind}]
    BY <1>1 DEF Typed, TypeOK, Create
  <2> QED  BY <1>1, <2>1, <2>2, <2>3 DEF Typed, TypeOK, Create, rows
<1>3. (OpenPage /\ Compared /\ PlanShape)'
  BY <1>1, BaselineTyped, OwnerTyped, HistoryAssumption DEF Typed, TypeOK, OpenPage, Compared, PlanShape, Create, rows
<1> QED  BY <1>2, <1>3 DEF Typed

LEMMA SelectModeTyped ==
  ASSUME Typed, NEW r \in Runs, SelectMode(r)
  PROVE  Typed'
<1>1. Observation' = Observation /\ Change' = Change
  BY SameFacts DEF SelectMode, rows
<1>2. TypeOK'
  BY <1>1, BaselineTyped, OwnerTyped, HistoryAssumption DEF Typed, TypeOK, SelectMode, rows, Runs, Phases, Statuses
<1>3. (OpenPage /\ Compared /\ PlanShape)'
  BY <1>1, BaselineTyped, OwnerTyped, HistoryAssumption DEF Typed, TypeOK, OpenPage, Compared, PlanShape, SelectMode, rows
<1> QED  BY <1>2, <1>3 DEF Typed

LEMMA FetchTyped ==
  ASSUME Typed, NEW r \in Runs, Fetch(r)
  PROVE  Typed'
<1>1. Observation' = Observation /\ Change' = Change
  BY SameFacts DEF Fetch, rows
<1>2. TypeOK'
  <2>1. snaps' \in [Runs -> [Sources -> {"none", "SUCCESS", "FAILED"}]]
    <3>1. \E fetched \in [Sources -> {"SUCCESS", "FAILED"}] : snaps' = [snaps EXCEPT ![r] = fetched]
      BY DEF Fetch
    <3> QED  BY <3>1 DEF Typed, TypeOK
  <2>2. status' \in [Runs -> Statuses]
    <3>1. status' = status \/ status' = [status EXCEPT ![r] = "FAILED"]
      BY DEF Fetch
    <3> QED  BY <3>1 DEF Typed, TypeOK, Statuses
  <2>3. phase' \in [Runs -> Phases]
    <3>1. \E p \in {"done", "persist", "extract"} : phase' = [phase EXCEPT ![r] = p]
      BY DEF Fetch
    <3> QED  BY <3>1 DEF Typed, TypeOK, Phases
  <2> QED  BY <1>1, <2>1, <2>2, <2>3 DEF Typed, TypeOK, Fetch, rows
<1>3. (OpenPage /\ Compared /\ PlanShape)'
  BY <1>1, BaselineTyped, OwnerTyped, HistoryAssumption DEF Typed, TypeOK, OpenPage, Compared, PlanShape, Fetch, rows
<1> QED  BY <1>2, <1>3 DEF Typed

LEMMA SkipPageTyped ==
  ASSUME Typed, NEW r \in Runs, SkipPage(r)
  PROVE  Typed'
<1>1. Observation' = Observation /\ Change' = Change
  BY SameFacts DEF SkipPage, rows
<1>2. TypeOK'
  <2>1. errors' \in [Runs -> BOOLEAN]
    BY <1>1 DEF Typed, TypeOK, SkipPage
  <2>2. cursor' \in [Runs -> Nat]
    BY <1>1 DEF Typed, TypeOK, SkipPage
  <2> QED  BY <1>1, <2>1, <2>2 DEF Typed, TypeOK, SkipPage, rows
<1>3. (OpenPage /\ Compared /\ PlanShape)'
  BY <1>1, BaselineTyped, OwnerTyped, HistoryAssumption DEF Typed, TypeOK, OpenPage, Compared, PlanShape, SkipPage, rows
<1> QED  BY <1>2, <1>3 DEF Typed

LEMMA ProviderErrorTyped ==
  ASSUME Typed, NEW r \in Runs, ProviderError(r)
  PROVE  Typed'
<1>1. Observation' = Observation /\ Change' = Change
  BY SameFacts DEF ProviderError, rows
<1>2. TypeOK'
  <2>1. page' \in [Runs -> [Sources -> PageStatuses]]
    BY <1>1 DEF Typed, TypeOK, ProviderError, PageStatuses
  <2>2. errors' \in [Runs -> BOOLEAN]
    BY <1>1 DEF Typed, TypeOK, ProviderError
  <2>3. cursor' \in [Runs -> Nat]
    BY <1>1 DEF Typed, TypeOK, ProviderError
  <2> QED  BY <1>1, <2>1, <2>2, <2>3 DEF Typed, TypeOK, ProviderError, rows
<1>3. (OpenPage /\ Compared /\ PlanShape)'
  BY <1>1, BaselineTyped, OwnerTyped, HistoryAssumption DEF Typed, TypeOK, OpenPage, Compared, PlanShape, ProviderError, rows
<1> QED  BY <1>2, <1>3 DEF Typed

LEMMA RespondTyped ==
  ASSUME Typed, NEW r \in Runs, Respond(r)
  PROVE  Typed'
<1>1. Observation' = Observation /\ Change' = Change
  BY SameFacts DEF Respond, rows
<1>2. TypeOK'
  <2>1. answer' \in [Runs -> [Sources -> Answers]]
    BY <1>1 DEF Typed, TypeOK, Respond, Answers
  <2>2. work' \in [Runs -> [todo : SUBSET Keys, owner : Runs \cup {0}, reused : BOOLEAN, bad : BOOLEAN]]
    BY <1>1, OwnerTyped DEF Typed, TypeOK, Respond, Idle
  <2>3. conflict' \in [Runs -> SUBSET (Keys \cup {None})]
    <3>1. PICK c \in SUBSET PageKeys[cursor[r]] : conflict' = [conflict EXCEPT ![r] = @ \cup c]
      BY DEF Respond
    <3>2. c \subseteq Keys
      BY PageKeysTyped DEF Respond
    <3> QED  BY <3>1, <3>2 DEF Typed, TypeOK
  <2>4. errors' \in [Runs -> BOOLEAN]
    BY <1>1 DEF Typed, TypeOK, Respond
  <2>5. phase' \in [Runs -> Phases]
    BY <1>1 DEF Typed, TypeOK, Respond, Phases
  <2> QED  BY <1>1, <2>1, <2>2, <2>3, <2>4, <2>5 DEF Typed, TypeOK, Respond, rows
<1>3. (OpenPage /\ Compared /\ PlanShape)'
  BY <1>1, BaselineTyped, OwnerTyped, HistoryAssumption DEF Typed, TypeOK, OpenPage, Compared, PlanShape, Respond, rows
<1> QED  BY <1>2, <1>3 DEF Typed

LEMMA ClosePageTyped ==
  ASSUME Typed, NEW r \in Runs, ClosePage(r)
  PROVE  Typed'
<1>1. Observation' = Observation /\ Change' = Change
  BY SameFacts DEF ClosePage, rows
<1>2. TypeOK'
  <2>1. page' \in [Runs -> [Sources -> PageStatuses]]
    BY <1>1 DEF Typed, TypeOK, ClosePage, PageStatuses
  <2>2. work' \in [Runs -> [todo : SUBSET Keys, owner : Runs \cup {0}, reused : BOOLEAN, bad : BOOLEAN]]
    BY <1>1, OwnerTyped DEF Typed, TypeOK, ClosePage, Idle
  <2>3. cursor' \in [Runs -> Nat]
    BY <1>1 DEF Typed, TypeOK, ClosePage
  <2>4. phase' \in [Runs -> Phases]
    BY <1>1 DEF Typed, TypeOK, ClosePage, Phases
  <2> QED  BY <1>1, <2>1, <2>2, <2>3, <2>4 DEF Typed, TypeOK, ClosePage, rows
<1>3. (OpenPage /\ Compared /\ PlanShape)'
  BY <1>1, BaselineTyped, OwnerTyped, HistoryAssumption DEF Typed, TypeOK, OpenPage, Compared, PlanShape, ClosePage, rows
<1> QED  BY <1>2, <1>3 DEF Typed

LEMMA FinishExtractionTyped ==
  ASSUME Typed, NEW r \in Runs, FinishExtraction(r)
  PROVE  Typed'
<1>1. Observation' = Observation /\ Change' = Change
  BY SameFacts DEF FinishExtraction, rows
<1>2. TypeOK'
  <2>1. phase' \in [Runs -> Phases]
    <3>1. \E p \in {"partial", "persist", "done"} : phase' = [phase EXCEPT ![r] = p]
      BY Zenon DEF FinishExtraction
    <3> QED  BY <3>1 DEF Typed, TypeOK, Phases
  <2>2. status' \in [Runs -> Statuses]
    BY <1>1 DEF Typed, TypeOK, FinishExtraction, Statuses
  <2> QED  BY <1>1, <2>1, <2>2 DEF Typed, TypeOK, FinishExtraction, rows
<1>3. (OpenPage /\ Compared /\ PlanShape)'
  BY <1>1, BaselineTyped, OwnerTyped, HistoryAssumption DEF Typed, TypeOK, OpenPage, Compared, PlanShape, FinishExtraction, rows
<1> QED  BY <1>2, <1>3 DEF Typed

LEMMA FinishStandaloneTyped ==
  ASSUME Typed, NEW r \in Runs, FinishStandalone(r)
  PROVE  Typed'
<1>1. Observation' = Observation /\ Change' = Change
  BY SameFacts DEF FinishStandalone, rows
<1>2. TypeOK'
  <2>1. current' \subseteq DOMAIN facts'
    BY <1>1 DEF Typed, TypeOK, FinishStandalone, Observation, ObsOf
  <2>2. obs' \subseteq Observation'
    <3>1. PICK A \in SUBSET obs : obs' = (obs \ A) \cup {[o EXCEPT !.status = "BASELINE"] : o \in A}
      BY DEF FinishStandalone, ObsOf
    <3> QED  BY <1>1, <3>1, AcceptedTyped
  <2>3. status' \in [Runs -> Statuses]
    BY <1>1 DEF Typed, TypeOK, FinishStandalone, Statuses
  <2>4. phase' \in [Runs -> Phases]
    BY <1>1 DEF Typed, TypeOK, FinishStandalone, Phases
  <2> QED  BY <1>1, <2>1, <2>2, <2>3, <2>4 DEF Typed, TypeOK, FinishStandalone, rows
<1>3. (OpenPage /\ Compared /\ PlanShape)'
  BY <1>1, BaselineTyped, OwnerTyped, HistoryAssumption DEF Typed, TypeOK, OpenPage, Compared, PlanShape, FinishStandalone, rows
<1> QED  BY <1>2, <1>3 DEF Typed

LEMMA PublishPartialTyped ==
  ASSUME Typed, NEW r \in Runs, PublishPartial(r)
  PROVE  Typed'
<1>1. Observation' = Observation /\ Change' = Change
  BY SameFacts DEF PublishPartial, rows
<1>2. TypeOK'
  <2>1. reports' \subseteq [run : Runs, type : FormalReports \cup {"PARTIAL_EVIDENCE"}]
    BY <1>1 DEF Typed, TypeOK, PublishPartial, FormalReports
  <2>2. marker' \in [Runs -> {"none", "eligible", "ineligible"}]
    BY <1>1 DEF Typed, TypeOK, PublishPartial
  <2>3. status' \in [Runs -> Statuses]
    BY <1>1 DEF Typed, TypeOK, PublishPartial, Statuses
  <2>4. phase' \in [Runs -> Phases]
    BY <1>1 DEF Typed, TypeOK, PublishPartial, Phases
  <2> QED  BY <1>1, <2>1, <2>2, <2>3, <2>4 DEF Typed, TypeOK, PublishPartial, rows
<1>3. (OpenPage /\ Compared /\ PlanShape)'
  BY <1>1, BaselineTyped, OwnerTyped, HistoryAssumption DEF Typed, TypeOK, OpenPage, Compared, PlanShape, PublishPartial, rows
<1> QED  BY <1>2, <1>3 DEF Typed

LEMMA EstablishTyped ==
  ASSUME Typed, NEW r \in Runs, Establish(r)
  PROVE  Typed'
<1>1. Observation' = Observation /\ Change' = Change
  BY SameFacts DEF Establish, rows
<1>2. TypeOK'
  <2>1. current' \subseteq DOMAIN facts'
    BY <1>1 DEF Typed, TypeOK, Establish, Observation, ObsOf
  <2>2. obs' \subseteq Observation'
    <3>1. obs' = obs \/ obs' = (obs \ ObsOf(r)) \cup {[o EXCEPT !.status = "BASELINE"] : o \in ObsOf(r)}
      BY DEF Establish
    <3>2. ObsOf(r) \in SUBSET obs
      BY DEF ObsOf
    <3> QED  BY <1>1, <3>1, <3>2, AcceptedTyped DEF Typed, TypeOK
  <2>3. phase' \in [Runs -> Phases]
    BY <1>1 DEF Typed, TypeOK, Establish, Phases
  <2> QED  BY <1>1, <2>1, <2>2, <2>3 DEF Typed, TypeOK, Establish, rows
<1>3. (OpenPage /\ Compared /\ PlanShape)'
  BY <1>1, BaselineTyped, OwnerTyped, HistoryAssumption DEF Typed, TypeOK, OpenPage, Compared, PlanShape, Establish, rows
<1> QED  BY <1>2, <1>3 DEF Typed

LEMMA EnterHistoryTyped ==
  ASSUME Typed, NEW r \in Runs, EnterHistory(r)
  PROVE  Typed'
<1>1. Observation' = Observation /\ Change' = Change
  BY SameFacts DEF EnterHistory, rows
<1>2. TypeOK'
  BY <1>1, BaselineTyped, OwnerTyped, HistoryAssumption DEF Typed, TypeOK, EnterHistory, rows, Runs, Phases, Statuses
<1>3. (OpenPage /\ Compared /\ PlanShape)'
  BY <1>1, BaselineTyped, OwnerTyped, HistoryAssumption DEF Typed, TypeOK, OpenPage, Compared, PlanShape, EnterHistory, rows
<1> QED  BY <1>2, <1>3 DEF Typed

LEMMA LookupHistoryTyped ==
  ASSUME Typed, NEW r \in Runs, LookupHistory(r)
  PROVE  Typed'
<1>1. Observation' = Observation /\ Change' = Change
  BY SameFacts DEF LookupHistory, rows
<1>2. TypeOK'
  BY <1>1, BaselineTyped, OwnerTyped, HistoryAssumption DEF Typed, TypeOK, LookupHistory, rows, Runs, Phases, Statuses
<1>3. (OpenPage /\ Compared /\ PlanShape)'
  BY <1>1, BaselineTyped, OwnerTyped, HistoryAssumption DEF Typed, TypeOK, OpenPage, Compared, PlanShape, LookupHistory, rows
<1> QED  BY <1>2, <1>3 DEF Typed

LEMMA GenerateReportTyped ==
  ASSUME Typed, NEW r \in Runs, GenerateReport(r)
  PROVE  Typed'
<1>1. Observation' = Observation /\ Change' = Change
  BY SameFacts DEF GenerateReport, rows
<1>2. TypeOK'
  <2>1. reports' \subseteq [run : Runs, type : FormalReports \cup {"PARTIAL_EVIDENCE"}]
    BY <1>1 DEF Typed, TypeOK, GenerateReport, FormalReports
  <2>2. phase' \in [Runs -> Phases]
    BY <1>1 DEF Typed, TypeOK, GenerateReport, Phases
  <2> QED  BY <1>1, <2>1, <2>2 DEF Typed, TypeOK, GenerateReport, rows
<1>3. (OpenPage /\ Compared /\ PlanShape)'
  BY <1>1, BaselineTyped, OwnerTyped, HistoryAssumption DEF Typed, TypeOK, OpenPage, Compared, PlanShape, GenerateReport, rows
<1> QED  BY <1>2, <1>3 DEF Typed

LEMMA FinalizeTyped ==
  ASSUME Typed, NEW r \in Runs, Finalize(r)
  PROVE  Typed'
<1>1. Observation' = Observation /\ Change' = Change
  BY SameFacts DEF Finalize, rows
<1>2. TypeOK'
  BY <1>1, BaselineTyped, OwnerTyped, HistoryAssumption DEF Typed, TypeOK, Finalize, rows, Runs, Phases, Statuses
<1>3. (OpenPage /\ Compared /\ PlanShape)'
  BY <1>1, BaselineTyped, OwnerTyped, HistoryAssumption DEF Typed, TypeOK, OpenPage, Compared, PlanShape, Finalize, rows
<1> QED  BY <1>2, <1>3 DEF Typed

LEMMA CompleteTyped ==
  ASSUME Typed, NEW r \in Runs, Complete(r)
  PROVE  Typed'
<1>1. Observation' = Observation /\ Change' = Change
  BY SameFacts DEF Complete, rows
<1>2. TypeOK'
  BY <1>1, BaselineTyped, OwnerTyped, HistoryAssumption DEF Typed, TypeOK, Complete, rows, Runs, Phases, Statuses
<1>3. (OpenPage /\ Compared /\ PlanShape)'
  BY <1>1, BaselineTyped, OwnerTyped, HistoryAssumption DEF Typed, TypeOK, OpenPage, Compared, PlanShape, Complete, rows
<1> QED  BY <1>2, <1>3 DEF Typed

LEMMA FailTyped ==
  ASSUME Typed, NEW r \in Runs, Fail(r)
  PROVE  Typed'
<1>1. Observation' = Observation /\ Change' = Change
  BY SameFacts DEF Fail, rows
<1>2. TypeOK'
  BY <1>1, BaselineTyped, OwnerTyped, HistoryAssumption DEF Typed, TypeOK, Fail, rows, Runs, Phases, Statuses
<1>3. (OpenPage /\ Compared /\ PlanShape)'
  BY <1>1, BaselineTyped, OwnerTyped, HistoryAssumption DEF Typed, TypeOK, OpenPage, Compared, PlanShape, Fail, rows
<1> QED  BY <1>2, <1>3 DEF Typed

LEMMA CrashTyped ==
  ASSUME Typed, NEW r \in Runs, Crash(r)
  PROVE  Typed'
<1>1. Observation' = Observation /\ Change' = Change
  BY SameFacts DEF Crash, rows
<1>2. TypeOK'
  BY <1>1, BaselineTyped, OwnerTyped, HistoryAssumption DEF Typed, TypeOK, Crash, rows, Runs, Phases, Statuses
<1>3. (OpenPage /\ Compared /\ PlanShape)'
  BY <1>1, BaselineTyped, OwnerTyped, HistoryAssumption DEF Typed, TypeOK, OpenPage, Compared, PlanShape, Crash, rows
<1> QED  BY <1>2, <1>3 DEF Typed

\* Observing a candidate adds at most one version and one observation; the rows
\* that refer to versions still do.
LEMMA ObserveTyped ==
  ASSUME Typed, NEW r \in Runs, Observe(r)
  PROVE  Typed'
<1> DEFINE Fact == [key : Keys, value : Values, snap : Runs, source : Sources]
<1>1. PICK k \in work[r].todo : SeenBefore(r, k) \/ StoredForSnapshot(r, k) \/ StoreOrReuse(r, k)
  BY DEF Observe
<1>2. /\ k \in Keys /\ cursor[r] \in Sources /\ work[r].owner \in Runs
      /\ answer[r][cursor[r]][k] \in Values
  BY DEF Typed, TypeOK, OpenPage, Observe
<1>3. facts \in Seq(Fact) /\ Len(facts) \in Nat /\ DOMAIN facts = 1 .. Len(facts)
  BY DEF Typed, TypeOK
<1>4. facts' \in Seq(Fact) /\ DOMAIN facts \subseteq DOMAIN facts'
  <2>1. CASE facts' = facts
    BY <1>3, <2>1
  <2>2. CASE facts' # facts
    <3>1. facts' = Append(facts, [key |-> k, value |-> answer[r][cursor[r]][k],
                                  snap |-> work[r].owner, source |-> cursor[r]])
      BY <1>1, <2>2 DEF SeenBefore, StoredForSnapshot, StoreOrReuse
    <3> QED  BY <1>2, <1>3, <3>1
  <2> QED  BY <2>1, <2>2
<1>5. Observation \subseteq Observation' /\ Change \subseteq Change'
  BY <1>4 DEF Observation, Change
<1>6. obs' \subseteq Observation'
  <2>0. obs \subseteq Observation' /\ "PENDING" \in ObsStatuses
    BY <1>5 DEF Typed, TypeOK, ObsStatuses
  <2>1. CASE SeenBefore(r, k)
    BY <2>0, <2>1 DEF SeenBefore
  <2>2. CASE StoredForSnapshot(r, k)
    <3> DEFINE S == FactOfSnapshot(work[r].owner, cursor[r], k)
    <3>1. S # {} /\ S \subseteq 1 .. Len(facts)
      BY <1>3, <2>2 DEF StoredForSnapshot, FactOfSnapshot
    <3>2. Latest(S) \in DOMAIN facts'
      BY <1>3, <1>4, <3>1, LatestIn
    <3>3. [run |-> r, fact |-> Latest(S), source |-> cursor[r], snap |-> work[r].owner,
           status |-> "PENDING"] \in Observation'
      BY <1>2, <2>0, <3>2 DEF Observation
    <3> QED  BY <2>0, <2>2, <3>3 DEF StoredForSnapshot
  <2>3. CASE StoreOrReuse(r, k)
    <3>1. CurrentOf(k) \in {0} \cup DOMAIN facts
      BY <1>2, CurrentTyped
    <3>2. PICK id \in DOMAIN facts' :
            obs' = obs \cup {[run |-> r, fact |-> id, source |-> cursor[r],
                              snap |-> work[r].owner, status |-> "PENDING"]}
      BY <1>3, <1>4, <2>3, <3>1 DEF StoreOrReuse
    <3> QED  BY <1>2, <2>0, <3>2 DEF Observation
  <2> QED  BY <1>1, <2>1, <2>2, <2>3
<1> DEFINE Works == [todo : SUBSET Keys, owner : Runs \cup {0}, reused : BOOLEAN, bad : BOOLEAN]
<1>7. /\ errors' \in [Runs -> BOOLEAN] /\ conflict' \in [Runs -> SUBSET (Keys \cup {None})]
      /\ work' \in [Runs -> Works]
      /\ work'[r].owner = work[r].owner /\ work'[r].todo \subseteq work[r].todo
      /\ \A q \in Runs \ {r} : work'[q] = work[q]
  <2>9. work \in [Runs -> Works]
    BY DEF Typed, TypeOK
  <2>0. work[r] \in Works /\ conflict[r] \in SUBSET (Keys \cup {None})
    BY DEF Typed, TypeOK
  <2>1. PICK w \in Works : /\ work' = [work EXCEPT ![r] = w]
                           /\ w.owner = work[r].owner /\ w.todo \subseteq work[r].todo
    <3>1. CASE SeenBefore(r, k)
      <4> DEFINE P == \/ /\ kind[r].provider = "llm"
                         /\ \E o \in ObsOf(r) : KeyOf(o) = k /\ ValueOf(o) # answer[r][cursor[r]][k]
                      \/ /\ kind[r].provider = "fixture"
                         /\ FactOfSnapshot(work[r].owner, cursor[r], k) # {}
      <4>1. P \in BOOLEAN /\ work' = [work EXCEPT ![r].todo = @ \ {k}, ![r].bad = @ \/ P]
        BY <3>1 DEF SeenBefore
      <4> HIDE DEF P
      <4> DEFINE B == work[r].bad \/ P
      <4>2. B \in BOOLEAN /\ work' = [work EXCEPT ![r].todo = @ \ {k}, ![r].bad = B]
        BY <4>1
      <4> HIDE DEF B
      <4> DEFINE w == [work[r] EXCEPT !.todo = @ \ {k}, !.bad = B]
      <4>3. w \in Works /\ w.owner = work[r].owner /\ w.todo \subseteq work[r].todo
        BY <2>0, <4>2
      <4>4. work' = [work EXCEPT ![r] = w]
        BY <4>2
      <4> QED  BY <4>3, <4>4
    <3>2. CASE StoredForSnapshot(r, k)
      <4> DEFINE P == ~ (/\ kind[r].provider = "llm"
                         /\ \A f \in FactOfSnapshot(work[r].owner, cursor[r], k) :
                              facts[f].value = answer[r][cursor[r]][k])
      <4>1. P \in BOOLEAN /\ work' = [work EXCEPT ![r].todo = @ \ {k}, ![r].bad = @ \/ P]
        BY <3>2 DEF StoredForSnapshot
      <4> HIDE DEF P
      <4> DEFINE B == work[r].bad \/ P
      <4>2. B \in BOOLEAN /\ work' = [work EXCEPT ![r].todo = @ \ {k}, ![r].bad = B]
        BY <4>1
      <4> HIDE DEF B
      <4> DEFINE w == [work[r] EXCEPT !.todo = @ \ {k}, !.bad = B]
      <4>3. w \in Works /\ w.owner = work[r].owner /\ w.todo \subseteq work[r].todo
        BY <2>0, <4>2
      <4>4. work' = [work EXCEPT ![r] = w]
        BY <4>2
      <4> QED  BY <4>3, <4>4
    <3>3. CASE StoreOrReuse(r, k)
      <4>1. work' = [work EXCEPT ![r].todo = @ \ {k}]
        BY <3>3 DEF StoreOrReuse
      <4> DEFINE w == [work[r] EXCEPT !.todo = @ \ {k}]
      <4>2. w \in Works /\ w.todo \subseteq work[r].todo /\ w.owner = work[r].owner
        BY <2>0
      <4>3. work' = [work EXCEPT ![r] = w]
        BY <4>1
      <4> QED  BY <4>2, <4>3
    <3> QED  BY <1>1, <3>1, <3>2, <3>3
  <2>2. PICK e \in BOOLEAN : errors' = [errors EXCEPT ![r] = e]
    BY <1>1 DEF Typed, TypeOK, SeenBefore, StoredForSnapshot, StoreOrReuse
  <2>3. PICK c \in SUBSET (Keys \cup {None}) : conflict' = [conflict EXCEPT ![r] = c]
    <3>1. \E c \in {conflict[r], conflict[r] \cup {k}, conflict[r] \cup {None}} :
            conflict' = [conflict EXCEPT ![r] = c]
      <4>0. conflict = [conflict EXCEPT ![r] = conflict[r]]
        BY DEF Typed, TypeOK
      <4>1. CASE SeenBefore(r, k)
        BY <4>1 DEF SeenBefore
      <4>2. CASE StoredForSnapshot(r, k)
        BY <4>2 DEF StoredForSnapshot
      <4>3. CASE StoreOrReuse(r, k)
        BY <4>0, <4>3 DEF StoreOrReuse
      <4> QED  BY <1>1, <4>1, <4>2, <4>3
    <3> QED  BY <1>2, <2>0, <3>1
  <2>4. errors' \in [Runs -> BOOLEAN] /\ conflict' \in [Runs -> SUBSET (Keys \cup {None})]
    BY <2>2, <2>3 DEF Typed, TypeOK
  <2> HIDE DEF Works
  <2> QED  BY <2>9, <2>1, <2>4
<1>8. current' \subseteq DOMAIN facts' /\ changes' \subseteq Change' /\ plan' \in [Runs -> SUBSET Change']
  BY <1>4, <1>5 DEF Typed, TypeOK, Observe
<1>9. TypeOK'
  BY <1>4, <1>6, <1>7, <1>8 DEF Typed, TypeOK, Observe
<1>10. (OpenPage /\ Compared /\ PlanShape)'
  BY <1>7 DEF Typed, OpenPage, Compared, PlanShape, Observe
<1> QED  BY <1>9, <1>10 DEF Typed

LEMMA ObsKeysTyped == ASSUME Typed, NEW r \in Runs PROVE ObsKeys(r) \subseteq Keys
<1>1. \A o \in obs : o.fact \in DOMAIN facts
  BY DEF Typed, TypeOK, Observation
<1>2. facts \in Seq([key : Keys, value : Values, snap : Runs, source : Sources])
  BY DEF Typed, TypeOK
<1>3. \A f \in DOMAIN facts : facts[f] \in [key : Keys, value : Values, snap : Runs, source : Sources]
  BY <1>2, ElementOfSeq, LenProperties
<1>4. \A f \in DOMAIN facts : facts[f].key \in Keys
  BY <1>3
<1> QED  BY <1>1, <1>4 DEF ObsKeys, ObsOf, KeyOf

\* What FactComparisonService.compare says of one identity is a change, and has a
\* new version unless the identity is gone.
LEMMA ChangeTyped ==
  ASSUME Typed, NEW r \in Runs, NEW q \in Runs, NEW k \in ObsKeys(r) \cup ObsKeys(q)
  PROVE  LET c == ChangeOf(r, q, k) IN
         /\ c \in Change /\ c.run = r /\ c.key = k
         /\ c.type \in {"ADDED", "MODIFIED", "UNCHANGED"} => c.new # 0
         /\ c.type \in {"REMOVED", "UNCOMPARABLE"} => c.new = 0
<1>1. k \in Keys
  BY ObsKeysTyped
<1>2. /\ FactIn(r, k) \in {0} \cup DOMAIN facts /\ FactIn(q, k) \in {0} \cup DOMAIN facts
      /\ FactIn(r, k) # 0 \/ FactIn(q, k) # 0
  BY <1>1, FactInTyped
<1> QED  BY <1>1, <1>2 DEF ChangeOf, Change, ChangeTypes

LEMMA CompareTyped ==
  ASSUME Typed, NEW r \in Runs, Compare(r)
  PROVE  Typed'
<1>1. Observation' = Observation /\ Change' = Change
  BY SameFacts DEF Compare, rows
<1>2. prev[r] \in Runs
  BY DEF Typed, Compared, Compare
<1> DEFINE P == {ChangeOf(r, prev[r], k) : k \in ObsKeys(r) \cup ObsKeys(prev[r])}
<1>3. /\ P \subseteq Change
      /\ \A c \in P : /\ c.run = r
                      /\ c.type \in {"ADDED", "MODIFIED", "UNCHANGED"} => c.new # 0
                      /\ c.type \in {"REMOVED", "UNCOMPARABLE"} => c.new = 0
  BY <1>2, ChangeTyped
<1>4. plan' = [plan EXCEPT ![r] = P]
  BY DEF Compare
<1> HIDE DEF P
<1>5. TypeOK'
  BY <1>1, <1>3, <1>4 DEF Typed, TypeOK, Compare, rows, Phases
<1>6. PlanShape'
  BY <1>3, <1>4 DEF Typed, TypeOK, PlanShape
<1>7. OpenPage' /\ Compared'
  BY DEF Typed, TypeOK, OpenPage, Compared, Compare, rows
<1> QED  BY <1>5, <1>6, <1>7 DEF Typed

\* A change with a new version is one of the three an observation can be judged by.
LEMMA JudgeTyped ==
  ASSUME Typed, NEW r \in Runs, NEW o \in obs
  PROVE  Judge(o, plan[r]) \in Observation
<1> DEFINE C == {c \in plan[r] : c.new = o.fact}
<1>1. o \in Observation /\ o.fact # 0
  BY DEF Typed, TypeOK, Observation
<1>2. CASE C = {}
  BY <1>1, <1>2 DEF Judge
<1>3. CASE C # {}
  <2> DEFINE c == CHOOSE c \in C : TRUE
  <2>1. c \in plan[r] /\ c.new = o.fact
    BY <1>3
  <2>2. c.type \in ChangeTypes
    BY <2>1 DEF Typed, TypeOK, Change
  <2>3. c.type \in ObsStatuses
    BY <1>1, <2>1, <2>2 DEF Typed, PlanShape, ChangeTypes, ObsStatuses, Accepted
  <2>4. Judge(o, plan[r]) = [o EXCEPT !.status = c.type]
    BY <1>3 DEF Judge
  <2> QED  BY <1>1, <2>3, <2>4, JudgedTyped
<1> QED  BY <1>2, <1>3

\* Judging keeps run and fact, and accepts an observation with a change of its own
\* or one accepted before.
LEMMA JudgeAccepts ==
  ASSUME Typed, NEW r \in Runs, NEW o \in obs
  PROVE  LET p == Judge(o, plan[r]) IN
         /\ p.run = o.run /\ p.fact = o.fact
         /\ o.status \in Accepted \/ (\E c \in plan[r] : c.new = o.fact) => p.status \in Accepted
<1> DEFINE C == {c \in plan[r] : c.new = o.fact}
<1>1. o \in Observation /\ o.fact # 0
  BY DEF Typed, TypeOK, Observation
<1>2. CASE C = {}
  BY <1>1, <1>2 DEF Judge
<1>3. CASE C # {}
  <2> DEFINE c == CHOOSE c \in C : TRUE
  <2>1. c \in plan[r] /\ c.new = o.fact
    BY <1>3
  <2>2. c.type \in ChangeTypes
    BY <2>1 DEF Typed, TypeOK, Change
  <2>3. c.type \in Accepted
    BY <1>1, <2>1, <2>2 DEF Typed, PlanShape, ChangeTypes, Accepted
  <2>4. Judge(o, plan[r]) = [o EXCEPT !.status = c.type]
    BY <1>3 DEF Judge
  <2> QED  BY <1>1, <2>3, <2>4 DEF Observation
<1> QED  BY <1>2, <1>3

LEMMA PersistChangesTyped ==
  ASSUME Typed, NEW r \in Runs, PersistChanges(r)
  PROVE  Typed'
<1>1. Observation' = Observation /\ Change' = Change
  BY SameFacts DEF PersistChanges
<1>2. obs' \subseteq Observation
  BY JudgeTyped DEF Typed, TypeOK, PersistChanges, ObsOf
<1>3. current' \subseteq DOMAIN facts
  BY DEF Typed, TypeOK, PlanShape, PersistChanges, Activated, Change
<1>4. TypeOK'
  BY <1>1, <1>2, <1>3 DEF Typed, TypeOK, PersistChanges, Phases
<1>5. (OpenPage /\ Compared /\ PlanShape)'
  BY DEF Typed, TypeOK, OpenPage, Compared, PlanShape, PersistChanges
<1> QED  BY <1>4, <1>5 DEF Typed

LEMMA TypedStep == ASSUME Typed, [Next]_vars PROVE Typed'
<1>1. CASE UNCHANGED vars
  <2>1. Observation' = Observation /\ Change' = Change
    BY <1>1, SameFacts DEF vars, rows
  <2> QED  BY <1>1, <2>1 DEF vars, rows, context, Typed, TypeOK, OpenPage, Compared, PlanShape
<1>2. ASSUME NEW r \in Runs, Extraction(r) PROVE Typed'
  BY <1>2, SkipPageTyped, ProviderErrorTyped, RespondTyped, ObserveTyped, ClosePageTyped DEF Extraction
<1> QED  BY <1>1, <1>2, CreateTyped, SelectModeTyped, FetchTyped, FinishExtractionTyped,
            FinishStandaloneTyped, PublishPartialTyped, EstablishTyped, EnterHistoryTyped,
            LookupHistoryTyped, CompareTyped, PersistChangesTyped, GenerateReportTyped,
            FinalizeTyped, CompleteTyped, FailTyped, CrashTyped DEF Next, Step

\* Every row and every field of a run's context keeps its range, and rows refer to
\* rows that exist, for any number of overlapping runs.
THEOREM TypeCorrect == Spec => [](TypeOK /\ OpenPage /\ Compared /\ PlanShape)
<1>1. Init => Typed
  BY InitTyped
<1>2. Typed /\ [Next]_vars => Typed'
  BY TypedStep
<1>3. Typed => TypeOK /\ OpenPage /\ Compared /\ PlanShape
  BY DEF Typed
<1> QED  BY <1>1, <1>2, <1>3, PTL DEF Spec

LEMMA TypesHold == Spec => []Typed
<1>1. Typed <=> TypeOK /\ OpenPage /\ Compared /\ PlanShape
  BY DEF Typed
<1> QED  BY <1>1, TypeCorrect, PTL
-----------------------------------------------------------------------------
(* A run writes its own rows only *)

ChangesOf(r) == {c \in changes : c.run = r}
ReportsOf(r) == {x \in reports : x.run = r}
Kept(r) ==
  /\ phase'[r] = phase[r] /\ status'[r] = status[r] /\ marker'[r] = marker[r] /\ plan'[r] = plan[r]
  /\ ObsOf(r)' = ObsOf(r) /\ ChangesOf(r)' = ChangesOf(r) /\ ReportsOf(r)' = ReportsOf(r)

\* No transaction of a run alters what another run stored, judged or published.
LEMMA Framed ==
  ASSUME Typed, NEW q \in Runs, Step(q), NEW r \in Runs, r # q
  PROVE  Kept(r)
<1> USE DEF Kept, ObsOf, ChangesOf, ReportsOf
<1>1. CASE Create(q)
  BY <1>1 DEF Typed, TypeOK, Observation, Create, rows
<1>2. CASE SelectMode(q)
  BY <1>2 DEF Typed, TypeOK, Observation, SelectMode, rows
<1>3. CASE Fetch(q)
  BY <1>3 DEF Typed, TypeOK, Observation, Fetch, rows
<1>4. CASE SkipPage(q)
  BY <1>4 DEF Typed, TypeOK, Observation, SkipPage, rows
<1>5. CASE ProviderError(q)
  BY <1>5 DEF Typed, TypeOK, Observation, ProviderError, rows
<1>6. CASE Respond(q)
  BY <1>6 DEF Typed, TypeOK, Observation, Respond, rows
<1>7. CASE Observe(q)
  <2>1. PICK k \in work[q].todo : SeenBefore(q, k) \/ StoredForSnapshot(q, k) \/ StoreOrReuse(q, k)
    BY <1>7 DEF Observe
  <2>2. obs' = obs \/ \E o : obs' = obs \cup {o} /\ o.run = q
    <3>1. CASE SeenBefore(q, k)
      BY <3>1 DEF SeenBefore
    <3>2. CASE StoredForSnapshot(q, k)
      BY <3>2 DEF StoredForSnapshot
    <3>3. CASE StoreOrReuse(q, k)
      BY <3>3 DEF StoreOrReuse
    <3> QED  BY <2>1, <3>1, <3>2, <3>3
  <2> QED  BY <1>7, <2>2 DEF Observe
<1>8. CASE ClosePage(q)
  BY <1>8 DEF Typed, TypeOK, Observation, ClosePage, rows
<1>9. CASE FinishExtraction(q)
  BY <1>9 DEF Typed, TypeOK, Observation, FinishExtraction, rows
<1>10. CASE FinishStandalone(q)
  BY <1>10 DEF Typed, TypeOK, Observation, FinishStandalone, rows
<1>11. CASE PublishPartial(q)
  BY <1>11 DEF Typed, TypeOK, Observation, PublishPartial, rows
<1>12. CASE Establish(q)
  BY <1>12 DEF Typed, TypeOK, Observation, Establish, rows
<1>13. CASE EnterHistory(q)
  BY <1>13 DEF Typed, TypeOK, Observation, EnterHistory, rows
<1>14. CASE LookupHistory(q)
  BY <1>14 DEF Typed, TypeOK, Observation, LookupHistory, rows
<1>15. CASE Compare(q)
  BY <1>15 DEF Typed, TypeOK, Observation, Compare, rows
<1>16. CASE PersistChanges(q)
  <2>1. \A o \in obs : o.run = q => Judge(o, plan[q]).run = q
    BY DEF Typed, TypeOK, Observation, Judge
  <2>2. \A c \in plan[q] : c.run = q
    BY DEF Typed, PlanShape
  <2> QED  BY <1>16, <2>1, <2>2 DEF Typed, TypeOK, PersistChanges
<1>17. CASE GenerateReport(q)
  BY <1>17 DEF Typed, TypeOK, Observation, GenerateReport, rows
<1>18. CASE Finalize(q)
  BY <1>18 DEF Typed, TypeOK, Observation, Finalize, rows
<1>19. CASE Complete(q)
  BY <1>19 DEF Typed, TypeOK, Observation, Complete, rows
<1>20. CASE Fail(q)
  BY <1>20 DEF Typed, TypeOK, Observation, Fail, rows
<1>21. CASE Crash(q)
  BY <1>21 DEF Typed, TypeOK, Observation, Crash, rows
<1> QED  BY <1>1, <1>2, <1>3, <1>4, <1>5, <1>6, <1>7, <1>8, <1>9, <1>10, <1>11, <1>12, <1>13, <1>14, <1>15, <1>16, <1>17, <1>18, <1>19, <1>20, <1>21 DEF Step, Extraction

\* A run that is over has no transaction left.
LEMMA OverIsOver == ASSUME NEW q \in Runs, Step(q) PROVE phase[q] # "done"
BY DEF Step, Extraction, Active, Create, SelectMode, Fetch, SkipPage, ProviderError, Respond, Observe, ClosePage, FinishExtraction, FinishStandalone, PublishPartial, Establish, EnterHistory, LookupHistory, Compare, PersistChanges, GenerateReport, Finalize, Complete, Fail, Crash

\* Once a run is over nothing another run does alters its observations, changes,
\* reports, status or provenance marker, whatever their interleaving.
THEOREM FinishedRunsFrozen == Spec => TerminalRunsFrozen
<1> DEFINE Frozen == \A r \in Runs : Over(r) =>
      /\ Over(r)' /\ status'[r] = status[r] /\ marker'[r] = marker[r]
      /\ {o \in obs' : o.run = r} = ObsOf(r)
      /\ {c \in changes' : c.run = r} = {c \in changes : c.run = r}
      /\ {x \in reports' : x.run = r} = {x \in reports : x.run = r}
<1>1. ASSUME Typed, [Next]_vars PROVE [Frozen]_vars
  <2>1. ASSUME NEW q \in Runs, Step(q), NEW r \in Runs, Over(r)
        PROVE  r # q /\ Kept(r)
    BY <1>1, <2>1, Framed, OverIsOver DEF Over
  <2>2. CASE Next
    BY <2>1, <2>2 DEF Next, Kept, Over, ObsOf, ChangesOf, ReportsOf
  <2> QED  BY <1>1, <2>2
<1> QED  BY <1>1, TypesHold, PTL DEF Spec, TerminalRunsFrozen
-----------------------------------------------------------------------------
(* Partial runs stay pending *)

\* A run that is under way is RUNNING; until it activates anything it has nothing
\* but PENDING observations.
Early    == {"absent", "profile", "fetch", "extract", "page", "partial"}
Quiet(r) ==
  /\ phase[r] = "absent" => status[r] = "absent"
  /\ phase[r] \notin {"absent", "done"} => status[r] = "RUNNING"
  /\ phase[r] \in Early => /\ \A o \in ObsOf(r) : o.status = "PENDING"
                           /\ ChangesOf(r) = {} /\ ReportsOf(r) = {} /\ marker[r] = "none"
  /\ status[r] = "PARTIAL_SUCCESS" =>
       /\ \A o \in ObsOf(r) : o.status = "PENDING"
       /\ ChangesOf(r) = {} /\ marker[r] # "eligible"
       /\ ReportsOf(r) = {[run |-> r, type |-> "PARTIAL_EVIDENCE"]}
PendingRuns == \A r \in Runs : Quiet(r)

\* Observing adds observations that are PENDING and the run's own.
LEMMA ObservedPending ==
  ASSUME Typed, NEW q \in Runs, Observe(q)
  PROVE  \A o \in obs' : o \in obs \/ (o.run = q /\ o.status = "PENDING")
<1>1. PICK k \in work[q].todo : SeenBefore(q, k) \/ StoredForSnapshot(q, k) \/ StoreOrReuse(q, k)
  BY DEF Observe
<1>2. CASE SeenBefore(q, k)
  BY <1>2 DEF SeenBefore
<1>3. CASE StoredForSnapshot(q, k)
  BY <1>3 DEF StoredForSnapshot
<1>4. CASE StoreOrReuse(q, k)
  BY <1>4 DEF StoreOrReuse
<1> QED  BY <1>1, <1>2, <1>3, <1>4

LEMMA QuietStep ==
  ASSUME Typed, NEW q \in Runs, Quiet(q), Step(q)
  PROVE  Quiet(q)'
<1> USE DEF Quiet, Early, ObsOf, ChangesOf, ReportsOf
<1>1. CASE Create(q)
  BY <1>1 DEF Typed, TypeOK, Create, rows
<1>2. CASE SelectMode(q)
  BY <1>2 DEF Typed, TypeOK, SelectMode, rows
<1>3. CASE Fetch(q)
  BY <1>3 DEF Typed, TypeOK, Fetch, rows
<1>4. CASE SkipPage(q)
  BY <1>4 DEF Typed, TypeOK, SkipPage, rows
<1>5. CASE ProviderError(q)
  BY <1>5 DEF Typed, TypeOK, ProviderError, rows
<1>6. CASE Respond(q)
  BY <1>6 DEF Typed, TypeOK, Respond, rows
<1>7. CASE Observe(q)
  BY <1>7, ObservedPending DEF Typed, TypeOK, Observe, rows
<1>8. CASE ClosePage(q)
  BY <1>8 DEF Typed, TypeOK, ClosePage, rows
<1>9. CASE FinishExtraction(q)
  BY <1>9 DEF Typed, TypeOK, FinishExtraction, rows
<1>10. CASE FinishStandalone(q)
  BY <1>10 DEF Typed, TypeOK, FinishStandalone, rows
<1>11. CASE PublishPartial(q)
  BY <1>11 DEF Typed, TypeOK, PublishPartial, rows
<1>12. CASE Establish(q)
  BY <1>12 DEF Typed, TypeOK, Establish, rows
<1>13. CASE EnterHistory(q)
  BY <1>13 DEF Typed, TypeOK, EnterHistory, rows
<1>14. CASE LookupHistory(q)
  BY <1>14 DEF Typed, TypeOK, LookupHistory, rows
<1>15. CASE Compare(q)
  BY <1>15 DEF Typed, TypeOK, Compare, rows
<1>16. CASE PersistChanges(q)
  BY <1>16 DEF Typed, TypeOK, PersistChanges, rows
<1>17. CASE GenerateReport(q)
  BY <1>17 DEF Typed, TypeOK, GenerateReport, rows
<1>18. CASE Finalize(q)
  BY <1>18 DEF Typed, TypeOK, Finalize, rows
<1>19. CASE Complete(q)
  BY <1>19 DEF Typed, TypeOK, Complete, rows
<1>20. CASE Fail(q)
  BY <1>20 DEF Typed, TypeOK, Fail, rows
<1>21. CASE Crash(q)
  BY <1>21 DEF Typed, TypeOK, Crash, Active, rows
<1> QED  BY <1>1, <1>2, <1>3, <1>4, <1>5, <1>6, <1>7, <1>8, <1>9, <1>10, <1>11, <1>12, <1>13, <1>14, <1>15, <1>16, <1>17, <1>18, <1>19, <1>20, <1>21 DEF Step, Extraction

LEMMA PendingStep == ASSUME Typed, PendingRuns, [Next]_vars PROVE PendingRuns'
<1>1. CASE UNCHANGED vars
  BY <1>1 DEF vars, rows, context, PendingRuns, Quiet, ObsOf, ChangesOf, ReportsOf
<1>2. ASSUME NEW q \in Runs, Step(q), NEW r \in Runs PROVE Quiet(r)'
  <2>1. CASE r = q
    BY <1>2, <2>1, QuietStep DEF PendingRuns
  <2>2. CASE r # q
    <3>1. Kept(r)
      BY <1>2, <2>2, Framed
    <3>2. Quiet(r)
      BY DEF PendingRuns
    <3> QED  BY <3>1, <3>2 DEF Kept, Quiet
  <2> QED  BY <2>1, <2>2
<1> QED  BY <1>1, <1>2 DEF Next, PendingRuns

LEMMA PendingHolds == Spec => []PendingRuns
<1>1. Init => PendingRuns
  BY DEF Init, PendingRuns, Quiet, Early, ObsOf, ChangesOf, ReportsOf
<1> QED  BY <1>1, PendingStep, TypesHold, PTL DEF Spec

\* A partial run publishes its evidence and nothing else, whatever other runs do.
THEOREM PartialIsInert == Spec => []PartialRunsStayPending
<1>1. PendingRuns => PartialRunsStayPending
  BY DEF PendingRuns, Quiet, PartialRunsStayPending, ChangesOf, ReportsOf
<1> QED  BY <1>1, PendingHolds, PTL
-----------------------------------------------------------------------------
(* Active facts are accepted *)

\* What is about to be activated was observed by the run that activates it.
PlanObserved == \A r \in Runs : phase[r] = "write" =>
  \A c \in plan[r] : c.new # 0 => \E o \in ObsOf(r) : o.fact = c.new

LEMMA FactInObserved ==
  ASSUME Typed, NEW r \in Runs, NEW k \in Keys, FactIn(r, k) # 0
  PROVE  \E o \in ObsOf(r) : o.fact = FactIn(r, k)
<1> DEFINE S == {o.fact : o \in {x \in ObsOf(r) : KeyOf(x) = k}}
<1>1. Len(facts) \in Nat /\ DOMAIN facts = 1 .. Len(facts)
  BY DEF Typed, TypeOK
<1>2. \A o \in obs : o.fact \in DOMAIN facts
  BY DEF Typed, TypeOK, Observation
<1>3. S \subseteq 1 .. Len(facts)
  BY <1>1, <1>2 DEF ObsOf
<1>4. FactIn(r, k) \in S
  BY <1>1, <1>3, LatestIn DEF FactIn
<1> QED  BY <1>4

LEMMA PlanObservedStep == ASSUME Typed, PlanObserved, [Next]_vars PROVE PlanObserved'
<1>1. CASE UNCHANGED vars
  BY <1>1 DEF vars, rows, context, PlanObserved, ObsOf
<1>2. ASSUME NEW q \in Runs, Step(q), NEW r \in Runs, phase'[r] = "write",
             NEW c \in plan'[r], c.new # 0
      PROVE  \E o \in ObsOf(r)' : o.fact = c.new
  <2>1. CASE r # q
    BY <1>2, <2>1, Framed DEF Kept, PlanObserved
  <2>2. CASE r = q
    <3>1. Compare(q)
      BY <1>2, <2>2 DEF Typed, TypeOK, Step, Extraction, Create, SelectMode, Fetch, SkipPage,
         ProviderError, Respond, Observe, ClosePage, FinishExtraction, FinishStandalone,
         PublishPartial, Establish, EnterHistory, LookupHistory, PersistChanges,
         GenerateReport, Finalize, Complete, Fail, Crash, rows
    <3>2. plan'[q] = {ChangeOf(q, prev[q], k) : k \in ObsKeys(q) \cup ObsKeys(prev[q])}
      BY <3>1 DEF Compare, Typed, TypeOK
    <3>3. PICK k \in ObsKeys(q) \cup ObsKeys(prev[q]) : c = ChangeOf(q, prev[q], k)
      BY <1>2, <2>2, <3>2
    <3>4. k \in Keys /\ prev[q] \in Runs
      BY <3>1, ObsKeysTyped DEF Typed, Compared, Compare
    <3>5. c.new = FactIn(q, k)
      BY <3>3 DEF ChangeOf
    <3>6. ObsOf(q)' = ObsOf(q)
      BY <3>1 DEF Compare, rows, ObsOf
    <3> QED  BY <1>2, <2>2, <3>4, <3>5, <3>6, FactInObserved
  <2> QED  BY <2>1, <2>2
<1> QED  BY <1>1, <1>2 DEF Next, PlanObserved

\* Accepting is never undone: no step makes an accepted observation pending, and a
\* run with one does not become partial.
Supports(o, f) == o.fact = f /\ o.status \in Accepted /\ status[o.run] # "PARTIAL_SUCCESS"

\* A baseline and a standalone extraction accept what they activate.
LEMMA BaselineAccepts ==
  ASSUME Typed, NEW q \in Runs, Establish(q) \/ FinishStandalone(q)
  PROVE  \E A \in SUBSET ObsOf(q) :
           /\ obs' = (obs \ A) \cup {[o EXCEPT !.status = "BASELINE"] : o \in A}
           /\ current' \subseteq current \cup {o.fact : o \in A}
<1>1. CASE FinishStandalone(q)
  BY <1>1 DEF FinishStandalone
<1>2. CASE Establish(q)
  <2>1. CASE obs' = obs /\ current' = current
    <3>1. {} \in SUBSET ObsOf(q) /\ {[o EXCEPT !.status = "BASELINE"] : o \in {}} = {}
      OBVIOUS
    <3> WITNESS {} \in SUBSET ObsOf(q)
    <3> QED  BY <2>1, <3>1
  <2>2. CASE ~ (obs' = obs /\ current' = current)
    BY <1>2, <2>2 DEF Establish
  <2> QED  BY <2>1, <2>2
<1> QED  BY <1>1, <1>2

LEMMA AcceptedStays ==
  ASSUME Typed, PendingRuns, NEW q \in Runs, Step(q), NEW o \in obs, NEW f, Supports(o, f)
  PROVE  \E p \in obs' : Supports(p, f)'
<1>0. o.run \in Runs /\ o \in ObsOf(o.run)
  BY DEF Typed, TypeOK, Observation, ObsOf
<1>1. CASE o.run # q
  BY <1>0, <1>1, Framed DEF Kept, Supports, ObsOf
<1>2. CASE o.run = q
  <2>1. ~ PublishPartial(q)
    BY <1>0, <1>2 DEF PendingRuns, Quiet, Early, Supports, PublishPartial, Accepted
  <2>2. status'[q] # "PARTIAL_SUCCESS"
    BY <1>2, <2>1 DEF Supports, Typed, TypeOK, Step, Extraction, Create, SelectMode, Fetch, SkipPage,
       ProviderError, Respond, Observe, ClosePage, FinishExtraction, FinishStandalone,
       Establish, EnterHistory, LookupHistory, Compare, PersistChanges,
       GenerateReport, Finalize, Complete, Fail, Crash, rows
  <2>3. \E p \in obs' : p.run = q /\ p.fact = f /\ p.status \in Accepted
    <3>1. CASE Observe(q)
      <4>1. o \in obs'
        BY <3>1 DEF Observe, SeenBefore, StoredForSnapshot, StoreOrReuse
      <4> QED  BY <1>2, <4>1 DEF Supports
    <3>2. CASE Establish(q) \/ FinishStandalone(q)
      <4>1. PICK A \in SUBSET ObsOf(q) : obs' = (obs \ A) \cup {[p EXCEPT !.status = "BASELINE"] : p \in A}
        BY <3>2, BaselineAccepts
      <4>2. CASE o \in A
        <5> DEFINE p == [o EXCEPT !.status = "BASELINE"]
        <5>1. p \in obs'
          BY <4>1, <4>2
        <5>2. p.run = q /\ p.fact = f /\ p.status \in Accepted
          BY <1>2 DEF Supports, Accepted, Typed, TypeOK, Observation
        <5> QED  BY <5>1, <5>2
      <4>3. CASE o \notin A
        BY <1>2, <4>1, <4>3 DEF Supports
      <4> QED  BY <4>2, <4>3
    <3>3. CASE PersistChanges(q)
      <4>1. Judge(o, plan[q]) \in obs'
        BY <1>0, <1>2, <3>3 DEF PersistChanges
      <4>2. LET p == Judge(o, plan[q]) IN p.run = q /\ p.fact = f /\ p.status \in Accepted
        BY <1>2, JudgeAccepts DEF Supports
      <4> QED  BY <4>1, <4>2
    <3>4. CASE ~ (Observe(q) \/ Establish(q) \/ FinishStandalone(q) \/ PersistChanges(q))
      <4>1. obs' = obs
        BY <2>1, <3>4 DEF Step, Extraction, Create, SelectMode, Fetch, SkipPage,
           ProviderError, Respond, ClosePage, FinishExtraction, EnterHistory, LookupHistory,
           Compare, GenerateReport, Finalize, Complete, Fail, Crash, rows
      <4> QED  BY <1>2, <4>1 DEF Supports
    <3> QED  BY <3>1, <3>2, <3>3, <3>4
  <2> QED  BY <2>2, <2>3 DEF Supports
<1> QED  BY <1>1, <1>2

LEMMA ActiveStep ==
  ASSUME Typed, PendingRuns, PlanObserved, ActiveFactsAreAccepted, [Next]_vars
  PROVE  ActiveFactsAreAccepted'
<1>1. CASE UNCHANGED vars
  BY <1>1 DEF vars, rows, context, ActiveFactsAreAccepted
<1>2. ASSUME NEW q \in Runs, Step(q), NEW f \in current'
      PROVE  \E o \in obs' : Supports(o, f)'
  <2>1. CASE f \in current
    <3>1. PICK o \in obs : Supports(o, f)
      BY <2>1 DEF ActiveFactsAreAccepted, Supports
    <3> QED  BY <1>2, <3>1, AcceptedStays
  <2>2. CASE f \notin current
    <3>1. Establish(q) \/ FinishStandalone(q) \/ PersistChanges(q)
      BY <1>2, <2>2 DEF Step, Extraction, Create, SelectMode, Fetch, SkipPage,
         ProviderError, Respond, Observe, ClosePage, FinishExtraction, PublishPartial,
         EnterHistory, LookupHistory, Compare, GenerateReport, Finalize, Complete, Fail, Crash, rows
    <3>2. status'[q] # "PARTIAL_SUCCESS"
      BY <3>1 DEF PendingRuns, Quiet, Establish, FinishStandalone, PersistChanges, Typed, TypeOK
    <3>3. CASE Establish(q) \/ FinishStandalone(q)
      <4>1. PICK o \in ObsOf(q) : o.fact = f /\ [o EXCEPT !.status = "BASELINE"] \in obs'
        BY <1>2, <2>2, <3>3, BaselineAccepts
      <4>2. o \in Observation /\ o.run = q
        BY DEF Typed, TypeOK, ObsOf
      <4> QED  BY <3>2, <4>1, <4>2 DEF Supports, Accepted, Observation
    <3>4. CASE PersistChanges(q)
      <4>1. PICK c \in plan[q] : c.new = f /\ c.type \in {"ADDED", "MODIFIED", "UNCHANGED"}
        BY <1>2, <2>2, <3>4 DEF PersistChanges, Activated
      <4>2. PICK o \in ObsOf(q) : o.fact = f
        BY <3>4, <4>1 DEF PersistChanges, PlanObserved, Typed, PlanShape
      <4>3. LET p == Judge(o, plan[q]) IN p.run = q /\ p.fact = f /\ p.status \in Accepted
        BY <4>1, <4>2, JudgeAccepts DEF ObsOf
      <4>4. Judge(o, plan[q]) \in obs'
        BY <3>4 DEF PersistChanges
      <4> QED  BY <3>2, <4>3, <4>4 DEF Supports
    <3> QED  BY <3>1, <3>3, <3>4
  <2> QED  BY <2>1, <2>2
<1> QED  BY <1>1, <1>2 DEF Next, ActiveFactsAreAccepted, Supports

\* A version is current only by an accepted observation of a run that is not
\* partial, for any interleaving of any number of runs.
THEOREM ActiveIsAccepted == Spec => []ActiveFactsAreAccepted
<1>1. Init => PlanObserved /\ ActiveFactsAreAccepted
  BY DEF Init, PlanObserved, ActiveFactsAreAccepted
<1> QED  BY <1>1, PlanObservedStep, ActiveStep, TypesHold, PendingHolds, PTL DEF Spec
-----------------------------------------------------------------------------
(* The run compared with was complete *)

\* A skipped extraction observes nothing, a standalone one never gets to a
\* provenance marker, and the marker is only set on what finalize_run_summary saw.
Whole(r) == /\ kind[r].job = "full"
            /\ \A s \in Sources : snaps[r][s] = "SUCCESS" /\ page[r][s] = "SUCCEEDED"
            /\ \A o \in ObsOf(r) : o.status \in Accepted
Routed(r) ==
  /\ phase[r] # "absent" => kind[r].job \in Jobs
  /\ phase[r] = "absent" \/ kind[r].job = "skip" => ObsOf(r) = {}
  /\ kind[r].job = "skip" => phase[r] \notin {"extract", "page", "partial"}
  /\ kind[r].job = "smoke" => phase[r] \in {"extract", "page", "done", "dead"}
  /\ marker[r] = "eligible" => phase[r] \in {"finish", "done", "dead"} /\ Whole(r)
Provenance == \A r \in Runs : Routed(r)

\* An answer becomes the candidates of the open page.
Candidates(q, vals, todo) ==
  /\ todo = {k \in Keys : vals[k] # None}
  /\ answer' = [answer EXCEPT ![q][cursor[q]] = vals]
  /\ \E owner, reused, bad : work' = [work EXCEPT ![q] =
        [todo |-> todo, owner |-> owner, reused |-> reused, bad |-> bad]]

LEMMA AnswerTaken ==
  ASSUME NEW q \in Runs, Respond(q)
  PROVE  \E vals, todo : Candidates(q, vals, todo)
<1>1. PICK vals : \E owner, reused, bad :
         /\ answer' = [answer EXCEPT ![q][cursor[q]] = vals]
         /\ work' = [work EXCEPT ![q] = [todo |-> {k \in Keys : vals[k] # None},
                       owner |-> owner, reused |-> reused, bad |-> bad]]
  <2>1. PICK vals \in {v \in [Keys -> Values \cup {None}] : \A k \in Keys \ PageKeys[cursor[q]] : v[k] = None},
             bad \in BOOLEAN, reused \in BOOLEAN, clash \in SUBSET PageKeys[cursor[q]] :
          /\ clash # {} => kind[q].provider = "llm" /\ bad
          /\ \A k \in clash : vals[k] = None
          /\ reused => /\ kind[q].provider = "llm" /\ ~bad
                       /\ \E p \in CachedPages(q, cursor[q]) : answer[p][cursor[q]] = vals
          /\ answer' = [answer EXCEPT ![q][cursor[q]] = vals]
          /\ work' = [work EXCEPT ![q] = [todo |-> {k \in Keys : vals[k] # None},
                        owner |-> SnapshotOwner(q, cursor[q]), reused |-> reused, bad |-> bad]]
          /\ conflict' = [conflict EXCEPT ![q] = @ \cup clash]
          /\ errors' = [errors EXCEPT ![q] = @ \/ (bad /\ kind[q].provider = "llm")]
    BY DEF Respond
  <2> QED  BY <2>1, Zenon
<1>2. Candidates(q, vals, {k \in Keys : vals[k] # None})
  BY <1>1, Zenon DEF Candidates
<1> QED  BY <1>2, Zenon

\* No transaction of a run alters the pages, snapshots, job or progress of another one.
ContextKept(r) ==
  /\ kind'[r] = kind[r] /\ mode'[r] = mode[r] /\ snaps'[r] = snaps[r] /\ page'[r] = page[r]
  /\ cursor'[r] = cursor[r] /\ answer'[r] = answer[r] /\ work'[r] = work[r] /\ prev'[r] = prev[r]

LEMMA ContextFramed ==
  ASSUME Typed, NEW q \in Runs, Step(q), NEW r \in Runs, r # q
  PROVE  ContextKept(r)
<1> USE DEF ContextKept
<1>1. CASE Create(q)
  BY <1>1 DEF Typed, TypeOK, Create, rows
<1>2. CASE SelectMode(q)
  BY <1>2 DEF Typed, TypeOK, SelectMode, rows
<1>3. CASE Fetch(q)
  BY <1>3 DEF Typed, TypeOK, Fetch, rows
<1>4. CASE SkipPage(q)
  BY <1>4 DEF Typed, TypeOK, SkipPage, rows
<1>5. CASE ProviderError(q)
  BY <1>5 DEF Typed, TypeOK, ProviderError, rows
<1>6. CASE Respond(q)
  <2>1. PICK vals, todo : Candidates(q, vals, todo)
    BY <1>6, AnswerTaken
  <2> QED  BY <1>6, <2>1 DEF Candidates, Typed, TypeOK, Respond, rows
<1>7. CASE Observe(q)
  <2>1. PICK k \in work[q].todo : SeenBefore(q, k) \/ StoredForSnapshot(q, k) \/ StoreOrReuse(q, k)
    BY <1>7 DEF Observe
  <2>2. work'[r] = work[r]
    BY <2>1 DEF SeenBefore, StoredForSnapshot, StoreOrReuse, Typed, TypeOK
  <2> QED  BY <1>7, <2>2 DEF Typed, TypeOK, Observe
<1>8. CASE ClosePage(q)
  BY <1>8 DEF Typed, TypeOK, ClosePage, rows
<1>9. CASE FinishExtraction(q)
  BY <1>9 DEF Typed, TypeOK, FinishExtraction, rows
<1>10. CASE FinishStandalone(q)
  BY <1>10 DEF Typed, TypeOK, FinishStandalone, rows
<1>11. CASE PublishPartial(q)
  BY <1>11 DEF Typed, TypeOK, PublishPartial, rows
<1>12. CASE Establish(q)
  BY <1>12 DEF Typed, TypeOK, Establish, rows
<1>13. CASE EnterHistory(q)
  BY <1>13 DEF Typed, TypeOK, EnterHistory, rows
<1>14. CASE LookupHistory(q)
  BY <1>14 DEF Typed, TypeOK, LookupHistory, rows
<1>15. CASE Compare(q)
  BY <1>15 DEF Typed, TypeOK, Compare, rows
<1>16. CASE PersistChanges(q)
  BY <1>16 DEF Typed, TypeOK, PersistChanges, rows
<1>17. CASE GenerateReport(q)
  BY <1>17 DEF Typed, TypeOK, GenerateReport, rows
<1>18. CASE Finalize(q)
  BY <1>18 DEF Typed, TypeOK, Finalize, rows
<1>19. CASE Complete(q)
  BY <1>19 DEF Typed, TypeOK, Complete, rows
<1>20. CASE Fail(q)
  BY <1>20 DEF Typed, TypeOK, Fail, rows
<1>21. CASE Crash(q)
  BY <1>21 DEF Typed, TypeOK, Crash, rows
<1> QED  BY <1>1, <1>2, <1>3, <1>4, <1>5, <1>6, <1>7, <1>8, <1>9, <1>10, <1>11, <1>12, <1>13, <1>14, <1>15, <1>16, <1>17, <1>18, <1>19, <1>20, <1>21 DEF Step, Extraction

LEMMA RoutedStep ==
  ASSUME Typed, NEW q \in Runs, Quiet(q), Routed(q), Step(q)
  PROVE  Routed(q)'
<1> USE DEF Routed, Whole, ObsOf
<1>1. CASE Create(q)
  BY <1>1, HistoryAssumption DEF Typed, TypeOK, Create, rows, Quiet, Early, Jobs
<1>2. CASE SelectMode(q)
  BY <1>2 DEF Typed, TypeOK, SelectMode, rows
<1>3. CASE Fetch(q)
  BY <1>3 DEF Typed, TypeOK, Fetch, rows
<1>4. CASE SkipPage(q)
  BY <1>4 DEF Typed, TypeOK, SkipPage, rows
<1>5. CASE ProviderError(q)
  BY <1>5 DEF Typed, TypeOK, ProviderError, rows
<1>6. CASE Respond(q)
  BY <1>6 DEF Typed, TypeOK, Respond, rows
<1>7. CASE Observe(q)
  BY <1>7 DEF Typed, TypeOK, Observe, rows
<1>8. CASE ClosePage(q)
  BY <1>8 DEF Typed, TypeOK, ClosePage, rows
<1>9. CASE FinishExtraction(q)
  BY <1>9 DEF Typed, TypeOK, FinishExtraction, rows
<1>10. CASE FinishStandalone(q)
  BY <1>10 DEF Typed, TypeOK, FinishStandalone, rows
<1>11. CASE PublishPartial(q)
  BY <1>11 DEF Typed, TypeOK, PublishPartial, rows
<1>12. CASE Establish(q)
  BY <1>12 DEF Typed, TypeOK, Establish, rows
<1>13. CASE EnterHistory(q)
  BY <1>13 DEF Typed, TypeOK, EnterHistory, rows
<1>14. CASE LookupHistory(q)
  BY <1>14 DEF Typed, TypeOK, LookupHistory, rows
<1>15. CASE Compare(q)
  BY <1>15 DEF Typed, TypeOK, Compare, rows
<1>16. CASE PersistChanges(q)
  BY <1>16 DEF Typed, TypeOK, PersistChanges, rows
<1>17. CASE GenerateReport(q)
  BY <1>17 DEF Typed, TypeOK, GenerateReport, rows
<1>18. CASE Finalize(q)
  BY <1>18 DEF Typed, TypeOK, Finalize, rows, Eligible, Jobs
<1>19. CASE Complete(q)
  BY <1>19 DEF Typed, TypeOK, Complete, rows
<1>20. CASE Fail(q)
  BY <1>20 DEF Typed, TypeOK, Fail, rows, Active
<1>21. CASE Crash(q)
  BY <1>21 DEF Typed, TypeOK, Crash, rows, Active
<1> QED  BY <1>1, <1>2, <1>3, <1>4, <1>5, <1>6, <1>7, <1>8, <1>9, <1>10, <1>11, <1>12, <1>13, <1>14, <1>15, <1>16, <1>17, <1>18, <1>19, <1>20, <1>21 DEF Step, Extraction

LEMMA ProvenanceStep ==
  ASSUME Typed, PendingRuns, Provenance, [Next]_vars
  PROVE  Provenance'
<1>1. CASE UNCHANGED vars
  BY <1>1 DEF vars, rows, context, Provenance, Routed, Whole, ObsOf
<1>2. ASSUME NEW q \in Runs, Step(q), NEW r \in Runs PROVE Routed(r)'
  <2>1. CASE r = q
    BY <1>2, <2>1, RoutedStep DEF Provenance, PendingRuns
  <2>2. CASE r # q
    <3>1. Kept(r) /\ ContextKept(r)
      BY <1>2, <2>2, Framed, ContextFramed
    <3>2. Routed(r)
      BY DEF Provenance
    <3> QED  BY <3>1, <3>2 DEF Kept, ContextKept, Routed, Whole
  <2> QED  BY <2>1, <2>2
<1> QED  BY <1>1, <1>2 DEF Next, Provenance

\* The run looked up is over, so nothing alters it between the lookup and the
\* comparison.
Settled(r, q) == q \in Runs /\ q < r /\ phase[q] = "done" /\ status[q] = "COMPLETED" /\ marker[q] = "eligible"
Looked == \A r \in Runs : prev[r] # 0 => Settled(r, prev[r])

LEMMA LookedUp ==
  ASSUME Typed, PendingRuns, NEW r \in Runs, Baseline(r) # 0
  PROVE  Settled(r, Baseline(r))
<1>1. EligibleBaselines(r) \subseteq 1 .. MaxRuns
  BY DEF EligibleBaselines, Runs
<1>2. Baseline(r) \in EligibleBaselines(r)
  BY <1>1, LatestIn, HistoryAssumption DEF Baseline
<1> QED  BY <1>2 DEF EligibleBaselines, Settled, PendingRuns, Quiet

LEMMA LookedStep ==
  ASSUME Typed, PendingRuns, Looked, [Next]_vars
  PROVE  Looked'
<1>1. CASE UNCHANGED vars
  BY <1>1 DEF vars, rows, context, Looked, Settled
<1>2. ASSUME NEW q \in Runs, Step(q), NEW r \in Runs, prev'[r] # 0
      PROVE  Settled(r, prev[r])'
  <2>1. PICK b \in Runs \cup {0} : prev'[r] = b
    BY <1>2, TypedStep DEF Next, Typed, TypeOK
  <2>2. Settled(r, b)
    <3>1. CASE prev'[r] = prev[r]
      BY <1>2, <2>1, <3>1 DEF Looked
    <3>2. CASE prev'[r] # prev[r]
      <4>1. r = q /\ LookupHistory(q)
        BY <1>2, <3>2 DEF Typed, TypeOK, Step, Extraction, Create, SelectMode, Fetch, SkipPage,
           ProviderError, Respond, Observe, ClosePage, FinishExtraction, FinishStandalone,
           PublishPartial, Establish, EnterHistory, LookupHistory, Compare, PersistChanges,
           GenerateReport, Finalize, Complete, Fail, Crash, rows
      <4>2. prev'[r] = Baseline(r)
        BY <4>1 DEF LookupHistory, Typed, TypeOK
      <4> QED  BY <1>2, <2>1, <4>2, LookedUp
    <3> QED  BY <3>1, <3>2
  <2>3. b \in Runs /\ b # q
    BY <1>2, <2>2, OverIsOver DEF Settled
  <2>4. Kept(b)
    BY <1>2, <2>3, Framed
  <2> QED  BY <2>1, <2>2, <2>4 DEF Kept, Settled
<1> QED  BY <1>1, <1>2 DEF Next, Looked

\* A run is only ever compared with a complete one: fetched, extracted and
\* accepted in full, whatever the runs between them did.
THEOREM BaselineIsComplete == Spec => []ComparedBaselineIsComplete
<1>1. Init => Provenance /\ Looked
  BY DEF Init, Provenance, Looked, Routed, Whole, ObsOf, NoKind
<1>2. Provenance /\ Looked => ComparedBaselineIsComplete
  BY DEF Provenance, Looked, Settled, Routed, Whole, ComparedBaselineIsComplete
<1> QED  BY <1>1, <1>2, ProvenanceStep, LookedStep, TypesHold, PendingHolds, PTL DEF Spec
-----------------------------------------------------------------------------
(* Removals are proven *)

\* Stored versions are never altered, only followed by newer ones.
LEMMA FactsGrow ==
  ASSUME Typed, NEW q \in Runs, Step(q), NEW f \in DOMAIN facts
  PROVE  f \in DOMAIN facts' /\ facts'[f] = facts[f]
<1>1. facts' = facts \/ \E x : facts' = Append(facts, x)
  <2>1. CASE Observe(q)
    BY <2>1 DEF Observe, SeenBefore, StoredForSnapshot, StoreOrReuse
  <2>2. CASE ~ Observe(q)
    BY <2>2 DEF Step, Extraction, Create, SelectMode, Fetch, SkipPage, ProviderError,
       Respond, ClosePage, FinishExtraction, FinishStandalone, PublishPartial, Establish,
       EnterHistory, LookupHistory, Compare, PersistChanges, GenerateReport, Finalize,
       Complete, Fail, Crash, rows
  <2> QED  BY <2>1, <2>2
<1>2. facts \in Seq([key : Keys, value : Values, snap : Runs, source : Sources])
  BY DEF Typed, TypeOK
<1> QED  BY <1>1, <1>2

\* What an open page observes is the candidate, stored under the candidate's
\* identity, or the page is marked as bad.
LEMMA CandidateSettled ==
  ASSUME Typed, NEW q \in Runs, NEW k \in Keys, phase[q] = "page", k \in work[q].todo,
         SeenBefore(q, k) \/ StoredForSnapshot(q, k) \/ StoreOrReuse(q, k)
  PROVE  /\ obs' = obs \/ \E o : /\ obs' = obs \cup {o} /\ o.run = q /\ o.source = cursor[q]
                                 /\ k \notin ObsKeys(q)
                                 /\ o.fact \in DOMAIN facts' /\ facts'[o.fact].key = k
         /\ work'[q].todo = work[q].todo \ {k} /\ (work[q].bad => work'[q].bad)
         /\ k \in ObsKeys(q) \/ work'[q].bad \/ obs' # obs
<1>0. /\ cursor[q] \in Sources /\ work[q].owner \in Runs
      /\ Len(facts) \in Nat /\ DOMAIN facts = 1 .. Len(facts)
      /\ facts \in Seq([key : Keys, value : Values, snap : Runs, source : Sources])
      /\ work \in [Runs -> [todo : SUBSET Keys, owner : Runs \cup {0}, reused : BOOLEAN, bad : BOOLEAN]]
  BY DEF Typed, TypeOK, OpenPage
<1>1. CASE SeenBefore(q, k)
  BY <1>0, <1>1 DEF SeenBefore
<1>2. CASE StoredForSnapshot(q, k)
  <2> DEFINE S == FactOfSnapshot(work[q].owner, cursor[q], k)
             o == [run |-> q, fact |-> Latest(S), source |-> cursor[q],
                   snap |-> work[q].owner, status |-> "PENDING"]
  <2>1. Latest(S) \in S
    BY <1>0, <1>2, LatestIn DEF StoredForSnapshot, FactOfSnapshot
  <2>2. Latest(S) \in DOMAIN facts /\ facts[Latest(S)].key = k
    BY <2>1 DEF FactOfSnapshot
  <2>3. o \notin obs
    BY <1>2, <2>2 DEF StoredForSnapshot, ObsKeys, ObsOf, KeyOf
  <2>4. facts' = facts /\ k \notin ObsKeys(q)
    BY <1>2 DEF StoredForSnapshot
  <2>5. \/ obs' = obs \cup {o} /\ work'[q].bad = work[q].bad
        \/ obs' = obs /\ work'[q].bad
    BY <1>0, <1>2 DEF StoredForSnapshot
  <2>6. work'[q].todo = work[q].todo \ {k} /\ (work[q].bad => work'[q].bad)
    BY <1>0, <1>2 DEF StoredForSnapshot
  <2>7. o.run = q /\ o.source = cursor[q] /\ o.fact = Latest(S)
    OBVIOUS
  <2> HIDE DEF o, S
  <2> QED  BY <2>2, <2>3, <2>4, <2>5, <2>6, <2>7
<1>3. CASE StoreOrReuse(q, k)
  <2> DEFINE v == answer[q][cursor[q]][k]
             c == CurrentOf(k)
             reuse == c # 0 /\ facts[c].value = v /\ (kind[q].provider = "fixture" \/ work[q].reused)
             id == IF reuse THEN c ELSE Len(facts) + 1
             o == [run |-> q, fact |-> id, source |-> cursor[q],
                   snap |-> work[q].owner, status |-> "PENDING"]
  <2>1. obs' = obs \cup {o} /\ k \notin ObsKeys(q)
    BY <1>3 DEF StoreOrReuse
  <2>2. id \in DOMAIN facts' /\ facts'[id].key = k
    <3>1. CASE reuse
      <4> DEFINE S == {f \in current : facts[f].key = k}
      <4>1. S \subseteq 1 .. Len(facts) /\ S # {} /\ c = Latest(S)
        BY <1>0, <3>1 DEF CurrentOf, Typed, TypeOK
      <4>2. c \in S
        BY <1>0, <4>1, LatestIn
      <4>3. facts' = facts
        BY <1>3, <3>1 DEF StoreOrReuse
      <4> QED  BY <1>0, <3>1, <4>1, <4>2, <4>3
    <3>2. CASE ~ reuse
      <4>1. facts' = Append(facts, [key |-> k, value |-> v, snap |-> work[q].owner, source |-> cursor[q]])
        BY <1>3, <3>2 DEF StoreOrReuse
      <4>2. v \in Values
        BY DEF Typed, OpenPage
      <4> HIDE DEF v, reuse, c
      <4> QED  BY <1>0, <3>2, <4>1, <4>2
    <3> QED  BY <3>1, <3>2
  <2>3. work'[q].todo = work[q].todo \ {k} /\ (work[q].bad => work'[q].bad)
    BY <1>0, <1>3 DEF StoreOrReuse
  <2>4. o \notin obs \/ k \in ObsKeys(q)
    <3> SUFFICES ASSUME o \in obs PROVE k \in ObsKeys(q)
      OBVIOUS
    <3>1. id \in DOMAIN facts /\ o \in ObsOf(q) /\ o.fact = id
      BY DEF Typed, TypeOK, Observation, ObsOf
    <3>2. facts'[id] = facts[id]
      <4>1. facts' = facts \/ \E x : facts' = Append(facts, x)
        BY <1>3 DEF StoreOrReuse
      <4> HIDE DEF id
      <4> QED  BY <1>0, <3>1, <4>1
    <3> HIDE DEF id, o
    <3> QED  BY <2>2, <3>1, <3>2 DEF ObsKeys, KeyOf
  <2>5. o.run = q /\ o.source = cursor[q] /\ o.fact = id
    OBVIOUS
  <2> HIDE DEF o, id
  <2> QED  BY <2>1, <2>2, <2>3, <2>4, <2>5
<1> QED  BY <1>1, <1>2, <1>3

\* Until a run writes its changes: a page not reached has no answer, every
\* observation comes from a page that was answered, and a candidate is observed
\* unless its page is open or was marked as bad.
Before == Early \cup {"persist", "history", "compare", "write"}
Open(r, s) == phase[r] = "page" /\ s = cursor[r]
Answered(r) == phase[r] \in Before =>
  /\ ChangesOf(r) = {}
  /\ phase[r] \in {"absent", "profile", "fetch"} => \A s \in Sources : answer[r][s] = NoAnswer
  /\ phase[r] \in {"extract", "page"} =>
       \A s \in Sources : s >= cursor[r] /\ ~ Open(r, s) => answer[r][s] = NoAnswer
  /\ \A o \in ObsOf(r) : answer[r][o.source] # NoAnswer
  /\ \A s \in Sources : answer[r][s] # NoAnswer => Open(r, s) \/ page[r][s] # "none"
  /\ \A s \in Sources, k \in Keys : answer[r][s][k] # None =>
       \/ k \in ObsKeys(r)
       \/ Open(r, s) /\ (k \in work[r].todo \/ work[r].bad)
       \/ ~ Open(r, s) /\ page[r][s] \in {"PARTIAL_ERROR", "FAILED"}
  /\ phase[r] \in {"persist", "history", "compare", "write"} =>
       \A s \in Sources : answer[r][s] # NoAnswer => page[r][s] = "SUCCEEDED"
AllAnswered == \A r \in Runs : Answered(r)

LEMMA AnsweredStep ==
  ASSUME Typed, NEW q \in Runs, Quiet(q), Answered(q), Step(q)
  PROVE  Answered(q)'
<1> USE DEF Answered, Before, Early, Open, ObsOf, ObsKeys, KeyOf, ChangesOf
<1>0. \A s \in Sources : s \in Nat
  BY HistoryAssumption DEF Sources
<1>1. CASE Create(q)
  BY <1>0, <1>1 DEF Typed, TypeOK, Create, rows
<1>2. CASE SelectMode(q)
  BY <1>0, <1>2 DEF Typed, TypeOK, SelectMode, rows
<1>3. CASE Fetch(q)
  BY <1>0, <1>3 DEF Typed, TypeOK, Fetch, rows
<1>4. CASE SkipPage(q)
  BY <1>0, <1>4 DEF Typed, TypeOK, SkipPage, rows
<1>5. CASE ProviderError(q)
  <2>1. PICK st : page' = [page EXCEPT ![q][cursor[q]] = st]
    BY <1>5 DEF ProviderError
  <2>2. answer[q][cursor[q]] = NoAnswer
    BY <1>0, <1>5 DEF ProviderError, Typed, TypeOK
  <2>3. cursor'[q] = cursor[q] + 1 /\ phase'[q] = "extract" /\ phase[q] = "extract" /\ answer' = answer
        /\ obs' = obs /\ facts' = facts /\ changes' = changes
    BY <1>5 DEF ProviderError, Typed, TypeOK
  <2>4. \A s \in Sources : s # cursor[q] => page'[q][s] = page[q][s]
    BY <2>1 DEF Typed, TypeOK
  <2>5. \A k \in Keys : answer[q][cursor[q]][k] = None
    BY <2>2 DEF NoAnswer
  <2>6. ObsKeys(q)' = ObsKeys(q) /\ ObsOf(q)' = ObsOf(q) /\ ChangesOf(q)' = ChangesOf(q)
    BY <2>3
  <2>7. cursor[q] \in Sources /\ cursor[q] \in Nat
    BY <1>0, <1>5 DEF ProviderError
  <2> HIDE DEF ObsKeys, ObsOf, ChangesOf
  <2> QED  BY <1>0, <2>2, <2>3, <2>4, <2>5, <2>6, <2>7
<1>6. CASE Respond(q)
  <2> DEFINE s == cursor[q]
  <2>1. phase[q] = "extract" /\ s \in Sources /\ phase'[q] = "page" /\ cursor' = cursor /\ page' = page
        /\ obs' = obs /\ facts' = facts /\ changes' = changes
    BY <1>6 DEF Respond, rows, Typed, TypeOK
  <2>2. answer[q][s] = NoAnswer
    BY <1>0, <2>1
  <2>3. /\ \A t \in Sources : t # s => answer'[q][t] = answer[q][t]
        /\ \A k \in Keys : answer'[q][s][k] # None => k \in work'[q].todo
    <3>1. PICK vals, todo : Candidates(q, vals, todo)
      BY <1>6, AnswerTaken
    <3> QED  BY <2>1, <3>1 DEF Candidates, Typed, TypeOK
  <2>4. ObsKeys(q)' = ObsKeys(q) /\ ObsOf(q)' = ObsOf(q) /\ ChangesOf(q)' = ChangesOf(q)
    BY <2>1
  <2>5. s \in Nat
    BY <1>0, <2>1
  <2>6. \A o \in ObsOf(q) : o.source \in Sources /\ o.source # s
    BY <2>1, <2>2 DEF Typed, TypeOK, Observation
  <2> HIDE DEF ObsKeys, ObsOf, ChangesOf
  <2> QED  BY <1>0, <2>1, <2>2, <2>3, <2>4, <2>5, <2>6
<1>7. CASE Observe(q)
  <2>1. PICK k \in work[q].todo : SeenBefore(q, k) \/ StoredForSnapshot(q, k) \/ StoreOrReuse(q, k)
    BY <1>7 DEF Observe
  <2>2. phase[q] = "page" /\ phase' = phase /\ cursor' = cursor /\ answer' = answer /\ page' = page /\ changes' = changes
    BY <1>7 DEF Observe
  <2>3. k \in Keys /\ cursor[q] \in Sources /\ answer[q][cursor[q]][k] \in Values
    BY <2>2 DEF Typed, TypeOK, OpenPage
  <2>4. answer[q][cursor[q]] # NoAnswer
    BY <2>3, HistoryAssumption DEF NoAnswer
  <2>5. /\ obs' = obs \/ \E o : /\ obs' = obs \cup {o} /\ o.run = q /\ o.source = cursor[q]
                                /\ k \notin ObsKeys(q)
                                /\ o.fact \in DOMAIN facts' /\ facts'[o.fact].key = k
        /\ work'[q].todo = work[q].todo \ {k} /\ (work[q].bad => work'[q].bad)
        /\ k \in ObsKeys(q) \/ work'[q].bad \/ obs' # obs
    BY <2>1, <2>2, <2>3, CandidateSettled
  <2>6. \A o \in obs : facts'[o.fact] = facts[o.fact]
    BY FactsGrow DEF Typed, TypeOK, Observation
  <2>7. ObsKeys(q) \subseteq ObsKeys(q)' /\ (k \in ObsKeys(q)' \/ work'[q].bad)
    BY <2>5, <2>6
  <2>8. \A o \in ObsOf(q)' : answer'[q][o.source] # NoAnswer
    BY <2>2, <2>4, <2>5
  <2> HIDE DEF ObsKeys
  <2> QED  BY <2>2, <2>5, <2>7, <2>8
<1>8. CASE ClosePage(q)
  <2> DEFINE s == cursor[q]
  <2>1. /\ phase[q] = "page" /\ work[q].todo = {} /\ phase'[q] = "extract" /\ cursor'[q] = s + 1
        /\ answer' = answer /\ obs' = obs /\ facts' = facts /\ changes' = changes
    BY <1>8 DEF ClosePage, Typed, TypeOK
  <2>2. PICK st : /\ page' = [page EXCEPT ![q][s] = st]
                  /\ st \in {"PARTIAL_ERROR", "FAILED", "NO_FACTS", "SUCCEEDED"}
                  /\ work[q].bad => st \in {"PARTIAL_ERROR", "FAILED"}
    BY <1>8 DEF ClosePage
  <2>3. s \in Sources /\ s \in Nat
    BY <1>0, <2>1 DEF Typed, OpenPage
  <2>4. page'[q][s] = st /\ \A t \in Sources : t # s => page'[q][t] = page[q][t]
    BY <2>2, <2>3 DEF Typed, TypeOK
  <2>5. \A k \in Keys : answer[q][s][k] # None => k \in ObsKeys(q) \/ work[q].bad
                                                  \/ page[q][s] \in {"PARTIAL_ERROR", "FAILED"}
    BY <2>1, <2>3
  <2>6. ObsKeys(q)' = ObsKeys(q) /\ ObsOf(q)' = ObsOf(q)
    BY <2>1
  <2> HIDE DEF ObsKeys
  <2> QED  BY <1>0, <2>1, <2>2, <2>3, <2>4, <2>5, <2>6
<1>9. CASE FinishExtraction(q)
  <2>1. CASE phase'[q] = "persist"
    <3>1. \A s \in Sources : page[q][s] \in {"none", "SUCCEEDED"}
      BY <1>9, <2>1 DEF FinishExtraction, NeedsPartial, Typed, TypeOK
    <3> QED  BY <1>9, <2>1, <3>1 DEF Typed, TypeOK, FinishExtraction
  <2>2. CASE phase'[q] # "persist"
    BY <1>9, <2>2 DEF Typed, TypeOK, FinishExtraction
  <2> QED  BY <2>1, <2>2
<1>10. CASE FinishStandalone(q)
  BY <1>0, <1>10 DEF Typed, TypeOK, FinishStandalone, rows
<1>11. CASE PublishPartial(q)
  BY <1>0, <1>11 DEF Typed, TypeOK, PublishPartial, rows
<1>12. CASE Establish(q)
  BY <1>0, <1>12 DEF Typed, TypeOK, Establish, rows
<1>13. CASE EnterHistory(q)
  BY <1>0, <1>13 DEF Typed, TypeOK, EnterHistory, rows
<1>14. CASE LookupHistory(q)
  BY <1>0, <1>14 DEF Typed, TypeOK, LookupHistory, rows
<1>15. CASE Compare(q)
  BY <1>0, <1>15 DEF Typed, TypeOK, Compare, rows
<1>16. CASE PersistChanges(q)
  BY <1>0, <1>16 DEF Typed, TypeOK, PersistChanges, rows
<1>17. CASE GenerateReport(q)
  BY <1>0, <1>17 DEF Typed, TypeOK, GenerateReport, rows
<1>18. CASE Finalize(q)
  BY <1>0, <1>18 DEF Typed, TypeOK, Finalize, rows
<1>19. CASE Complete(q)
  BY <1>0, <1>19 DEF Typed, TypeOK, Complete, rows
<1>20. CASE Fail(q)
  BY <1>0, <1>20 DEF Typed, TypeOK, Fail, rows
<1>21. CASE Crash(q)
  BY <1>0, <1>21 DEF Typed, TypeOK, Crash, rows
<1> QED  BY <1>1, <1>2, <1>3, <1>4, <1>5, <1>6, <1>7, <1>8, <1>9, <1>10, <1>11, <1>12, <1>13, <1>14, <1>15, <1>16, <1>17, <1>18, <1>19, <1>20, <1>21 DEF Step, Extraction

LEMMA KeysKept ==
  ASSUME Typed, NEW q \in Runs, Step(q), NEW r \in Runs, ObsOf(r)' = ObsOf(r)
  PROVE  ObsKeys(r)' = ObsKeys(r)
<1>1. \A o \in ObsOf(r) : facts'[o.fact] = facts[o.fact]
  BY FactsGrow DEF Typed, TypeOK, Observation, ObsOf
<1> QED  BY <1>1 DEF ObsKeys, KeyOf

LEMMA AllAnsweredStep ==
  ASSUME Typed, PendingRuns, AllAnswered, [Next]_vars
  PROVE  AllAnswered'
<1>1. CASE UNCHANGED vars
  BY <1>1 DEF vars, rows, context, AllAnswered, Answered, ChangesOf, ObsOf, ObsKeys, KeyOf, Open
<1>2. ASSUME NEW q \in Runs, Step(q), NEW r \in Runs PROVE Answered(r)'
  <2>1. CASE r = q
    BY <1>2, <2>1, AnsweredStep DEF AllAnswered, PendingRuns
  <2>2. CASE r # q
    <3>1. Kept(r) /\ ContextKept(r)
      BY <1>2, <2>2, Framed, ContextFramed
    <3>2. ObsKeys(r)' = ObsKeys(r)
      BY <1>2, <3>1, KeysKept DEF Kept
    <3>3. Answered(r)
      BY DEF AllAnswered
    <3> QED  BY <3>1, <3>2, <3>3 DEF Kept, ContextKept, Answered, Open
  <2> QED  BY <2>1, <2>2
<1> QED  BY <1>1, <1>2 DEF Next, AllAnswered

\* What RemovalIsProven says of one change.
Proven(c) == c.type = "REMOVED" =>
  /\ \E o \in ObsOf(prev[c.run]) :
       /\ o.fact = c.old
       /\ snaps[c.run][o.source] = "SUCCESS"
       /\ page[c.run][o.source] = "SUCCEEDED"
       /\ answer[c.run][o.source] # NoAnswer
  /\ \A s \in Sources : answer[c.run][s][c.key] = None
PlansProven == \A r \in Runs : phase[r] = "write" => \A c \in plan[r] : Proven(c)

\* The evidence of a change outlives the comparison: the run extracts no more and
\* the run it was compared with is over.
LEMMA EvidenceStays ==
  ASSUME Typed, Looked, NEW q \in Runs, Step(q), NEW r \in Runs,
         phase[r] \notin Early \cup {"persist", "history"}
  PROVE  /\ snaps'[r] = snaps[r] /\ page'[r] = page[r] /\ answer'[r] = answer[r] /\ prev'[r] = prev[r]
         /\ ObsOf(prev[r])' = ObsOf(prev[r])
<1>1. snaps'[r] = snaps[r] /\ page'[r] = page[r] /\ answer'[r] = answer[r] /\ prev'[r] = prev[r]
  <2>1. CASE r # q
    BY <2>1, ContextFramed DEF ContextKept
  <2>2. CASE r = q
    BY <2>2 DEF Early, Step, Extraction, Create, SelectMode, Fetch, SkipPage, ProviderError,
       Respond, Observe, ClosePage, FinishExtraction, FinishStandalone, PublishPartial, Establish,
       EnterHistory, LookupHistory, Compare, PersistChanges, GenerateReport, Finalize,
       Complete, Fail, Crash, rows
  <2> QED  BY <2>1, <2>2
<1>2. ObsOf(prev[r])' = ObsOf(prev[r])
  <2>1. CASE prev[r] = 0
    <3>1. Next
      BY DEF Next
    <3>2. Typed'
      BY <3>1, TypedStep
    <3>3. \A o \in obs : o.run \in Runs
      BY DEF Typed, TypeOK, Observation
    <3>4. \A o \in obs' : o.run \in Runs
      BY <3>2 DEF Typed, TypeOK, Observation
    <3>5. 0 \notin Runs
      BY HistoryAssumption DEF Runs
    <3> QED  BY <1>1, <2>1, <3>3, <3>4, <3>5 DEF ObsOf
  <2>2. CASE prev[r] # 0
    <3>1. PICK b \in Runs : b = prev[r] /\ b # q
      BY <2>2, OverIsOver DEF Looked, Settled
    <3>2. ObsOf(b)' = ObsOf(b)
      BY <3>1, Framed DEF Kept
    <3> QED  BY <1>1, <3>1, <3>2 DEF ObsOf
  <2> QED  BY <2>1, <2>2
<1> QED  BY <1>1, <1>2

\* A removal is planned on evidence.
LEMMA PlannedOnEvidence ==
  ASSUME Typed, AllAnswered, NEW q \in Runs, Compare(q), NEW c \in plan'[q]
  PROVE  Proven(c)
<1>1. phase[q] = "compare" /\ prev[q] \in Runs
  BY DEF Compare, Typed, Compared
<1>2. PICK k \in ObsKeys(q) \cup ObsKeys(prev[q]) : c = ChangeOf(q, prev[q], k)
  BY DEF Compare, Typed, TypeOK
<1>3. k \in Keys
  BY <1>1, ObsKeysTyped
<1> SUFFICES ASSUME c.type = "REMOVED" PROVE Proven(c)
  BY DEF Proven
<1> DEFINE old == FactIn(prev[q], k)
           o == CHOOSE x \in ObsOf(prev[q]) : x.fact = old
<1>4. c.run = q /\ c.key = k /\ c.old = old
  BY <1>2 DEF ChangeOf
<1>5. old # 0 /\ FactIn(q, k) = 0 /\ Covered(q, o.source)
  BY <1>2 DEF ChangeOf
<1>6. o \in ObsOf(prev[q]) /\ o.fact = old
  BY <1>1, <1>3, <1>5, FactInObserved
<1>7. snaps[q][o.source] = "SUCCESS" /\ \E x \in ObsOf(q) : x.source = o.source
  BY <1>5 DEF Covered
<1>8. Answered(q) /\ o.source \in Sources
  BY <1>6 DEF AllAnswered, Typed, TypeOK, Observation, ObsOf
<1>9. answer[q][o.source] # NoAnswer /\ page[q][o.source] = "SUCCEEDED"
  BY <1>1, <1>7, <1>8 DEF Answered, Before
<1>10. \A s \in Sources : answer[q][s][k] = None
  <2> SUFFICES ASSUME NEW s \in Sources, answer[q][s][k] # None PROVE FALSE
    OBVIOUS
  <2>1. answer[q][s] # NoAnswer
    BY <1>3 DEF NoAnswer
  <2>2. page[q][s] = "SUCCEEDED"
    BY <1>1, <1>8, <2>1 DEF Answered, Before
  <2>3. k \notin ObsKeys(q)
    BY <1>3, <1>5, FactInTyped
  <2> QED  BY <1>1, <1>3, <1>8, <2>2, <2>3 DEF Answered, Before, Open
<1> HIDE DEF o, old
<1> QED  BY <1>4, <1>6, <1>7, <1>9, <1>10 DEF Proven

LEMMA RemovalStep ==
  ASSUME Typed, AllAnswered, Looked, PlansProven, RemovalIsProven, [Next]_vars
  PROVE  PlansProven' /\ RemovalIsProven'
<1>1. CASE UNCHANGED vars
  BY <1>1 DEF vars, rows, context, PlansProven, RemovalIsProven, Proven, ObsOf
<1>2. ASSUME NEW q \in Runs, Step(q) PROVE PlansProven' /\ RemovalIsProven'
  <2>1. ASSUME NEW c, c.run \in Runs, Proven(c), phase[c.run] \notin Early \cup {"persist", "history"}
        PROVE  Proven(c)'
    BY <1>2, <2>1, EvidenceStays DEF Proven
  <2>2. ASSUME NEW r \in Runs, phase'[r] = "write", NEW c \in plan'[r] PROVE Proven(c)'
    <3>1. CASE r # q
      <4>1. phase[r] = "write" /\ c \in plan[r]
        BY <1>2, <2>2, <3>1, Framed DEF Kept
      <4> QED  BY <2>1, <4>1 DEF PlansProven, Typed, PlanShape, Early
    <3>2. CASE r = q
      <4>1. Compare(q)
        BY <1>2, <2>2, <3>2 DEF Typed, TypeOK, Step, Extraction, Create, SelectMode, Fetch, SkipPage,
           ProviderError, Respond, Observe, ClosePage, FinishExtraction, FinishStandalone,
           PublishPartial, Establish, EnterHistory, LookupHistory, PersistChanges,
           GenerateReport, Finalize, Complete, Fail, Crash, rows
      <4>2. Proven(c) /\ phase[q] = "compare"
        BY <2>2, <3>2, <4>1, PlannedOnEvidence DEF Compare
      <4>3. c.run = q
        BY <2>2, <3>2, <4>1 DEF Compare, ChangeOf, Typed, TypeOK
      <4> QED  BY <2>1, <4>2, <4>3 DEF Early
    <3> QED  BY <3>1, <3>2
  <2>3. ASSUME NEW c \in changes' PROVE Proven(c)'
    <3>1. CASE c \in changes
      <4>1. c.run \in Runs /\ Proven(c)
        BY <3>1 DEF RemovalIsProven, Proven, Typed, TypeOK, Change
      <4>2. phase[c.run] \notin Before
        BY <3>1, <4>1 DEF AllAnswered, Answered, ChangesOf
      <4> QED  BY <2>1, <4>1, <4>2 DEF Before
    <3>2. CASE c \notin changes
      <4>1. PersistChanges(q)
        BY <1>2, <2>3, <3>2 DEF Step, Extraction, Create, SelectMode, Fetch, SkipPage,
           ProviderError, Respond, Observe, ClosePage, FinishExtraction, FinishStandalone,
           PublishPartial, Establish, EnterHistory, LookupHistory, Compare,
           GenerateReport, Finalize, Complete, Fail, Crash, rows
      <4>2. c \in plan[q] /\ phase[q] = "write"
        BY <2>3, <3>2, <4>1 DEF PersistChanges
      <4> QED  BY <2>1, <4>2 DEF PlansProven, Typed, PlanShape, Early
    <3> QED  BY <3>1, <3>2
  <2> QED  BY <2>2, <2>3 DEF PlansProven, RemovalIsProven, Proven
<1> QED  BY <1>1, <1>2 DEF Next

LEMMA LookedHolds == Spec => []Looked
<1>1. Init => Looked
  BY DEF Init, Looked
<1> QED  BY <1>1, LookedStep, TypesHold, PendingHolds, PTL DEF Spec

LEMMA AnsweredHolds == Spec => []AllAnswered
<1>1. Init => AllAnswered
  BY DEF Init, AllAnswered, Answered, ChangesOf, ObsOf, NoAnswer, Before, Early
<1> QED  BY <1>1, AllAnsweredStep, TypesHold, PendingHolds, PTL DEF Spec

\* Absence is never taken for removal: the page that stated the fact was read in
\* full and no page of the run states it, for any number of pages and runs.
THEOREM RemovalsProven == Spec => []RemovalIsProven
<1>1. Init => PlansProven /\ RemovalIsProven
  BY DEF Init, PlansProven, RemovalIsProven
<1> QED  BY <1>1, RemovalStep, TypesHold, LookedHolds, AnsweredHolds, PTL DEF Spec
-----------------------------------------------------------------------------
(* Changes describe the run and its baseline *)

\* What ChangesMatchRuns says of a set of changes, apart from the judgement.
Matches(r, P) ==
  /\ {c.key : c \in P} = ObsKeys(r) \cup ObsKeys(prev[r])
  /\ \A c, d \in P : c.key = d.key => c = d
  /\ \A c \in P : c.type \in {"MODIFIED", "UNCHANGED"} => c.old \in DOMAIN facts
  /\ \A c \in P, o \in ObsOf(r) : c.new = o.fact => c.key = KeyOf(o)
  /\ \A o \in ObsOf(r) : \E c \in P :
       /\ c.key = KeyOf(o) /\ c.new = o.fact
       /\ c.type = "MODIFIED" => ValueOf(o) # facts[c.old].value
       /\ c.type = "UNCHANGED" => ValueOf(o) = facts[c.old].value
       /\ c.type = "ADDED" => KeyOf(o) \notin ObsKeys(prev[r])
Judged(r) == \A o \in ObsOf(r), c \in ChangesOf(r) : c.new = o.fact => o.status = c.type
Matched(r) ==
  /\ phase[r] \in Before => \A o, p \in ObsOf(r) : KeyOf(o) = KeyOf(p) => o = p
  /\ phase[r] = "write" => Matches(r, plan[r])
  /\ mode[r] = "TRACKING" /\ phase[r] \in {"report", "summary", "finish"} =>
       Matches(r, ChangesOf(r)) /\ Judged(r)
AllMatched == \A r \in Runs : Matched(r)

LEMMA FactInKey ==
  ASSUME Typed, NEW r \in Runs, NEW k \in Keys, FactIn(r, k) # 0
  PROVE  \E o \in ObsOf(r) : o.fact = FactIn(r, k) /\ KeyOf(o) = k
<1> DEFINE S == {o.fact : o \in {x \in ObsOf(r) : KeyOf(x) = k}}
<1>1. Len(facts) \in Nat /\ DOMAIN facts = 1 .. Len(facts)
  BY DEF Typed, TypeOK
<1>2. \A o \in obs : o.fact \in DOMAIN facts
  BY DEF Typed, TypeOK, Observation
<1>3. S \subseteq 1 .. Len(facts)
  BY <1>1, <1>2 DEF ObsOf
<1>4. FactIn(r, k) \in S
  BY <1>1, <1>3, LatestIn DEF FactIn
<1> QED  BY <1>4

\* The comparison has one change for each identity, of the type the values imply.
LEMMA ComparisonMatches ==
  ASSUME Typed, AllMatched, NEW q \in Runs, Compare(q)
  PROVE  Matches(q, plan'[q])
<1> DEFINE b == prev[q]
           K == ObsKeys(q) \cup ObsKeys(b)
<1>1. phase[q] = "compare" /\ b \in Runs
  BY DEF Compare, Typed, Compared
<1>2. plan'[q] = {ChangeOf(q, b, k) : k \in K}
  BY DEF Compare, Typed, TypeOK
<1>3. K \subseteq Keys
  BY <1>1, ObsKeysTyped
<1>4. \A k \in K : LET c == ChangeOf(q, b, k) IN
        /\ c.key = k /\ c.old = FactIn(b, k) /\ c.new = FactIn(q, k)
        /\ c.type = "ADDED" => c.old = 0
        /\ c.type \in {"MODIFIED", "UNCHANGED"} => c.old # 0 /\ c.new # 0
        /\ c.type = "MODIFIED" => facts[c.old].value # facts[c.new].value
        /\ c.type = "UNCHANGED" => facts[c.old].value = facts[c.new].value
  BY DEF ChangeOf
<1>5. \A k \in K : /\ FactIn(b, k) \in {0} \cup DOMAIN facts
                   /\ FactIn(b, k) # 0 <=> k \in ObsKeys(b)
                   /\ FactIn(q, k) # 0 <=> k \in ObsKeys(q)
  BY <1>1, <1>3, FactInTyped
<1>6. \A o \in ObsOf(q) : KeyOf(o) \in K /\ o.fact # 0
  BY DEF ObsKeys, ObsOf, Typed, TypeOK, Observation
<1>7. \A o \in ObsOf(q) : FactIn(q, KeyOf(o)) = o.fact
  <2> SUFFICES ASSUME NEW o \in ObsOf(q) PROVE FactIn(q, KeyOf(o)) = o.fact
    OBVIOUS
  <2>1. KeyOf(o) \in ObsKeys(q) /\ KeyOf(o) \in Keys
    BY <1>3, <1>6 DEF ObsKeys
  <2>2. PICK p \in ObsOf(q) : p.fact = FactIn(q, KeyOf(o)) /\ KeyOf(p) = KeyOf(o)
    BY <1>5, <1>6, <2>1, FactInKey
  <2> QED  BY <1>1, <2>2 DEF AllMatched, Matched, Before
<1>8. \A k \in K, o \in ObsOf(q) : FactIn(q, k) = o.fact => k = KeyOf(o)
  <2> SUFFICES ASSUME NEW k \in K, NEW o \in ObsOf(q), FactIn(q, k) = o.fact PROVE k = KeyOf(o)
    OBVIOUS
  <2>1. PICK p \in ObsOf(q) : p.fact = FactIn(q, k) /\ KeyOf(p) = k
    BY <1>3, <1>6, FactInKey
  <2> QED  BY <2>1 DEF KeyOf
<1> HIDE DEF K, b
<1>9. {c.key : c \in plan'[q]} = K
  BY <1>2, <1>4
<1>10. \A c, d \in plan'[q] : c.key = d.key => c = d
  BY <1>2, <1>4
<1>11. \A c \in plan'[q] : c.type \in {"MODIFIED", "UNCHANGED"} => c.old \in DOMAIN facts
  BY <1>2, <1>4, <1>5
<1>12. \A c \in plan'[q], o \in ObsOf(q) : c.new = o.fact => c.key = KeyOf(o)
  BY <1>2, <1>4, <1>8
<1>13. ASSUME NEW o \in ObsOf(q)
       PROVE  LET c == ChangeOf(q, b, KeyOf(o)) IN
              /\ c \in plan'[q] /\ c.key = KeyOf(o) /\ c.new = o.fact
              /\ c.type = "MODIFIED" => ValueOf(o) # facts[c.old].value
              /\ c.type = "UNCHANGED" => ValueOf(o) = facts[c.old].value
              /\ c.type = "ADDED" => KeyOf(o) \notin ObsKeys(b)
  BY <1>2, <1>4, <1>5, <1>6, <1>7 DEF ValueOf
<1> QED  BY <1>9, <1>10, <1>11, <1>12, <1>13 DEF Matches, K, b

\* A match outlives what other runs and the later steps of this one do.
LEMMA MatchStays ==
  ASSUME Typed, Looked, NEW q \in Runs, Step(q), NEW r \in Runs, NEW P,
         phase[r] \notin Early \cup {"persist", "history"},
         ObsOf(r)' = ObsOf(r), Matches(r, P)
  PROVE  Matches(r, P)'
<1>1. prev'[r] = prev[r] /\ ObsOf(prev[r])' = ObsOf(prev[r])
  BY EvidenceStays
<1>2. ObsKeys(r)' = ObsKeys(r)
  BY KeysKept
<1>3. \A f \in DOMAIN facts : f \in DOMAIN facts' /\ facts'[f] = facts[f]
  BY FactsGrow
<1>4. ObsKeys(prev[r])' = ObsKeys(prev[r])
  <2>1. \A o \in ObsOf(prev[r]) : facts'[o.fact] = facts[o.fact]
    BY <1>3 DEF Typed, TypeOK, Observation, ObsOf
  <2> QED  BY <1>1, <2>1 DEF ObsKeys, KeyOf
<1>5. \A o \in ObsOf(r) : o.fact \in DOMAIN facts
  BY DEF Typed, TypeOK, Observation, ObsOf
<1> HIDE DEF ObsKeys, ObsOf
<1> QED  BY <1>1, <1>2, <1>3, <1>4, <1>5 DEF Matches, KeyOf, ValueOf

\* Writing the plan makes its changes the run's and its types the judgement.
LEMMA WritingMatches ==
  ASSUME Typed, Looked, AllAnswered, AllMatched, NEW q \in Runs, Step(q), PersistChanges(q)
  PROVE  (Matches(q, ChangesOf(q)) /\ Judged(q))'
<1>0. PICK P : P = plan[q]
  OBVIOUS
<1>1. phase[q] = "write" /\ facts' = facts /\ prev' = prev
      /\ obs' = (obs \ ObsOf(q)) \cup {Judge(o, P) : o \in ObsOf(q)}
      /\ changes' = changes \cup P
  BY <1>0 DEF PersistChanges
<1>2. Matches(q, P)
  BY <1>0, <1>1 DEF AllMatched, Matched
<1>3. ChangesOf(q)' = P
  <2>1. ChangesOf(q) = {}
    BY <1>1 DEF AllAnswered, Answered, Before
  <2>2. \A c \in P : c.run = q
    BY <1>0 DEF Typed, PlanShape
  <2> QED  BY <1>1, <2>1, <2>2 DEF ChangesOf
<1>4. \A o \in ObsOf(q) : LET j == Judge(o, P) IN
        /\ j.run = q /\ j.fact = o.fact
        /\ \A c \in P : c.new = o.fact => j.status = c.type
  <2> SUFFICES ASSUME NEW o \in ObsOf(q)
               PROVE  LET j == Judge(o, P) IN
                      /\ j.run = q /\ j.fact = o.fact
                      /\ \A c \in P : c.new = o.fact => j.status = c.type
    OBVIOUS
  <2> DEFINE C == {c \in P : c.new = o.fact}
  <2>1. o \in Observation /\ o.run = q
    BY DEF Typed, TypeOK, ObsOf
  <2>2. \A c, d \in C : c = d
    BY <1>2 DEF Matches
  <2>3. CASE C = {}
    BY <2>1, <2>3 DEF Judge
  <2>4. CASE C # {}
    <3>1. PICK c \in C : C = {c}
      BY <2>2, <2>4
    <3>2. (CHOOSE d \in C : TRUE) = c
      BY <3>1
    <3>3. Judge(o, P) = [o EXCEPT !.status = c.type]
      BY <2>4, <3>2 DEF Judge
    <3> QED  BY <2>1, <3>1, <3>3 DEF Observation
  <2> QED  BY <2>3, <2>4
<1>5. ObsOf(q)' = {Judge(o, P) : o \in ObsOf(q)}
  BY <1>1, <1>4 DEF ObsOf
<1>6. ObsKeys(q)' = ObsKeys(q)
  BY <1>1, <1>4, <1>5 DEF ObsKeys, KeyOf
<1>7. ObsKeys(prev[q])' = ObsKeys(prev[q])
  <2>1. ObsOf(prev[q])' = ObsOf(prev[q])
    BY <1>1, EvidenceStays DEF Early
  <2> QED  BY <1>1, <2>1 DEF ObsKeys, KeyOf
<1>8. Matches(q, P)'
  BY <1>1, <1>2, <1>4, <1>5, <1>6, <1>7 DEF Matches, KeyOf, ValueOf
<1>9. Judged(q)'
  BY <1>3, <1>4, <1>5 DEF Judged
<1> QED  BY <1>3, <1>8, <1>9 DEF Matches

LEMMA DistinctStep ==
  ASSUME Typed, NEW q \in Runs, Step(q), Matched(q), phase'[q] \in Before
  PROVE  (\A o, p \in ObsOf(q) : KeyOf(o) = KeyOf(p) => o = p)'
<1>1. phase[q] \in Before
  BY DEF Before, Early, Typed, TypeOK, Step, Extraction, Create, SelectMode, Fetch, SkipPage,
     ProviderError, Respond, Observe, ClosePage, FinishExtraction, FinishStandalone,
     PublishPartial, Establish, EnterHistory, LookupHistory, Compare, PersistChanges,
     GenerateReport, Finalize, Complete, Fail, Crash, rows
<1>2. \A o, p \in ObsOf(q) : KeyOf(o) = KeyOf(p) => o = p
  BY <1>1 DEF Matched
<1>3. \A o \in ObsOf(q) : facts'[o.fact] = facts[o.fact]
  BY FactsGrow DEF Typed, TypeOK, Observation, ObsOf
<1>4. CASE Observe(q)
  <2>1. PICK k \in work[q].todo : SeenBefore(q, k) \/ StoredForSnapshot(q, k) \/ StoreOrReuse(q, k)
    BY <1>4 DEF Observe
  <2>2. k \in Keys /\ phase[q] = "page"
    BY <1>4 DEF Observe, Typed, TypeOK
  <2>3. obs' = obs \/ \E o : /\ obs' = obs \cup {o} /\ o.run = q /\ k \notin ObsKeys(q)
                             /\ facts'[o.fact].key = k
    BY <2>1, <2>2, CandidateSettled
  <2> QED  BY <1>2, <1>3, <2>3 DEF ObsOf, ObsKeys, KeyOf
<1>5. CASE ~ Observe(q)
  <2>1. obs' = obs
    BY <1>1, <1>5 DEF Before, Early, Typed, TypeOK, Step, Extraction, Create, SelectMode, Fetch, SkipPage,
       ProviderError, Respond, ClosePage, FinishExtraction, FinishStandalone,
       PublishPartial, Establish, EnterHistory, LookupHistory, Compare, PersistChanges,
       GenerateReport, Finalize, Complete, Fail, Crash, rows
  <2> QED  BY <1>2, <1>3, <2>1 DEF ObsOf, KeyOf
<1> QED  BY <1>4, <1>5

LEMMA MatchedStep ==
  ASSUME Typed, Looked, AllAnswered, AllMatched, [Next]_vars
  PROVE  AllMatched'
<1>1. CASE UNCHANGED vars
  <2>1. \A r \in Runs : /\ ObsOf(r)' = ObsOf(r) /\ ObsKeys(r)' = ObsKeys(r) /\ ChangesOf(r)' = ChangesOf(r)
                        /\ ObsKeys(prev[r])' = ObsKeys(prev[r])
    BY <1>1 DEF vars, rows, context, ObsOf, ObsKeys, KeyOf, ChangesOf
  <2>2. facts' = facts /\ phase' = phase /\ plan' = plan /\ mode' = mode
    BY <1>1 DEF vars, rows, context
  <2> QED  BY <2>1, <2>2 DEF AllMatched, Matched, Matches, Judged, KeyOf, ValueOf
<1>2. ASSUME NEW q \in Runs, Step(q), NEW r \in Runs PROVE Matched(r)'
  <2>0. Matched(r)
    BY DEF AllMatched
  <2>1. CASE r # q
    <3>1. Kept(r) /\ ContextKept(r)
      BY <1>2, <2>1, Framed, ContextFramed
    <3>2. \A o \in ObsOf(r) : facts'[o.fact] = facts[o.fact]
      BY <1>2, FactsGrow DEF Typed, TypeOK, Observation, ObsOf
    <3>3. (phase[r] \in Before => \A o, p \in ObsOf(r) : KeyOf(o) = KeyOf(p) => o = p)'
      BY <2>0, <3>1, <3>2 DEF Matched, Kept, KeyOf
    <3>4. ASSUME phase'[r] = "write" PROVE Matches(r, plan[r])'
      <4>1. PICK P : P = plan[r]
        OBVIOUS
      <4>2. Matches(r, P)'
        BY <1>2, <2>0, <3>1, <3>4, <4>1, MatchStays DEF Kept, Matched, Early
      <4> QED  BY <3>1, <4>1, <4>2 DEF Kept, Matches
    <3>5. ASSUME mode'[r] = "TRACKING", phase'[r] \in {"report", "summary", "finish"}
          PROVE  (Matches(r, ChangesOf(r)) /\ Judged(r))'
      <4>1. PICK P : P = ChangesOf(r)
        OBVIOUS
      <4>2. Matches(r, P)'
        BY <1>2, <2>0, <3>1, <3>5, <4>1, MatchStays DEF Kept, ContextKept, Matched, Early
      <4>3. Judged(r)'
        BY <2>0, <3>1, <3>5 DEF Kept, ContextKept, Matched, Judged
      <4> QED  BY <3>1, <4>1, <4>2, <4>3 DEF Kept, Matches
    <3> QED  BY <3>3, <3>4, <3>5 DEF Matched
  <2>2. CASE r = q
    <3>1. (phase[q] \in Before => \A o, p \in ObsOf(q) : KeyOf(o) = KeyOf(p) => o = p)'
      BY <1>2, <2>0, <2>2, DistinctStep DEF Before, Early
    <3>2. ASSUME phase'[q] = "write" PROVE Matches(q, plan[q])'
      <4>1. Compare(q)
        BY <1>2, <3>2 DEF Typed, TypeOK, Step, Extraction, Create, SelectMode, Fetch, SkipPage,
           ProviderError, Respond, Observe, ClosePage, FinishExtraction, FinishStandalone,
           PublishPartial, Establish, EnterHistory, LookupHistory, PersistChanges,
           GenerateReport, Finalize, Complete, Fail, Crash, rows
      <4>2. PICK P : P = plan'[q] /\ Matches(q, P)
        BY <4>1, ComparisonMatches
      <4>3. Matches(q, P)'
        BY <1>2, <4>1, <4>2, MatchStays DEF Compare, rows, ObsOf, Early
      <4> QED  BY <4>2, <4>3 DEF Matches
    <3>3. ASSUME mode'[q] = "TRACKING", phase'[q] \in {"report", "summary", "finish"}
          PROVE  (Matches(q, ChangesOf(q)) /\ Judged(q))'
      <4>1. CASE PersistChanges(q)
        BY <1>2, <4>1, WritingMatches
      <4>2. CASE ~ PersistChanges(q)
        <5>1. GenerateReport(q) \/ Finalize(q)
          BY <1>2, <3>3, <4>2 DEF Typed, TypeOK, Step, Extraction, Create, SelectMode, Fetch, SkipPage,
             ProviderError, Respond, Observe, ClosePage, FinishExtraction, FinishStandalone,
             PublishPartial, Establish, EnterHistory, LookupHistory, Compare,
             Complete, Fail, Crash, rows
        <5>2. /\ phase[q] \in {"report", "summary"} /\ mode' = mode /\ obs' = obs
              /\ changes' = changes /\ facts' = facts
          BY <5>1 DEF GenerateReport, Finalize
        <5>3. PICK P : P = ChangesOf(q)
          OBVIOUS
        <5>4. Matches(q, P)'
          BY <1>2, <2>0, <2>2, <3>3, <5>2, <5>3, MatchStays DEF Matched, Early, ObsOf
        <5>5. Judged(q)' /\ ChangesOf(q)' = P
          BY <2>0, <2>2, <3>3, <5>2, <5>3 DEF Matched, Judged, ObsOf, ChangesOf
        <5> QED  BY <5>4, <5>5 DEF Matches
      <4> QED  BY <4>1, <4>2
    <3> QED  BY <2>2, <3>1, <3>2, <3>3 DEF Matched
  <2> QED  BY <2>1, <2>2
<1> QED  BY <1>1, <1>2 DEF Next, AllMatched

\* The recorded changes describe a run and its baseline exactly, although other
\* runs wrote between the reading and the writing transaction.
THEOREM ChangesAreExact == Spec => []ChangesMatchRuns
<1>1. Init => AllMatched
  BY DEF Init, AllMatched, Matched, ObsOf, Before, Early
<1>2. AllMatched => ChangesMatchRuns
  BY DEF AllMatched, Matched, Matches, Judged, ChangesMatchRuns, ChangesOf
<1> QED  BY <1>1, <1>2, MatchedStep, TypesHold, LookedHolds, AnsweredHolds, PTL DEF Spec
=============================================================================

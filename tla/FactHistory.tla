---------------------------- MODULE FactHistory ----------------------------
(***************************************************************************)
(* The persisted fact history of one competitor: the versions of each      *)
(* fact, the observations of each analysis run, the baseline a run is      *)
(* compared with, the changes it records and the report it publishes.      *)
(*                                                                         *)
(* One action is one database transaction (or one provider answer) of      *)
(* FactExtractionService, FactHistoryService, PartialResultService and     *)
(* the tools that call them, in the order AgentRunner calls them.  Runs    *)
(* may overlap (MaxActive > 1: the command line does not go through the    *)
(* web executor), fail or lose their process between two transactions.     *)
(***************************************************************************)
EXTENDS Naturals, Sequences, FiniteSets

CONSTANTS
  Keys,         \* fact identities (fact_category, fact_key)
  Values,       \* normalized business values
  None,         \* no value
  PageKeys,     \* PageKeys[s]: identities the page of the s-th VERIFIED source can carry
  MaxRuns,      \* bound: agent_runs rows
  MaxActive,    \* bound: runs of this competitor in progress at once
  Kinds,        \* [provider, job] combinations a run is started with
  FaultPhases   \* phases in which a run may fail or lose its process

Jobs      == {"full", "skip", "smoke"}
Providers == {"fixture", "llm"}

ASSUME HistoryAssumption ==
  /\ None \notin Values \cup Keys
  /\ PageKeys \in Seq(SUBSET Keys)
  /\ MaxRuns \in Nat /\ MaxActive \in Nat
  /\ Kinds \subseteq [provider : Providers, job : Jobs]

Runs    == 1 .. MaxRuns
Sources == DOMAIN PageKeys

Phases == {"absent", "profile", "fetch", "extract", "page", "partial", "persist",
           "history", "compare", "write", "report", "summary", "finish",
           "done", "dead"}
Statuses      == {"absent", "RUNNING", "COMPLETED", "PARTIAL_SUCCESS", "FAILED"}
PageStatuses  == {"none", "SUCCEEDED", "NO_FACTS", "PARTIAL_ERROR", "FAILED"}
ChangeTypes   == {"ADDED", "REMOVED", "MODIFIED", "UNCHANGED", "UNCOMPARABLE"}
Accepted      == {"BASELINE", "ADDED", "MODIFIED", "UNCHANGED"}
ObsStatuses   == Accepted \cup {"PENDING"}
Incomplete    == {"PARTIAL_SUCCESS", "FAILED"}
FormalReports == {"BASELINE", "CHANGE_TRACKING"}

VARIABLES
  \* rows of the database
  facts,     \* product_facts + fact_versions, in auto-increment order
  current,   \* ids of the versions with is_current = TRUE
  obs,       \* fact_observations
  snaps,     \* snaps[r][s]: fetch_status of the snapshot run r took of source s
  changes,   \* changes
  reports,   \* reports, as [run, type]
  status,    \* agent_runs.status
  mode,      \* agent_runs.run_mode
  marker,    \* baseline_integrity.eligible written by finalize_run_summary
  page,      \* page[r][s]: page_status in the extraction audit of run r
  \* the run's context in memory
  kind,      \* provider and job the run was started with
  phase,     \* the next transaction of the run
  cursor,    \* source being extracted
  answer,    \* answer[r][s]: the candidates the provider returned for source s
  work,      \* candidates left on the open page; cache hit; rejections
  errors,    \* extraction errors collected so far
  conflict,  \* identities with conflicting values; None: a conflict without audit
  prev,      \* run this one is compared with (0: none)
  plan       \* result of FactComparisonService.compare, not yet persisted

rows    == <<facts, current, obs, snaps, changes, reports, status, mode, marker, page>>
context == <<kind, phase, cursor, answer, work, errors, conflict, prev, plan>>
vars    == <<rows, context>>

NoAnswer == [k \in Keys |-> None]
Idle     == [todo |-> {}, owner |-> 0, reused |-> FALSE, bad |-> FALSE]
NoKind   == [provider |-> "none", job |-> "none"]
-----------------------------------------------------------------------------
(* Queries *)

Active      == {r \in Runs : phase[r] \notin {"absent", "done", "dead"}}
ObsOf(r)    == {o \in obs : o.run = r}
KeyOf(o)    == facts[o.fact].key
ValueOf(o)  == facts[o.fact].value
ObsKeys(r)  == {KeyOf(o) : o \in ObsOf(r)}
Latest(S)   == CHOOSE x \in S : \A y \in S : y <= x

\* The snapshot extraction reads: the run's own one, or for a standalone
\* extraction the latest successful one of any run (0: none).  The latest run stands
\* for the latest fetch, which differs only while two runs fetch at once.
SnapshotOwner(r, s) ==
  LET own == IF kind[r].job = "smoke" THEN Runs ELSE {r}
      S   == {q \in own : snaps[q][s] = "SUCCESS"}
  IN  IF S = {} THEN 0 ELSE Latest(S)

\* Mutant of EligibleBaselines: the query trusts the provenance marker and no
\* longer asks for the terminal status.
MarkedBaselines(r) ==
  {q \in Runs : /\ q < r
                /\ mode[q] \in {"BASELINE", "TRACKING"}
                /\ marker[q] = "eligible"
                /\ ObsOf(q) # {}
                /\ \A o \in ObsOf(q) : o.status \in Accepted /\ o.snap = q
                                       /\ snaps[q][o.source] = "SUCCESS"}

\* get_previous_successful_with_facts
EligibleBaselines(r) ==
  {q \in Runs : /\ q < r
                /\ status[q] = "COMPLETED"
                /\ mode[q] \in {"BASELINE", "TRACKING"}
                /\ marker[q] = "eligible"
                /\ ObsOf(q) # {}
                /\ \A o \in ObsOf(q) : o.status \in Accepted /\ o.snap = q
                                       /\ snaps[q][o.source] = "SUCCESS"}
Baseline(r) == IF EligibleBaselines(r) = {} THEN 0 ELSE Latest(EligibleBaselines(r))

\* get_cached_page: a complete page of a COMPLETED model-provider run.
CachedPages(r, s) ==
  {q \in Runs : /\ status[q] = "COMPLETED"
                /\ kind[q].provider = "llm"
                /\ page[q][s] \in {"SUCCEEDED", "NO_FACTS"}}

\* find_current: the newest current version of an identity (0: none).
CurrentOf(k) ==
  LET S == {f \in current : facts[f].key = k} IN IF S = {} THEN 0 ELSE Latest(S)

\* find_by_snapshot_key
FactOfSnapshot(q, s, k) ==
  {f \in DOMAIN facts : facts[f].snap = q /\ facts[f].source = s /\ facts[f].key = k}
-----------------------------------------------------------------------------
(* Starting a run *)

Init ==
  /\ facts = <<>>
  /\ current = {} /\ obs = {} /\ changes = {} /\ reports = {}
  /\ snaps = [r \in Runs |-> [s \in Sources |-> "none"]]
  /\ status = [r \in Runs |-> "absent"]
  /\ mode = [r \in Runs |-> "UNKNOWN"]
  /\ marker = [r \in Runs |-> "none"]
  /\ page = [r \in Runs |-> [s \in Sources |-> "none"]]
  /\ kind = [r \in Runs |-> NoKind]
  /\ phase = [r \in Runs |-> "absent"]
  /\ cursor = [r \in Runs |-> 1]
  /\ answer = [r \in Runs |-> [s \in Sources |-> NoAnswer]]
  /\ work = [r \in Runs |-> Idle]
  /\ errors = [r \in Runs |-> FALSE]
  /\ conflict = [r \in Runs |-> {}]
  /\ prev = [r \in Runs |-> 0]
  /\ plan = [r \in Runs |-> {}]

\* The run row is inserted: AgentRunner.run, or the run a standalone
\* extraction owns.
Create(r) ==
  /\ phase[r] = "absent"
  /\ \A q \in Runs : q < r => phase[q] # "absent"
  /\ Cardinality(Active) < MaxActive
  /\ status' = [status EXCEPT ![r] = "RUNNING"]
  /\ \E k \in Kinds :
       /\ kind' = [kind EXCEPT ![r] = k]
       /\ phase' = [phase EXCEPT ![r] = IF k.job = "smoke" THEN "extract" ELSE "profile"]
  /\ UNCHANGED <<facts, current, obs, snaps, changes, reports, mode, marker, page,
                 cursor, answer, work, errors, conflict, prev, plan>>

\* get_competitor_profile and the mode selection that follows it: a refresh
\* needs an eligible baseline made with the same fact provider.
SelectMode(r) ==
  /\ phase[r] = "profile"
  /\ LET q == Baseline(r)
         refresh == q # 0 /\ kind[q].provider = kind[r].provider
     IN  mode' = [mode EXCEPT ![r] = IF refresh THEN "TRACKING" ELSE "BASELINE"]
  /\ phase' = [phase EXCEPT ![r] = "fetch"]
  /\ UNCHANGED <<facts, current, obs, snaps, changes, reports, status, marker, page,
                 kind, cursor, answer, work, errors, conflict, prev, plan>>

\* refresh_verified_sources: one snapshot row per source; the tool fails when
\* no page could be fetched.  The transactions of the sources are one step: before
\* the run extracts, nobody but a standalone extraction reads them, one by one.
Fetch(r) ==
  /\ phase[r] = "fetch"
  /\ \E fetched \in [Sources -> {"SUCCESS", "FAILED"}] :
       /\ snaps' = [snaps EXCEPT ![r] = fetched]
       /\ IF \A s \in Sources : fetched[s] = "FAILED"
          THEN /\ status' = [status EXCEPT ![r] = "FAILED"]
               /\ phase' = [phase EXCEPT ![r] = "done"]
          ELSE /\ phase' = [phase EXCEPT ![r] =
                              IF kind[r].job = "skip" THEN "persist" ELSE "extract"]
               /\ UNCHANGED status
  /\ UNCHANGED <<facts, current, obs, changes, reports, mode, marker, page,
                 kind, cursor, answer, work, errors, conflict, prev, plan>>
-----------------------------------------------------------------------------
(* Extraction: the sources in order, each candidate in its own transaction *)

\* The source has no successful snapshot to read.  The other reasons to leave a page out,
\* its type and the limit of model calls, are in FactIntake.
SkipPage(r) ==
  /\ phase[r] = "extract" /\ cursor[r] \in Sources
  /\ SnapshotOwner(r, cursor[r]) = 0
  /\ errors' = [errors EXCEPT ![r] = @ \/ kind[r].provider = "llm"]
  /\ cursor' = [cursor EXCEPT ![r] = @ + 1]
  /\ UNCHANGED <<rows, kind, phase, answer, work, conflict, prev, plan>>

\* The provider raises (no audit entry), or answers with an error and no fact.
ProviderError(r) ==
  /\ phase[r] = "extract" /\ cursor[r] \in Sources
  /\ SnapshotOwner(r, cursor[r]) # 0
  /\ \E st \in {"none", IF kind[r].provider = "llm" THEN "FAILED" ELSE "SUCCEEDED"} :
       page' = [page EXCEPT ![r][cursor[r]] = st]
  /\ errors' = [errors EXCEPT ![r] = TRUE]
  /\ cursor' = [cursor EXCEPT ![r] = @ + 1]
  /\ UNCHANGED <<facts, current, obs, snaps, changes, reports, status, mode, marker,
                 kind, phase, answer, work, conflict, prev, plan>>

\* The provider answers with at most one candidate per identity.  "bad": some
\* fact of the answer was rejected.  "clash": identities the model provider
\* rejected because the page states them with different values.
Respond(r) ==
  /\ phase[r] = "extract" /\ cursor[r] \in Sources
  /\ SnapshotOwner(r, cursor[r]) # 0
  /\ LET s == cursor[r] IN
     \E vals \in {v \in [Keys -> Values \cup {None}] : \A k \in Keys \ PageKeys[s] : v[k] = None},
        bad \in BOOLEAN, reused \in BOOLEAN,
        clash \in SUBSET PageKeys[s] :
       /\ clash # {} => kind[r].provider = "llm" /\ bad
       /\ \A k \in clash : vals[k] = None
       /\ reused => /\ kind[r].provider = "llm" /\ ~bad
                    /\ \E q \in CachedPages(r, s) : answer[q][s] = vals
       /\ answer' = [answer EXCEPT ![r][s] = vals]
       /\ work' = [work EXCEPT ![r] = [todo |-> {k \in Keys : vals[k] # None},
                                       owner |-> SnapshotOwner(r, s), reused |-> reused, bad |-> bad]]
       /\ conflict' = [conflict EXCEPT ![r] = @ \cup clash]
       /\ errors' = [errors EXCEPT ![r] = @ \/ (bad /\ kind[r].provider = "llm")]
  /\ phase' = [phase EXCEPT ![r] = "page"]
  /\ UNCHANGED <<rows, kind, cursor, prev, plan>>

\* The identity was already observed in this run.  The model provider rejects a
\* different value as a conflict; otherwise the candidate is a duplicate, which
\* the fixture provider counts as a rejection when the snapshot has the fact.
SeenBefore(r, k) ==
  /\ k \in ObsKeys(r)
  /\ LET v == answer[r][cursor[r]][k]
         clashes == /\ kind[r].provider = "llm"
                    /\ \E o \in ObsOf(r) : KeyOf(o) = k /\ ValueOf(o) # v
         stored  == /\ kind[r].provider = "fixture"
                    /\ FactOfSnapshot(work[r].owner, cursor[r], k) # {}
     IN  /\ work' = [work EXCEPT ![r].todo = @ \ {k}, ![r].bad = @ \/ clashes \/ stored]
         /\ errors' = [errors EXCEPT ![r] = @ \/ clashes]
         /\ conflict' = [conflict EXCEPT ![r] = IF clashes THEN @ \cup {k} ELSE @]
  /\ UNCHANGED <<facts, obs>>

\* The identity is already stored for this very snapshot (a repeated standalone
\* extraction).  The fixture provider rejects the candidate, the model provider
\* observes the stored fact again unless its value differs: a conflict that is
\* not audited.
StoredForSnapshot(r, k) ==
  LET s      == cursor[r]
      owner  == work[r].owner
      stored == FactOfSnapshot(owner, s, k)
      same   == \A f \in stored : facts[f].value = answer[r][s][k]
      keep   == kind[r].provider = "llm" /\ same
  IN  /\ k \notin ObsKeys(r) /\ stored # {}
      /\ obs' = IF keep THEN obs \cup {[run |-> r, fact |-> Latest(stored), source |-> s,
                                        snap |-> owner, status |-> "PENDING"]}
                        ELSE obs
      /\ work' = [work EXCEPT ![r].todo = @ \ {k}, ![r].bad = @ \/ ~keep]
      /\ errors' = [errors EXCEPT ![r] = @ \/ (kind[r].provider = "llm" /\ ~same)]
      /\ conflict' = [conflict EXCEPT ![r] =
                        IF kind[r].provider = "llm" /\ ~same THEN @ \cup {None} ELSE @]
      /\ UNCHANGED facts

\* Mutant of StoreOrReuse: the observation is written, the new version is not.
ObserveOnly(r, k) ==
  LET s      == cursor[r]
      owner  == work[r].owner
      v      == answer[r][s][k]
      c      == CurrentOf(k)
      reuse  == /\ c # 0 /\ facts[c].value = v
                /\ kind[r].provider = "fixture" \/ work[r].reused
      id     == IF reuse THEN c ELSE Len(facts) + 1
  IN  /\ k \notin ObsKeys(r) /\ FactOfSnapshot(owner, s, k) = {}
      /\ obs' = obs \cup {[run |-> r, fact |-> id, source |-> s, snap |-> owner,
                           status |-> "PENDING"]}
      /\ work' = [work EXCEPT ![r].todo = @ \ {k}]
      /\ UNCHANGED <<facts, errors, conflict>>

\* A current version with the same value is observed again (fixture, or a cached
\* page); otherwise a new version is inserted, not yet current.
StoreOrReuse(r, k) ==
  LET s      == cursor[r]
      owner  == work[r].owner
      v      == answer[r][s][k]
      c      == CurrentOf(k)
      reuse  == /\ c # 0 /\ facts[c].value = v
                /\ kind[r].provider = "fixture" \/ work[r].reused
      id     == IF reuse THEN c ELSE Len(facts) + 1
  IN  /\ k \notin ObsKeys(r) /\ FactOfSnapshot(owner, s, k) = {}
      /\ facts' = IF reuse THEN facts
                  ELSE Append(facts, [key |-> k, value |-> v, snap |-> owner, source |-> s])
      /\ obs' = obs \cup {[run |-> r, fact |-> id, source |-> s, snap |-> owner,
                           status |-> "PENDING"]}
      /\ work' = [work EXCEPT ![r].todo = @ \ {k}]
      /\ UNCHANGED <<errors, conflict>>

Observe(r) ==
  /\ phase[r] = "page"
  /\ \E k \in work[r].todo : SeenBefore(r, k) \/ StoredForSnapshot(r, k) \/ StoreOrReuse(r, k)
  /\ UNCHANGED <<current, snaps, changes, reports, status, mode, marker, page,
                 kind, phase, cursor, answer, prev, plan>>

\* The audit entry of the page is completed.
ClosePage(r) ==
  /\ phase[r] = "page" /\ work[r].todo = {}
  /\ LET s == cursor[r]
         confirmed == \E o \in ObsOf(r) : o.source = s
         st == CASE work[r].bad -> IF confirmed THEN "PARTIAL_ERROR" ELSE "FAILED"
                 [] ~work[r].bad /\ kind[r].provider = "llm" /\ answer[r][s] = NoAnswer -> "NO_FACTS"
                 [] OTHER -> "SUCCEEDED"
     IN  page' = [page EXCEPT ![r][s] = st]
  /\ work' = [work EXCEPT ![r] = Idle]
  /\ cursor' = [cursor EXCEPT ![r] = @ + 1]
  /\ phase' = [phase EXCEPT ![r] = "extract"]
  /\ UNCHANGED <<facts, current, obs, snaps, changes, reports, status, mode, marker,
                 kind, answer, errors, conflict, prev, plan>>

\* needs_partial
NeedsPartial(r) ==
  \/ errors[r]
  \/ \E s \in Sources : snaps[r][s] = "FAILED"
  \/ \E s \in Sources : page[r][s] \notin {"none", "SUCCEEDED"}

\* The result of the extraction tool, and the runner's branch on it.
FinishExtraction(r) ==
  /\ phase[r] = "extract" /\ cursor[r] \notin Sources /\ kind[r].job = "full"
  /\ LET audited == {s \in Sources : page[r][s] # "none"}
         success == /\ \/ ObsOf(r) # {}
                       \/ audited # {} /\ \A s \in audited : page[r][s] \in {"SUCCEEDED", "NO_FACTS"}
                    /\ ~(kind[r].provider = "llm" /\ errors[r])
     IN  \/ /\ NeedsPartial(r)
            /\ phase' = [phase EXCEPT ![r] = "partial"]
            /\ UNCHANGED status
         \/ /\ ~NeedsPartial(r) /\ success
            /\ phase' = [phase EXCEPT ![r] = "persist"]
            /\ UNCHANGED status
         \/ /\ ~NeedsPartial(r) /\ ~success
            /\ phase' = [phase EXCEPT ![r] = "done"]
            /\ status' = [status EXCEPT ![r] = "FAILED"]
  /\ UNCHANGED <<facts, current, obs, snaps, changes, reports, mode, marker, page,
                 kind, cursor, answer, work, errors, conflict, prev, plan>>

\* A standalone extraction activates what it observed and completes its run,
\* unless a model-provider page had an error.
FinishStandalone(r) ==
  /\ phase[r] = "extract" /\ cursor[r] \notin Sources /\ kind[r].job = "smoke"
  /\ LET failed == kind[r].provider = "llm" /\ errors[r]
         active == IF failed THEN {} ELSE ObsOf(r)
     IN  /\ current' = current \cup {o.fact : o \in active}
         /\ obs' = (obs \ active) \cup {[o EXCEPT !.status = "BASELINE"] : o \in active}
         /\ status' = [status EXCEPT ![r] = IF failed THEN "FAILED" ELSE "COMPLETED"]
  /\ phase' = [phase EXCEPT ![r] = "done"]
  /\ UNCHANGED <<facts, snaps, changes, reports, mode, marker, page,
                 kind, cursor, answer, work, errors, conflict, prev, plan>>
-----------------------------------------------------------------------------
(* Activation *)

\* Mutant of PublishPartial: the confirmed observations are finalized with the
\* report, as a complete run's are.
PublishAndAccept(r) ==
  /\ phase[r] = "partial"
  /\ reports' = reports \cup {[run |-> r, type |-> "PARTIAL_EVIDENCE"]}
  /\ obs' = (obs \ ObsOf(r)) \cup {[o EXCEPT !.status = "BASELINE"] : o \in ObsOf(r)}
  /\ marker' = [marker EXCEPT ![r] = "ineligible"]
  /\ status' = [status EXCEPT ![r] = "PARTIAL_SUCCESS"]
  /\ phase' = [phase EXCEPT ![r] = "done"]
  /\ UNCHANGED <<facts, current, snaps, changes, mode, page,
                 kind, cursor, answer, work, errors, conflict, prev, plan>>

\* PartialResultService.complete: report, audit and terminal status in one
\* transaction, or a failed run when no uncontested fact is left or the only
\* conflicts are not audited.
PublishPartial(r) ==
  /\ phase[r] = "partial"
  /\ IF ObsKeys(r) \ conflict[r] # {} /\ conflict[r] # {None}
     THEN /\ reports' = reports \cup {[run |-> r, type |-> "PARTIAL_EVIDENCE"]}
          /\ marker' = [marker EXCEPT ![r] = "ineligible"]
          /\ status' = [status EXCEPT ![r] = "PARTIAL_SUCCESS"]
     ELSE /\ status' = [status EXCEPT ![r] = "FAILED"]
          /\ UNCHANGED <<reports, marker>>
  /\ phase' = [phase EXCEPT ![r] = "done"]
  /\ UNCHANGED <<facts, current, obs, snaps, changes, mode, page,
                 kind, cursor, answer, work, errors, conflict, prev, plan>>

\* establish_baseline: a BASELINE run makes its observations the only current
\* versions, unless a page had no facts.
Establish(r) ==
  /\ phase[r] = "persist" /\ mode[r] = "BASELINE"
  /\ status[r] \notin Incomplete
  /\ IF \E s \in Sources : page[r][s] = "NO_FACTS"
     THEN UNCHANGED <<current, obs>>
     ELSE /\ current' = {o.fact : o \in ObsOf(r)}
          /\ obs' = (obs \ ObsOf(r)) \cup {[o EXCEPT !.status = "BASELINE"] : o \in ObsOf(r)}
  /\ phase' = [phase EXCEPT ![r] = "report"]
  /\ UNCHANGED <<facts, snaps, changes, reports, status, mode, marker, page,
                 kind, cursor, answer, work, errors, conflict, prev, plan>>

\* A TRACKING run goes on to look up the run it is compared with.
EnterHistory(r) ==
  /\ phase[r] = "persist" /\ mode[r] = "TRACKING"
  /\ phase' = [phase EXCEPT ![r] = "history"]
  /\ UNCHANGED <<rows, kind, cursor, answer, work, errors, conflict, prev, plan>>

LookupHistory(r) ==
  /\ phase[r] = "history"
  /\ prev' = [prev EXCEPT ![r] = Baseline(r)]
  /\ IF Baseline(r) = 0
     THEN /\ status' = [status EXCEPT ![r] = "FAILED"]
          /\ phase' = [phase EXCEPT ![r] = "done"]
     ELSE /\ phase' = [phase EXCEPT ![r] = "compare"]
          /\ UNCHANGED status
  /\ UNCHANGED <<facts, current, obs, snaps, changes, reports, mode, marker, page,
                 kind, cursor, answer, work, errors, conflict, plan>>

\* The fact run r observed for identity k (0: none).
FactIn(r, k) ==
  LET S == {o.fact : o \in {x \in ObsOf(r) : KeyOf(x) = k}}
  IN  IF S = {} THEN 0 ELSE Latest(S)

\* Mutant of Covered: a fetched page is enough.
FetchedOnly(r, s) == snaps[r][s] = "SUCCESS"

\* Absence is only trusted when the source was fetched and yielded a fact.
Covered(r, s) == snaps[r][s] = "SUCCESS" /\ \E o \in ObsOf(r) : o.source = s

\* FactComparisonService.compare for one identity.
ChangeOf(r, q, k) ==
  LET old == FactIn(q, k)
      new == FactIn(r, k)
      src == (CHOOSE o \in ObsOf(q) : o.fact = old).source
      typ == CASE old = 0 -> "ADDED"
               [] old # 0 /\ new = 0 -> IF Covered(r, src) THEN "REMOVED" ELSE "UNCOMPARABLE"
               [] OTHER -> IF facts[old].value = facts[new].value THEN "UNCHANGED" ELSE "MODIFIED"
  IN  [run |-> r, key |-> k, type |-> typ, old |-> old, new |-> new]

\* Mutant of Compare: the baseline's identities that are gone are not visited.
CompareObserved(r) ==
  /\ phase[r] = "compare"
  /\ status[r] \notin Incomplete /\ status[prev[r]] \notin Incomplete
  /\ plan' = [plan EXCEPT ![r] = {ChangeOf(r, prev[r], k) : k \in ObsKeys(r)}]
  /\ phase' = [phase EXCEPT ![r] = "write"]
  /\ UNCHANGED <<rows, kind, cursor, answer, work, errors, conflict, prev>>

\* compare_and_persist, the reading transaction and the comparison.
Compare(r) ==
  /\ phase[r] = "compare"
  /\ status[r] \notin Incomplete /\ status[prev[r]] \notin Incomplete
  /\ plan' = [plan EXCEPT ![r] =
       {ChangeOf(r, prev[r], k) : k \in ObsKeys(r) \cup ObsKeys(prev[r])}]
  /\ phase' = [phase EXCEPT ![r] = "write"]
  /\ UNCHANGED <<rows, kind, cursor, answer, work, errors, conflict, prev>>

\* Mutant of Judge: the observations keep their status.
JudgeNothing(o, P) == o

\* What persisting the plan closes and activates.  An unchanged identity keeps
\* its version; an uncomparable one is left alone.
Closed(P)    == {c.old : c \in {x \in P : x.type \in {"MODIFIED", "REMOVED"}
                                          \/ (x.type = "UNCHANGED" /\ x.old # x.new)}}
Activated(P) == {c.new : c \in {x \in P : x.type \in {"ADDED", "MODIFIED", "UNCHANGED"}}}

\* The logical change type becomes the status of the observation.
Judge(o, P) ==
  LET C == {c \in P : c.new = o.fact}
  IN  IF C = {} THEN o ELSE [o EXCEPT !.status = (CHOOSE c \in C : TRUE).type]

\* Mutant of PersistChanges: update_status matches the fact and not the run.
PersistForEveryRun(r) ==
  /\ phase[r] = "write"
  /\ changes' = changes \cup plan[r]
  /\ current' = (current \ Closed(plan[r])) \cup Activated(plan[r])
  /\ obs' = {Judge(o, plan[r]) : o \in obs}
  /\ plan' = [plan EXCEPT ![r] = {}]
  /\ phase' = [phase EXCEPT ![r] = "report"]
  /\ UNCHANGED <<facts, snaps, reports, status, mode, marker, page,
                 kind, cursor, answer, work, errors, conflict, prev>>

\* compare_and_persist, the writing transaction.
PersistChanges(r) ==
  /\ phase[r] = "write"
  /\ changes' = changes \cup plan[r]
  /\ current' = (current \ Closed(plan[r])) \cup Activated(plan[r])
  /\ obs' = (obs \ ObsOf(r)) \cup {Judge(o, plan[r]) : o \in ObsOf(r)}
  /\ plan' = [plan EXCEPT ![r] = {}]
  /\ phase' = [phase EXCEPT ![r] = "report"]
  /\ UNCHANGED <<facts, snaps, reports, status, mode, marker, page,
                 kind, cursor, answer, work, errors, conflict, prev>>
-----------------------------------------------------------------------------
(* Publication and the end of a run *)

GenerateReport(r) ==
  /\ phase[r] = "report" /\ status[r] \notin Incomplete
  /\ reports' = reports \cup
       {[run |-> r, type |-> IF mode[r] = "TRACKING" THEN "CHANGE_TRACKING" ELSE "BASELINE"]}
  /\ phase' = [phase EXCEPT ![r] = "summary"]
  /\ UNCHANGED <<facts, current, obs, snaps, changes, status, mode, marker, page,
                 kind, cursor, answer, work, errors, conflict, prev, plan>>

\* finalize_run_summary: the explicit provenance marker of a complete run.
Eligible(r) ==
  /\ ObsOf(r) # {}
  /\ ~errors[r]
  /\ \A s \in Sources : snaps[r][s] = "SUCCESS" /\ page[r][s] = "SUCCEEDED"
  /\ \A o \in ObsOf(r) : o.status \in Accepted

Finalize(r) ==
  /\ phase[r] = "summary"
  /\ marker' = [marker EXCEPT ![r] = IF Eligible(r) THEN "eligible" ELSE "ineligible"]
  /\ phase' = [phase EXCEPT ![r] = "finish"]
  /\ UNCHANGED <<facts, current, obs, snaps, changes, reports, status, mode, page,
                 kind, cursor, answer, work, errors, conflict, prev, plan>>

Complete(r) ==
  /\ phase[r] = "finish"
  /\ status' = [status EXCEPT ![r] = "COMPLETED"]
  /\ phase' = [phase EXCEPT ![r] = "done"]
  /\ UNCHANGED <<facts, current, obs, snaps, changes, reports, mode, marker, page,
                 kind, cursor, answer, work, errors, conflict, prev, plan>>

\* A tool or the agent provider fails, or the tool budget is used up, between
\* two transactions.  A standalone extraction has no such handler.
Fail(r) ==
  /\ r \in Active /\ phase[r] \in FaultPhases /\ kind[r].job # "smoke"
  /\ status' = [status EXCEPT ![r] = "FAILED"]
  /\ phase' = [phase EXCEPT ![r] = "done"]
  /\ UNCHANGED <<facts, current, obs, snaps, changes, reports, mode, marker, page,
                 kind, cursor, answer, work, errors, conflict, prev, plan>>

\* The process is lost, or an exception escapes: the row stays RUNNING.
Crash(r) ==
  /\ r \in Active /\ phase[r] \in FaultPhases
  /\ phase' = [phase EXCEPT ![r] = "dead"]
  /\ UNCHANGED <<rows, kind, cursor, answer, work, errors, conflict, prev, plan>>

Extraction(r) == SkipPage(r) \/ ProviderError(r) \/ Respond(r) \/ Observe(r) \/ ClosePage(r)

Step(r) ==
  \/ Create(r) \/ SelectMode(r) \/ Fetch(r)
  \/ Extraction(r) \/ FinishExtraction(r) \/ FinishStandalone(r)
  \/ PublishPartial(r) \/ Establish(r) \/ EnterHistory(r) \/ LookupHistory(r)
  \/ Compare(r) \/ PersistChanges(r)
  \/ GenerateReport(r) \/ Finalize(r) \/ Complete(r)
  \/ Fail(r) \/ Crash(r)

Next == \E r \in Runs : Step(r)

Spec == Init /\ [][Next]_vars
-----------------------------------------------------------------------------
(* Properties *)

Observation == [run : Runs, fact : DOMAIN facts, source : Sources, snap : Runs,
                status : ObsStatuses]
Change == [run : Runs, key : Keys, type : ChangeTypes,
           old : {0} \cup DOMAIN facts, new : {0} \cup DOMAIN facts]
Answers == [Keys -> Values \cup {None}]

\* Every row and every field of a run's context has its declared range, and
\* each row refers to rows that exist (the foreign keys of 002_fact_history.sql).
TypeOK ==
  /\ facts \in Seq([key : Keys, value : Values, snap : Runs, source : Sources])
  /\ current \subseteq DOMAIN facts
  /\ obs \subseteq Observation
  /\ snaps \in [Runs -> [Sources -> {"none", "SUCCESS", "FAILED"}]]
  /\ changes \subseteq Change
  /\ reports \subseteq [run : Runs, type : FormalReports \cup {"PARTIAL_EVIDENCE"}]
  /\ status \in [Runs -> Statuses]
  /\ mode \in [Runs -> {"UNKNOWN", "BASELINE", "TRACKING"}]
  /\ marker \in [Runs -> {"none", "eligible", "ineligible"}]
  /\ page \in [Runs -> [Sources -> PageStatuses]]
  /\ kind \in [Runs -> Kinds \cup {NoKind}]
  /\ phase \in [Runs -> Phases]
  /\ cursor \in [Runs -> Nat]
  /\ answer \in [Runs -> [Sources -> Answers]]
  /\ work \in [Runs -> [todo : SUBSET Keys, owner : Runs \cup {0}, reused : BOOLEAN, bad : BOOLEAN]]
  /\ errors \in [Runs -> BOOLEAN]
  /\ conflict \in [Runs -> SUBSET (Keys \cup {None})]
  /\ prev \in [Runs -> Runs \cup {0}]
  /\ plan \in [Runs -> SUBSET Change]

\* A version is current only because some run that was not a partial one
\* observed it and had the observation accepted: a PENDING observation is never
\* treated as active, whatever other runs stored, failed or published meanwhile.
ActiveFactsAreAccepted ==
  \A f \in current : \E o \in obs :
    o.fact = f /\ o.status \in Accepted /\ status[o.run] # "PARTIAL_SUCCESS"

\* A partial run publishes its evidence report and nothing else: its
\* observations stay PENDING, it records no change, it is no later baseline.
PartialRunsStayPending ==
  \A r \in Runs : status[r] = "PARTIAL_SUCCESS" =>
    /\ \A o \in ObsOf(r) : o.status = "PENDING"
    /\ \A c \in changes : c.run # r
    /\ {x \in reports : x.run = r} = {[run |-> r, type |-> "PARTIAL_EVIDENCE"]}
    /\ marker[r] # "eligible"

\* The run another one is compared with was complete: every source fetched and
\* extracted without a rejection by a full run, each observation accepted.
ComparedBaselineIsComplete ==
  \A r \in Runs : prev[r] # 0 =>
    LET q == prev[r] IN
    /\ q < r /\ status[q] = "COMPLETED" /\ kind[q].job = "full"
    /\ \A s \in Sources : snaps[q][s] = "SUCCESS" /\ page[q][s] = "SUCCEEDED"
    /\ \A o \in ObsOf(q) : o.status \in Accepted

\* A removal is only recorded when the page that stated the fact was fetched,
\* extracted completely and yielded other facts, and no page of the run states it.
RemovalIsProven ==
  \A c \in changes : c.type = "REMOVED" =>
    /\ \E o \in ObsOf(prev[c.run]) :
         /\ o.fact = c.old
         /\ snaps[c.run][o.source] = "SUCCESS"
         /\ page[c.run][o.source] = "SUCCEEDED"
         /\ answer[c.run][o.source] # NoAnswer
    /\ \A s \in Sources : answer[c.run][s][c.key] = None

\* The changes of a run that got past the comparison describe it and its
\* baseline exactly: one change per identity of either, of the type their
\* observed values imply, although other transactions ran between reading and
\* writing.
ChangesMatchRuns ==
  \A r \in Runs : mode[r] = "TRACKING" /\ phase[r] \in {"report", "summary", "finish"} =>
    LET mine == {c \in changes : c.run = r} IN
    /\ {c.key : c \in mine} = ObsKeys(r) \cup ObsKeys(prev[r])
    /\ \A c, d \in mine : c.key = d.key => c = d
    /\ \A o \in ObsOf(r) : \E c \in mine :
         /\ c.key = KeyOf(o) /\ c.new = o.fact /\ c.type = o.status
         /\ c.type = "MODIFIED" => ValueOf(o) # facts[c.old].value
         /\ c.type = "UNCHANGED" => ValueOf(o) = facts[c.old].value
         /\ c.type = "ADDED" => KeyOf(o) \notin ObsKeys(prev[r])

\* Once a run is over, nothing another run does alters its observations, its
\* changes, its reports, its status or its provenance marker.
Over(r) == phase[r] = "done"
TerminalRunsFrozen ==
  [][\A r \in Runs : Over(r) =>
       /\ Over(r)' /\ status'[r] = status[r] /\ marker'[r] = marker[r]
       /\ {o \in obs' : o.run = r} = ObsOf(r)
       /\ {c \in changes' : c.run = r} = {c \in changes : c.run = r}
       /\ {x \in reports' : x.run = r} = {x \in reports : x.run = r}]_vars

\* An identity loses its last current version only through a run that extracted
\* a page: by a recorded REMOVED change, or by a new baseline.
LossNeedsExtraction ==
  [][\A k \in Keys :
       (\E f \in current : facts[f].key = k) /\ ~(\E f \in current' : facts'[f].key = k)
       => \E r \in Runs :
            /\ phase[r] # phase'[r]
            /\ \E s \in Sources : page[r][s] = "SUCCEEDED"
            /\ \/ mode[r] = "BASELINE"
               \/ \E c \in changes' : c.run = r /\ c.key = k /\ c.type = "REMOVED"]_vars

\* At most one version of an identity is current (the price history asserted in
\* test_fact_history_and_reports.py).
OneCurrentVersion ==
  \A f, g \in current : facts[f].key = facts[g].key => f = g
=============================================================================

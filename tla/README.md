# Verification of the competitor-intelligence agent

TLA+ modules, TLC configurations and TLAPS proofs for `competitive_intel`: a
service that collects the official pages of a competitor, extracts facts from
them, keeps their history in MySQL and publishes reports, driven by a language
model that chooses tools inside a state machine, and started from a web console
or the command line. Paths below are relative to `src/src/competitive_intel/`
unless they start with `README` or `docs`.

## 1. The system

| component | state | operations | hard behaviour | what makes it correct |
|---|---|---|---|---|
| Fact extraction, history, partial results (`services/fact_extraction_service.py`, `fact_history_service.py`, `partial_result_service.py`, `domain/fact_comparison.py`) | `product_facts`, `fact_versions`, `fact_observations`, `changes`, `reports`, the audits kept in `tool_calls` | extract page by page, choose baseline, compare and persist, establish a baseline, publish a partial result | a dozen transactions per run, each visible to other runs; pages that fail; runs that fail between transactions | PENDING facts are never active; incomplete runs are never baselines; absence is no removal unless proven; nothing changes a finished run |
| Agent runner (`services/agent_runner.py`, `agent_tools.py`, `domain/agent.py`) | `agent_runs`, `stage_events`, `tool_calls`; a context in memory | one turn: budgets, provider, checks, record, execute, finish, advance | the provider picks any tool in any order; failures, retries, process loss at each commit | effects follow the plan of the mode, each once; budgets; settled rows are final; every run stops |
| Task budget (`domain/task_budget.py`, `infrastructure/budgeted_transport.py`, `services/research_context.py`) | the ledger of a task in memory and in the rows of up to three nested runs | reserve, checkpoint, snapshot, restore | threads, failing checkpoints, crash between reservation and request | spending is bounded over all processes and recorded before it happens; a denial is final |
| Web task manager (`web/runtime.py`, `api/router.py`) | the set of active keys, a thread pool, one Event per request | start, start_workflow, `_execute` | five-second start timeout racing a slow start; failures before the run id is known | one task per key; slots neither leak nor are given back early; no run stays RUNNING unowned |
| Analysis workflow (`services/analysis_workflow.py`), competitive report (`services/competitive_report_service.py`), competitor discovery | one run row each, the task's ledger | prepare, discover, select, analyse, compare, publish; idempotent by task id | three runs share a ledger and a task id; a repeated request meets a running or failed execution | each task is executed once, its budget is one, what it publishes matches its scope |
| Fact providers (`infrastructure/facts/`), page fetching and snapshots (`snapshot_service.py`, `infrastructure/http/`) | one snapshot row per source and run, counters of calls, the record of each page | fetch every source, ask the model per page, check every fact of the answer, retry | retries of paid calls, redirects, answers that repeat or contradict themselves, limits that stop in the middle | what a page states is stored or on record as contested; the outcome of a run says what was left out; no paid request is repeated |
| Schema, quotes, keys and canonical values of facts (`domain/fact_schema.py`, `evidence.py`, `fact_normalization.py`, `fact_comparison.py`, `fact_conflicts.py`) | none | validate, support, identify, canonicalize, clip | equal values spelt differently; records cut to a length | equal values are recognised, nothing unsupported is stored |
| Source discovery and domain checks (`services/source_discovery_service.py`, `domain/source_discovery.py`, `domain/official_*.py`), search (`infrastructure/search/`) | `competitors.official_domain`, `sources`; candidates and pages in memory | query, group, read identity pages, select a site, plan and read pages, save | results that only look official, redirects to other sites, two calls at once, a call that stops between two of its saves | only pages of the official site are saved; the profile's domain belongs to one of them; every call ends |
| Narrative and analytical writers, matrix and report text (`infrastructure/agent/`, `domain/report_writing.py`, ...) | an attempt file | one paid call | crash between file and call | at most one attempt |
| Schema migration (`persistence/schema.py`, `migrations/`) | `schema_migrations` | apply | DDL commits on its own | a restart completes an interrupted migration |
| Pages and read endpoints (`web/app.py`, `api/`, static files) | none | queries | - | - |

Discovery writes the sources that the refresh of a run reads; the facts that pass the
provider's checks are what the history compares. The web manager starts a runner (or a workflow, which starts a discovery run,
runners and a comparison run) on a thread of its pool. A runner calls the tools;
the extraction, history and report tools call the services of the first row, each
in transactions of its own. Every paid call goes through a transport that
reserves in the ledger of the task; the ledger is saved in the tool-call rows of
the workflow and of the runs inside it. Command-line entry points call the runner
and the extraction service directly, so two runs of one competitor can overlap
whatever the web manager admits. Runs communicate only through the database.

## 2. The modules

**`FactHistory`** models the first row: the rows of one competitor and the context
of every run. One action is one transaction (or one provider answer), named for
the code that commits it:

| action | code |
|---|---|
| `Create`, `SelectMode`, `Fetch` | run row; `_get_profile` and the choice of mode; `_refresh_sources` |
| `SkipPage`, `ProviderError`, `Respond`, `Observe`, `ClosePage` | the page loop of `FactExtractionService.extract`, one `Observe` per candidate |
| `FinishExtraction`, `FinishStandalone` | the end of `extract` inside a run of the agent and as a run of its own |
| `PublishPartial` | `PartialResultService.complete` |
| `Establish`, `EnterHistory`, `LookupHistory`, `Compare`, `PersistChanges` | `establish_baseline`, `get_previous_successful_with_facts`, the two transactions of `compare_and_persist` |
| `GenerateReport`, `Finalize`, `Complete`, `Fail`, `Crash` | report, provenance marker, terminal status, `_fail`, loss of the process |

A fact identity is a member of `Keys`, a business value a member of `Values`;
`facts` lists the versions in auto-increment order with the snapshot each was read
from, `current` those with `is_current`. A page answers with one value or none per
identity; the model provider may reject some (`bad`), or all of an identity stated
twice with different values (`clash`). `kind` says which provider a run uses and
whether it is a full run, one that skips extraction, or a standalone extraction.

**`AgentRunner`** models one `run()`: every commit, answer and failure is an action,
and the transitions `_advance_after_tool` makes after a tool are a `route` it
follows commit by commit, so a crash or a failure can fall between any two.
`effects` is the sequence of durable results of the tools; their contents are the
business of `FactHistory`. **`RunLifecycle`** is the abstract run, as the pages and
other runs see it: RUNNING until it settles once, calls within budget, a formal
report before COMPLETED, a partial report together with PARTIAL_SUCCESS.
`AgentRunner` implements it (`ImplementsLifecycle`: used calls are the rows of
`calls`, the report is what `effects` holds).

**`TaskBudget`** models the ledger: `reserve` split at its lock, its two writes and
each row its checkpoint saves; the chain of rows (`Attach`, `Detach`); process loss
and `from_trusted_state`. A request is a charge of several resources at once.

**`AnalysisTaskManager`** models the manager: the critical section of `start` and
`start_workflow`, the submission, the answer or the timeout of the waiting handler,
and `_execute` on the pool with a failure at each step.

**`CompetitiveReport`** models `CompetitiveReportService.run` under concurrent
callers: an analysis workflow that compares, and requests to write
(`POST /api/analyst/saved-writing`), whose clients choose the task id and may repeat
it. The claim is three actions (`LockTarget`, then `Insert` or `Reuse` or `Refuse`,
then `CommitClaim`), because other claims fall between them; `Build`, `OpenAttempt`,
`Pay`, `SendNothing` are the matrix, the attempt file, the one paid request and the
ways not to make it; `Publish` and `RecordFailure` are the two transactions a claim can
end with. Each commit has a `Lose...` twin, in which the caller is told of a failure
whether or not the commit took effect. `get_comparison_task` is taken to see every row
committed before the target's lock was granted: the read of `information_schema`
before it is not taken to open a read view of the transaction. `Writers` have a report
writer, `Clients` are those of them whose client chose the id; a workflow may have a
writer of its own (`api/analysis_workflow.py:53-58`), but its id is always new.

**`AnalysisWorkflow`** EXTENDS it and models one workflow: `prepare`, the phases of
`execute`, the run of a discovery, the run of each product, and the comparison, whose
caller `Flow` is the workflow. What is collected for a product is reduced to its row
(`research`): not verified, verified but without profile id, run id or committed run,
RUNNING, or settled. `Deny` is the ledger refusing a request made between two commits;
`Raise` a failure that the handler of `execute` takes. `Unfolded` are the names that
`run` refuses because their casefold is not the normalized name of their profile.
`lost` records which child could not commit its last transaction.

**`PageFetching`** is what `RequestsFetcher.fetch` makes of the answers of a site:
`Serve[u]` are the answers a URL may give, `Followed` the redirects `PublicSession`
takes, `StatusOf` the status of each kind of final answer, `Fetched[u]` the pages that
fetching `u` can give. It has no variables; the next two modules EXTEND it.

**`SourceDiscovery`** models `discover` for several calls of one competitor. `call[d]`
is what a call has in memory; `profile` and `sources` are its rows. One action is one
request, one transaction step or one decision:

| action | code |
|---|---|
| `Search`, `SearchAgain`, `SearchFails` | `SerperSearchProvider.search`, one request each, and the loop over the intents |
| `Group`, `ReadIdentity` | candidates by site, the pages read to tell whose site it is, `validate_official_source` |
| `Decide`, `ChooseHome` | `aggregate_domain_evidence`, `select_official_domain`, the expected domain, the page that stands for the site |
| `Plan`, `Supplement`, `EndPlan` | `discover_sources`: candidates for each type, supplemental searches |
| `ReadOption`, `LeaveType`, `ChoosePage` | the loop over the candidates of a type |
| `ReadProfile`, `Commit`, `CommitRaises`, `SaveFails` | `_save_verified`: its reads, its commit, a unique key that another call took meanwhile, a lost connection |

URLs and hosts are numbers in alphabetical order, because ties are broken by it. Search
answers with addresses, `Links`, of which `Normal` is the normalized URL; pages are
fetched at the address, here at its URL, which names the same page.
What a page tells of its owner is a set of `Signals` and its `canonical` link; scores are
counted as in `aggregate_domain_evidence`, in quarters, from what the instance says of a
URL: `TypicalPaths` and `Topical` for these scores, `Verbatim` where the name must occur
letter by letter, `Branded` where its compact form is enough. The queries, the parsing
of HTML and the audits of a call are left out.

**`FactEvidence`** holds the pure part: when a fact of an answer is accepted (`Conforms`
to the page's schema, `Grounded` in its quote, `Confirmed` by `EvidenceChecker`), its
`Key`, its `Canonical` value, and `Scan`, the loop over the facts of an answer. A text
is a sequence of pieces, the units in which the instance cuts pages and answers;
NFKC and casefold of a piece is `Lower`. Amounts keep their decimals, because
`Decimal.normalize` drops zeros that a quote may show; `Spellings` are the forms in which a
currency or a date may be quoted. `Clipped` is what an audit keeps of a fact.

**`FactIntake`** models one run of a model provider from its sources to its outcome:
`FetchPage` (`SnapshotService.process`), the page loop of `FactExtractionService`
(`SkipPage`, `StopAtLimit`, `TooLong`, `Reuse`, `Ask`), the request loop of
`LLMFactExtractionProvider.extract` (`Retry`, `GiveUp`, `CallLimit`, `Denied`,
`Answered`) and the end (`Complete`, `Publish`). `Close` is what the service makes of
the facts of one page. Which version of a fact they become is the business of
`FactHistory`, which takes the answer for a page as a choice; here it is computed.
`Settings` are limits as the console and the research tasks set them, in small. `Before` is
the text the last earlier run fetched, with which a snapshot is compared; `Earlier` are all
of them, since `get_cached_page` finds an answer by content however old the run is.

`MC<Module>` instantiates each for TLC. `<Module>Proofs` holds theorems, and
`AnalysisWorkflowProofs` those of `CompetitiveReport` too, on which its own stand. A
definition introduced by "Mutant of" is not part of a specification: it is a
plausible mistake, used to show that a property would notice it.

## 3. What the runs show

| run | question | instance |
|---|---|---|
| `FactHistory_conflicts` | Do partial runs stay without effect, and does a comparison record exactly what it read? (`PartialRunsStayPending`, `ChangesMatchRuns`) | 2 runs of the model provider one after the other (overlap is the business of `ChangesAreExact`, section 4), 2 identities, 2 values, 2 pages that share an identity |
| `FactHistory_overlap` | Is every current version accepted, every baseline complete, every removal proven and every finished run untouched? (`ActiveFactsAreAccepted`, `ComparedBaselineIsComplete`, `RemovalIsProven`, `TerminalRunsFrozen`) | 3 runs, 2 at once, full and standalone, 1 page, 2 values |
| `AgentRunner` | The runner under every provider: `CallsWithinBudget`, `OpenRowsBelongToRunningRuns`, `EffectsFollowMode`, `SettledRowsAreFinal`, `ImplementsLifecycle`, `Termination` | 7 calls, 2 provider calls per state, 2 equal calls; refresh and report may fail retryably |
| `TaskBudget` | `SpendingIsBounded`, `SpendingIsRecorded`, `DenialIsFinal` | 2 threads, 3 rows, 3 resources, 2 kinds of request that compete for the same ceiling |
| `AnalysisTaskManager` | `OneTaskPerKey`, `SlotsAreHeld`, `RunsAreOwned`, `SlotsReturn` | 2 requests with one key, 2 workflows, 2 workers, every fault |
| `CompetitiveReport` | `OneExecutionPerTarget`, `PaidOnce`, `AnswersAgree`, `ClaimsAreOwned` | a workflow, 2 writers, 2 task ids, 2 scopes of one target and 1 of another |
| `AnalysisWorkflow` | `CompleteMeansComplete`, `ChildrenSettle`, `WorkflowEnds` | a workflow with a writer of its own, a target and 3 possible competitors, one of them with a name `run` refuses |
| `SourceDiscovery` | `RowsAreOfficial`, `ProfileIsBacked`, `DiscoveriesEnd` | 2 calls with different limits, one with an expected domain; 9 addresses of 7 URLs of 3 sites on 5 hosts, redirects in and out of the official site |
| `FactIntake` | `FactsAreAccountedFor`, `OutcomeIsHonest`, `CostIsNeverRepeated`; that a run always comes to an end (deadlock) | 3 sources, 4 texts, up to 5 answers for each, 3 settings of the limits, earlier runs that left answers for one text, two or none |

Three runs end in a counterexample on purpose; each states what a document or a
test says, and is described under "findings" in `PROJECT.json`:

| run | what happens |
|---|---|
| `FactHistory_one_current` | Three complete runs leave two current versions of an identity: an UNCOMPARABLE version stays current, is missing from the next baseline, and comes back as ADDED with another value; activation of an ADDED change closes nothing. |
| `FactHistory_skip` (`LossNeedsExtraction`) | A run that skips extraction and has no baseline of its provider closes every current version, as it observed none. |
| `AgentRunner_ends` (`EndsDeterministically`) | `get_competitor_report` is allowed in RUN_SUMMARY but has no transition: the exception escapes `run()` and leaves its row RUNNING: for good when the run was started from the command line, until `_execute` marks it FAILED when by the console. |

Other behaviour a reader may not expect, which the modules have and no run is about:

* A run that fails after `establish_baseline` or `compare_and_persist` keeps what it
  activated; `docs/stage-9.1.3-integrity-design.md:58-59` says its observations stay
  PENDING. (`FactHistory`, `Fail`.)
* The active key keeps a leading command (`names.py:14-28`) that the runner strips
  (`agent_runner.py:698-705`): one competitor can be analysed twice at once.
* The anchor of a homepage can be its PRICING candidate
  (`domain/source_discovery.py:57-67`), and saving it overwrites the HOMEPAGE row of the
  same address, whose type is lost (`SourceDiscovery`, `Saved`).
* The first hit of a supplemental search raises `KeyError`: `candidates` is then the
  plain dictionary of `scored.get` (`domain/source_discovery.py:95,113`). What the call
  saved before stays; the homepage is only saved later, so nothing is.
* `discover` promotes the most confident page of the selected site, also one whose
  page could not be read (`source_discovery_service.py:187-201`, against
  `official_validation.py:74`): a homepage that is a shell is saved as VERIFIED.
* `competitors.official_domain` is first the registrable domain and then the host of the
  page saved last. Rows of an earlier official domain stay VERIFIED.
* The limit of candidate URLs is checked after an insertion, so each later intent adds
  one more (`Taken`). A first discovery that two processes make at once ends in a
  duplicate key for one of them (`CommitRaises`).
* A price quoted with a zero at its end (`$12.50`) is refused: `normalize_fact` makes
  it 12.5, and the pattern of `evidence.py:56-59` does not find that in the quote
  (`AmountFound`).
* A contested key longer than its record (160 characters in the provider, 180 in the
  service) is not left out of a partial report, and a text longer than the 1000
  characters of an audit value comes back shortened when an unchanged page is reused
  (`agent_runner.py:694-695`). Two texts may be cut to one, so that the second fact of a
  reused page is skipped as a duplicate of the first. The properties of `FactIntake` say
  which facts they are about (`Legible`).

### Bounds, and why they are enough

*FactHistory.* A hazard needs a run that stores, a run that is compared with it and,
for `OneCurrentVersion` and the overlap, a third one; two values tell changed from
unchanged; two pages, one of which states both identities, give clashes within and
between pages, and sources that fail apart. Overlap is limited to two of three
runs. Failures and crashes are possible in every phase the code has
(`FaultPhases = AllPhases`); the two passing configurations use three phases
(between two candidates, between reading and writing a comparison, between
activation and report), where the database is between states, to stay within
minutes. Values are only compared for equality, so the configurations
use symmetry over them. The same configurations with `AllPhases` and without
symmetry were checked once, with 6.3 and 8.1 million states, and pass as well.

*AgentRunner.* Seven calls are exactly those of the longest plan, so that the
budget runs out in every state, and are more than a state allows; two equal calls
make one retry. One argument object per tool is enough because arguments matter
only to the duplicate counter. Every loop consumes a budget, the state space is
finite without a constraint.

*TaskBudget.* Limits of one or two units put every reservation at a boundary.
Three rows are the workflow, its discovery run and its comparison run.

*AnalysisTaskManager.* Two slots and four requests exercise the capacity and the
key, and a second request can arrive at any step of the first.

*CompetitiveReport.* Two writers race for one id in every order, a workflow competes
with them for the lock; two scopes of one target differ in what is asked, the third
in the lock it needs. Two claims for one id need two targets: `OneExecutionPerTarget`
is what the lock gives, and not one execution per id, which
`docs/mvp-report-delivery.md:55-56` reads as if it gave. Callers, ids, and scopes of
one target are interchangeable, which the configuration uses.

*AnalysisWorkflow.* Two competitors are the most the code handles; of the three a
discovery may choose from, two can be compared, so a report is also COMPLETE when the
competitors were found and not given. The workflow is
the only caller: others reach it through the lock alone, which the run above covers.

*SourceDiscovery.* The two calls differ in every limit: one has room for several
pages per site and per type and a supplemental search, the other stops at the first
and expects the site. The web has a site with two hosts, a rival whose homepage may
redirect to it, a page that may redirect to the rival, a store that is refused by name,
and a homepage that is denied, links its pages, or has its prices on itself. Search knows
it by an address with a campaign, and gives one address without a host. Every
number of a limit is reached. Requests that are repeated are bounded by `attempts`.

*FactIntake.* Two pages state one feature with the same value or another, in one
answer and in two, and one of them shows the text of the last run or an older one; one
key is longer than a record, one text longer than an audit keeps; amounts end in a zero or not, with a currency or without. The settings reach each limit: pages, calls of the
extraction, characters, facts, requests, retries and reservations. Redirects are
bounded by 3 answers there and by the code's 6 in `SourceDiscovery`.

### Fairness

`Termination` assumes weak fairness of the runner's next step: `run()` is one thread,
the provider and every tool return or raise (their transports have timeouts).
`Crash` carries no fairness. `SlotsReturn` assumes that a pool thread goes on with
the task it took and that a waiting handler is answered or times out: threads of
`ThreadPoolExecutor`, `Event.wait(timeout=5)`. A task in the queue is taken because
the manager admits no more tasks than the pool has threads, which `SlotsAreHeld`
checks. `WorkflowEnds` assumes weak fairness of `Execute` and of `RunStep`, the code of
one thread; `Crash` and `Deny` have none, and what ends a phase is the code's choice.
`DiscoveriesEnd` assumes weak fairness of `Step(d)`, the code of one call, which waits
for nothing but requests with timeouts; `SaveFails` and `Crash` have none. `FactIntake`
has no fairness: that nothing stops half way is the deadlock check.
The other modules need no fairness: their properties are safety.

## 4. What is proved

Each theorem holds for every value of the constants allowed by the named
assumption of its module (`HistoryAssumption`, `RunnerAssumption`,
`BudgetAssumption`, `ManagerAssumption`, `ReportAssumption`, `WorkflowAssumption`,
`IntakeAssumption`): naturals for bounds, subsets and functions of the declared sets;
nothing is assumed of the code. Those of `FetchingAssumption` and `IntakeAssumption`
say of the sites that their answers are answers, with texts the instance names.

* **Fact history.** For any number of runs, overlapping or not, of sources,
  identities and values, and failures in any phases. `TypeCorrect` carries three facts
  that typing needs: an open page has a snapshot and candidates with values
  (`OpenPage`), a comparison has a run to compare with (`Compared`), and a change has
  a new version unless it ends the identity (`PlanShape`). `Framed` shows of each
  transaction that it leaves the rows of every other run alone, from which
  `FinishedRunsFrozen` proves `TerminalRunsFrozen`. `PartialIsInert` proves
  `PartialRunsStayPending` from `Quiet`, what holds of a run before it is judged: it
  is RUNNING, and until the phase that activates it has PENDING observations and no
  change, report or marker. `ActiveIsAccepted` proves `ActiveFactsAreAccepted`: an
  accepted observation is never made pending again (`AcceptedStays`), and what a
  transaction makes current it accepts in the same transaction; for the writing half
  of a comparison that is only true because the plan made in the reading half has the
  run's own observations (`PlanObserved`), which no other run can take away.
  `BaselineIsComplete` proves `ComparedBaselineIsComplete`: the eligible marker is only
  set on a full run that was whole (`Provenance`), and the run looked up is over, so it
  is still whole when it is compared with (`Looked`). `RemovalsProven` proves
  `RemovalIsProven` from what extraction leaves behind (`Answered`): a candidate is
  observed unless its page is open or was marked as bad, and a run that got past
  `needs_partial` has no such page. `ChangesAreExact` proves `ChangesMatchRuns`: a run
  observes an identity once, so the plan has one change for each (`Matches`); that
  stays true until the writing transaction because versions are only ever added
  (`FactsGrow`) and neither side of the comparison moves (`EvidenceStays`).
* **Agent runner.** `TypeCorrect` carries `HandledCall` along: while a call is
  recorded, executed and judged it is one of the registered tools, which typing the
  duplicate counter needs. `BudgetSafe` proves `CallsWithinBudget` from the
  inductive `ChargedCalls`: a call is counted before its row is written, so the
  counter is ahead of the rows by exactly one between the two (`reject`, `record`),
  and the provider is only asked below the limit. `SettledIsFinal` proves
  `SettledRowsAreFinal`: a settled status implies that the run has stopped, which no
  action but the first leaves. `OpenRowsOwned` proves `OpenRowsBelongToRunningRuns`: the
  attempt of a row is at most the number of rows of its stage (`Numbered`), and each
  transition goes up in rank (`Paced`), so no stage gets to its tenth attempt. `Implements` proves the refinement `ImplementsLifecycle`:
  with what the stages of the abstract run read off the concrete one (`Controlled`,
  `ReportBehind`: a run past its report has one, and no other has), every step of the
  runner is a step of `RunLifecycle` or a stutter. `EffectsOrdered` proves
  `EffectsFollowMode`. The property speaks of the effects alone and is far from
  inductive; `Planned` ties them to the place of the run: a mode has a `Way`, the state
  each of its effects is made in, and wherever the run is, its state says how many it has
  made (`At`). Between a tool and the judgement of its call there is one more (`Acted`),
  and on the way to the next state the route that is left must end where the next
  effect is made (`Leads`); a baseline is established on such a route (`BaselineWay`).
  A retry, a repeated or a refused call goes back to the same state with as many effects.
* **Task budget.** `TypeCorrect` includes `Locked`: only the holder of the lock is
  inside `reserve`. `BudgetSafe` needs `Within` (what is used, what is stored in any
  row, and used plus a reservation in progress are within the limits) and `Recorded`
  (what was let through is at most what is used, what each row of the chain says, and
  what the outermost row says): after a crash the ledger restarts from that row, so
  a bound on `used` alone is not inductive. `RecordedBeforeSent` follows from
  `Recorded`. `DenialStands` uses `Latched`: a live process whose outermost row
  records a denial has the latch set, and no thread is past the check while it is.
* **Task manager.** `OneTask` proves `OneTaskPerKey` from `HeldOnce`: a request that
  holds a slot (about to submit, or with a live task) has its key in the active set,
  and no two of them have the same. Without the request about to submit, the step
  that queues the task would not preserve it. `SlotsHeld` proves `SlotsAreHeld`: distinct
  keys make holders no more than slots (`Bounded`), so a queued task finds a thread.
  `RunsOwned` proves `RunsAreOwned` from what each place of a task says of its row (`Owned`).
* **Competitive report.** `OneExecution` proves `OneExecutionPerTarget`: a claim under
  way holds the lock of its target (`Held`), and nobody else has a visible execution
  of its task and target (`Hidden`), so that two claims that could disturb each other
  are never under way together. `Paid` proves `PaidOnce` from what a payment leaves
  behind: an attempt file, or the workflow that made it (`Spent`); no other caller has
  the id of a workflow (`OwnTasks`), and between creating its file and paying a writer
  is alone with its task (`Sending`), whatever claims there are. `ClaimsOwned` proves
  `ClaimsAreOwned`, which is inductive with the types. `Agree` proves `AnswersAgree`: an
  answer fits its question (`Fits`), rows never change task or scope (`RowsGrow`), and by
  `OneExecution` two answers to one question cannot name two rows.
* **Analysis workflow.** The theorems stand on those about `run`, of which the workflow is one
  caller: every step of the composition is a step of `CompetitiveReport` or leaves it
  alone (`ReportsTyped`). `FlowTypeCorrect` is its type invariant. `FlowInv` adds what the workflow knows of its one execution
  (`OwnExecution`), that comparison starts when all else is settled and a report is only
  COMPLETE when everything before it was (`Ordered`), and that what is left RUNNING was lost,
  with a verdict FAILED (`Settled`). `Complete` proves `CompleteMeansComplete` along that
  chain, from the root row to the verdict, the answer, the stored report and the matrix;
  `ChildrenSettled` proves `ChildrenSettle`.
* **Source discovery.** `OfficialRows` proves `RowsAreOfficial` for any number of calls,
  whatever search and sites answer: `Sound` says of the memory of a call which of its
  pages were checked against the official site, which is decided once (`Advances`).
  `ProfileBacked` proves `ProfileIsBacked`. `UsableIs` is what the order of search
  results amounts to, for any answer: rows are placed by counting those ahead of them,
  and every place has one row (`Positions`), so an address is left out only at the limit and
  behind the others. `TypeCorrect` proves `TypeOK`: what is collected stays within the
  URLs, and a candidate's page within the pages read (`Collected`), and each phase finds
  what it relies on (`Ready`), down to the row that is written. A page that is read is
  one by `FetchedTyped`.
* **Page fetching.** `FetchedTyped`, for any sites: by induction on the answers that are
  left, a fetch ends at a known URL or is lost (`FollowedTyped`), whatever circle its
  redirects make, and its text is that of an answer or none.
* **Fact intake.** `ScanCorrect` relates the provider's loop over an answer to `Said`,
  `Disputed` and what it keeps, sets that know no order: for an answer of any length,
  with duplicates, contradictions and invalid facts anywhere. `Evidenced` is the
  invariant of the run: what a page states is stored, contested or shadowed by a
  recorded clash (`Settled`); the memory of identities is that of the observations
  (`Remembered`), which rest on the answer for their page (`Backed`); and while there was
  no error every page was read and supported in whole (`Unbroken`), which is what a
  complete run claims. `TypeCorrect`, `FactsAccounted` and `OutcomeHonest` prove
  `TypeOK`, `FactsAreAccountedFor` and `OutcomeIsHonest` from it, for audits and records
  of any width: the last two speak of `Legible` facts, which no cut can give another
  identity, and of conflicts whose records hold their key. What a cut leaves is `CutIs`;
  `PlainIsTheNumber` is what the canonical form of an amount tells apart, and
  `AcceptedIsOnThePage` that the check of a quote is one of the page, for texts of any
  length. `Economical` proves `CostIsNeverRepeated`: nothing is sent for a page
  before its turn (`Turns`), in its turn only busy answers came back (`Bills`), and the
  requests of all pages, counted as a set, are within reservations and calls (`Ledger`).

Induction here is by the least number that would not do (`LeastNatural`, `Upwards` in
`PageFetchingProofs`), on functions defined by recursion over a count: the redirects of
a fetch (`Followed`), the facts of an answer (`Scan`) and the length of a text. The induction theorems of the
library take the claim as an operator, which the provers cannot instantiate.

Only model-checked: liveness (`Termination`, `SlotsReturn`, `WorkflowEnds`,
`DiscoveriesEnd`), which needs fairness and ENABLED. The three properties the code
violates have no theorem. The scores of `SourceDiscovery` and the keys of `FactEvidence` enter the theorems as they
are, for what they compute, without a theorem of their own; `AcceptedIsOnThePage` takes
the shape of a fact as given, which `shape` stands for in the model.

## 5. What is not modelled, and the plan

Not modelled:

* Text: reports, prompts, diagnostics, the wording of evidence, the static pages, the
  tables of the matrix. A conversion that a property depends on is modelled by what it
  does to the values that matter: keys, canonical values, excerpts, scores, redirects.
* `content_cleaner.py` and the address policy of `public_session.py`: what is left of a page is
  a text of the instance, and a refused address an answer that is `invalid`.
* Identification, nomination and grounding of competitors in `competitor_discovery.py`,
  and the prompts of task understanding: `AnalysisWorkflow` takes their outcome as a
  choice, since nothing they do is stored before it.
* `persistence/schema.py` and the migrations: a list of statements that are applied
  once. What a second application of a statement does after a crash is decided by
  MySQL and by the statement's `IF NOT EXISTS`, which a model could only repeat.
* The command line (`cli.py`, `scripts/`) and the read endpoints: entry points and
  queries; that the first bypass the task manager is why runs overlap in `FactHistory`.
* Time, and ids other than their order.

Written, in this order: (1) `FactHistory`, the behaviour everything else serves;
(2) `AgentRunner` with `RunLifecycle`; (3) `TaskBudget`; (4) `AnalysisTaskManager`;
(5) `CompetitiveReport`, and `AnalysisWorkflow` composed with it; (6) `PageFetching` and
`SourceDiscovery`; (7) `FactEvidence` and `FactIntake`. What could follow:

1. Lemmas about the scores of `SourceDiscovery`: that at most one site is selected, and
   that the options of a type are as many as `perType`.
2. The selection of competitors as operators, and a second competitor in `FactHistory`,
   for the tools that look a profile up by the name in their arguments.

Hazards without a property, and why, are in `PROJECT.json` under "hazards".

----------------------------- MODULE FactIntake -----------------------------
(***************************************************************************)
(* What one run of a model provider takes from its sources: SnapshotService *)
(* fetches every page, FactExtractionService asks the model about each,     *)
(* LLMFactExtractionProvider sends the paid requests and takes the answers  *)
(* apart, and AgentRunner decides whether the result is complete, published *)
(* as partial evidence, or a failure.  FactHistory models what becomes of   *)
(* the stored facts; here it is which facts are stored, and why.            *)
(***************************************************************************)
EXTENDS PageFetching, FactEvidence

CONSTANTS
  N,           \* verified sources, numbered in the order of list_verified
  TypeOf,      \* type of a source
  UrlOf,       \* URL of a source
  Content,     \* text of a page: the pieces of each clean content
  Before,      \* text of the last successful snapshot of earlier runs, 0 for none
  Earlier,     \* all texts that earlier runs fetched from a source
  ModelAnswers, \* of a text: the answers the model may give, sequences of facts
  Settings,    \* limits of extraction and provider
  ProviderCut, \* characters of a contested identity the provider records: 160
  SourceCut,   \* and the extraction service: 180
  AuditCut     \* characters of any text of an audit: 1000

Sources == 1 .. N
Limits == {"pages", "asks", "facts", "input", "calls", "retries", "reservations"}

ASSUME IntakeAssumption ==
  /\ N \in Nat \ {0} /\ TypeOf \in [Sources -> DOMAIN PageCategories] /\ UrlOf \in [Sources -> Urls]
  /\ 0 \notin DOMAIN Content
  /\ \A t \in DOMAIN Content : Content[t] \in Seq(Pieces) \ {<< >>}
  /\ \A u \in Urls : \A a \in Serve[u] : a.text \in DOMAIN Content \cup {0}
  /\ Before \in [Sources -> DOMAIN Content \cup {0}] /\ DOMAIN ModelAnswers = DOMAIN Content
  /\ Earlier \in [Sources -> SUBSET DOMAIN Content]
  /\ \A s \in Sources : IF Before[s] = 0 THEN Earlier[s] = {} ELSE Before[s] \in Earlier[s]
  /\ \A t \in DOMAIN Content : \A a \in ModelAnswers[t] : a \in Seq({a[i] : i \in DOMAIN a})
  /\ Settings \subseteq [Limits -> Nat]

VARIABLES
  limits,     \* settings of the run
  phase,      \* "fetch", "extract", "ask", or how it ended
  at,         \* source whose turn it is
  snapshots,  \* of this run, by source
  cache,      \* by source: the pages earlier runs completed, their texts and answers
  asks,       \* pages extraction took to the provider
  calls,      \* requests the provider counts
  requests,   \* by source: outcomes of the requests that were sent
  replies,    \* by source: the answer that was taken apart
  audits,     \* by source: what extraction recorded of the page
  seen,       \* identities of this run and their canonical values
  observed,   \* observations stored
  errors,     \* whether extraction reports an error
  published   \* facts of a partial report
vars == <<limits, phase, at, snapshots, cache, asks, calls, requests, replies, audits, seen,
          observed, errors, published>>
-----------------------------------------------------------------------------
\* SnapshotService: the page is cleaned, an empty one has failed, and its status compares
\* it with the last success of other runs.  A page of another content type is one more that
\* was not fetched.
Snapshot(s, e) ==
  LET good == e.status = "SUCCESS" /\ e.text # 0
  IN  [good |-> good, text |-> IF good THEN e.text ELSE 0,
       change |-> IF ~good THEN IF e.status = "JS_UNSUPPORTED" THEN "JS_UNSUPPORTED" ELSE "FETCH_FAILED"
                  ELSE IF Before[s] = 0 THEN "BASELINE"
                  ELSE IF Before[s] = e.text THEN "UNCHANGED" ELSE "PAGE_CHANGED"]

\* Pages earlier runs may have left: whole answers, nothing refused, nothing contested, and
\* for each text the newest.
Whole(answer, s, text) ==
  LET scan == Scan(answer, Content[text], TypeOf[s])
  IN  scan.refused = {} /\ scan.contested = {}
Cacheable(s) == UNION {{[text |-> t, answer |-> a] : a \in {x \in ModelAnswers[t] : Whole(x, s, t)}} :
                         t \in Earlier[s]}
Caches(s) == {c \in SUBSET Cacheable(s) : \A p, q \in c : p.text = q.text => p = q}

Init ==
  /\ limits \in Settings
  /\ phase = "fetch" /\ at = 1 /\ asks = 0 /\ calls = 0 /\ errors = FALSE
  /\ cache \in [Sources -> UNION {Caches(s) : s \in Sources}]
  /\ \A s \in Sources : cache[s] \in Caches(s)
  /\ snapshots = << >> /\ audits = << >> /\ seen = << >> /\ observed = {} /\ published = {}
  /\ requests = [s \in Sources |-> << >>] /\ replies = [s \in Sources |-> {}]
-----------------------------------------------------------------------------
\* AgentToolExecutor._refresh_sources: every source, whatever became of the others.
FetchPage ==
  /\ phase = "fetch" /\ at <= N
  /\ \E e \in Fetched[UrlOf[at]] : snapshots' = Append(snapshots, Snapshot(at, e))
  /\ at' = at + 1
  /\ UNCHANGED <<limits, phase, cache, asks, calls, requests, replies, audits, seen, observed,
                 errors, published>>

EndFetch ==
  /\ phase = "fetch" /\ at > N
  /\ phase' = IF \E s \in Sources : snapshots[s].good THEN "extract" ELSE "failed"
  /\ at' = 1 /\ errors' = (N > limits.pages)
  /\ UNCHANGED <<limits, snapshots, cache, asks, calls, requests, replies, audits, seen,
                 observed, published>>
-----------------------------------------------------------------------------
Processed == {s \in Sources : s <= limits.pages}
Turn == phase = "extract" /\ at \in Processed
Text == Content[snapshots[at].text]

\* A page without a successful snapshot of this run.
SkipPage ==
  /\ Turn /\ ~snapshots[at].good
  /\ at' = at + 1 /\ errors' = TRUE
  /\ UNCHANGED <<limits, phase, snapshots, cache, asks, calls, requests, replies, audits, seen,
                 observed, published>>

\* Mutant of AtLimit: one page too many.
AtLimitLate == asks > limits.asks
AtLimit == asks >= limits.asks

\* The rest of the pages is left.
StopAtLimit ==
  /\ Turn /\ snapshots[at].good /\ AtLimit
  /\ at' = N + 1 /\ errors' = TRUE
  /\ UNCHANGED <<limits, phase, snapshots, cache, asks, calls, requests, replies, audits, seen,
                 observed, published>>

Open == Turn /\ snapshots[at].good /\ ~AtLimit /\ asks' = asks + 1
TooLong ==
  /\ Open /\ Length(Text) > limits.input
  /\ at' = at + 1 /\ errors' = TRUE
  /\ UNCHANGED <<limits, phase, snapshots, cache, calls, requests, replies, audits, seen,
                 observed, published>>

\* get_cached_page and its checks: the same source, address and content.
Cached == {p \in cache[at] : p.text = snapshots[at].text}

\* What the service makes of the facts of a page: it checks each again, keeps those of new
\* identities and takes one with another value than an earlier page for a conflict.  Facts that
\* an audit cut may share an identity: one of them is kept.
Close(facts, refused, contested, error) ==
  LET good  == {f \in facts : Confirmed(f, Text)}
      clash == {f \in good : Key(f) \in DOMAIN seen /\ seen[Key(f)] # Canonical(f)}
      new   == {CHOOSE f \in good : Key(f) = k : k \in {Key(f) : f \in good} \ DOMAIN seen}
      bad   == refused \/ contested # {} \/ good # facts \/ clash # {}
      status == IF bad THEN IF new # {} THEN "PARTIAL_ERROR" ELSE "FAILED"
                ELSE IF error THEN "FAILED" ELSE IF facts = {} THEN "NO_FACTS" ELSE "SUCCEEDED"
  IN  /\ observed' = observed \cup {[source |-> at, fact |-> f] : f \in new}
      /\ seen' = [k \in DOMAIN seen \cup {Key(f) : f \in new} |->
                    IF k \in DOMAIN seen THEN seen[k]
                    ELSE Canonical(CHOOSE f \in new : Key(f) = k)]
      /\ audits' = [s \in DOMAIN audits \cup {at} |-> IF s # at THEN audits[s] ELSE
           [status   |-> status,
            rejected |-> {Excerpt(k, ProviderCut) : k \in contested},
            clashes  |-> {Excerpt(Key(f), SourceCut) : f \in clash}]]
      /\ errors' = (errors \/ error \/ bad)
      /\ at' = at + 1 /\ phase' = "extract"

Reuse ==
  /\ Open /\ Length(Text) <= limits.input
  /\ \E p \in Cached :
       /\ Close({Clipped(f, AuditCut) : f \in Kept(p.answer, Scan(p.answer, Text, TypeOf[at]))},
                FALSE, {}, FALSE)
       /\ replies' = [replies EXCEPT ![at] = {p.answer}]
  /\ UNCHANGED <<limits, snapshots, cache, calls, requests, published>>

Ask ==
  /\ Open /\ Length(Text) <= limits.input /\ Cached = {}
  /\ phase' = "ask"
  /\ UNCHANGED <<limits, at, snapshots, cache, calls, requests, replies, audits, seen,
                 observed, errors, published>>
-----------------------------------------------------------------------------
\* One turn of the loop of LLMFactExtractionProvider.extract.
Sent == Cardinality(UNION {{<<s, i>> : i \in 1 .. Len(requests[s])} : s \in Sources})
MayCall == phase = "ask" /\ calls < limits.calls
Send(outcome) ==
  /\ MayCall /\ Sent < limits.reservations
  /\ calls' = calls + 1 /\ requests' = [requests EXCEPT ![at] = Append(@, outcome)]

CallLimit ==
  /\ phase = "ask" /\ calls >= limits.calls
  /\ Close({}, FALSE, {}, TRUE)
  /\ UNCHANGED <<limits, snapshots, cache, asks, calls, requests, replies, published>>

\* The budget refuses the reservation: its exception passes the provider's handlers, and
\* the service leaves the page without an audit.
Denied ==
  /\ MayCall /\ Sent >= limits.reservations
  /\ calls' = calls + 1 /\ phase' = "extract" /\ at' = at + 1 /\ errors' = TRUE
  /\ UNCHANGED <<limits, snapshots, cache, asks, requests, replies, audits, seen, observed,
                 published>>

\* Failed: no connection, another status, or a reply that is too large, incomplete, refused by
\* the model, for another snapshot, or not of the shape that was asked for.
Failures == {"busy", "timeout", "failed"}
\* Mutant of Retryable: a request that timed out is sent again.
RetryableToo(outcome) == outcome \in {"busy", "timeout"}
\* 429 and 5xx.  A timeout may have been paid for.
Retryable(outcome) == outcome = "busy"

Retry ==
  /\ MayCall /\ Len(requests[at]) < limits.retries
  /\ \E o \in Failures : Retryable(o) /\ Send(o)
  /\ UNCHANGED <<limits, phase, at, snapshots, cache, asks, replies, audits, seen, observed,
                 errors, published>>

GiveUp ==
  /\ MayCall
  /\ \E o \in Failures : (Retryable(o) => Len(requests[at]) >= limits.retries) /\ Send(o)
  /\ Close({}, FALSE, {}, TRUE)
  /\ UNCHANGED <<limits, snapshots, cache, asks, replies, published>>

Answered ==
  /\ Send("answered")
  /\ \E a \in ModelAnswers[snapshots[at].text] :
       LET scan == Scan(a, Text, TypeOf[at])
       IN  IF Len(a) > limits.facts THEN Close({}, FALSE, {}, TRUE) /\ UNCHANGED replies
           ELSE /\ Close(Kept(a, scan), scan.refused # {}, scan.contested,
                         scan.refused # {} \/ scan.contested # {})
                /\ replies' = [replies EXCEPT ![at] = {a}]
  /\ UNCHANGED <<limits, snapshots, cache, asks, published>>
-----------------------------------------------------------------------------
Extracted == phase = "extract" /\ at \notin Processed

\* needs_partial: an error, a page that was not fetched, or one without facts.
NeedsPartial ==
  \/ errors \/ \E s \in Sources : ~snapshots[s].good
  \/ \E s \in DOMAIN audits : audits[s].status # "SUCCEEDED"

\* The run goes on to its baseline or its comparison.
Complete ==
  /\ Extracted /\ ~NeedsPartial
  /\ phase' = IF observed # {} \/ DOMAIN audits # {} THEN "complete" ELSE "failed"
  /\ UNCHANGED <<limits, at, snapshots, cache, asks, calls, requests, replies, audits, seen,
                 observed, errors, published>>

\* Mutant of Excluded: the conflicts inside a page are forgotten.
ExcludedBetweenPages == UNION {audits[s].clashes : s \in DOMAIN audits}
Excluded == UNION {audits[s].clashes \cup audits[s].rejected : s \in DOMAIN audits}

\* PartialResultService.complete: all evidence is checked against the run's own snapshots.
Publish ==
  LET visible == {o \in observed : Key(o.fact) \notin Excluded}
      sound   == \A o \in observed : snapshots[o.source].good
                   /\ Within(o.fact.quote, Content[snapshots[o.source].text])
  IN  /\ Extracted /\ NeedsPartial
      /\ IF sound /\ visible # {}
         THEN phase' = "partial" /\ published' = {o.fact : o \in visible}
         ELSE phase' = "failed" /\ UNCHANGED published
      /\ UNCHANGED <<limits, at, snapshots, cache, asks, calls, requests, replies, audits, seen,
                     observed, errors>>

Ended == phase \in {"complete", "partial", "failed"}
Rest == Ended /\ UNCHANGED vars

Next == \/ FetchPage \/ EndFetch \/ SkipPage \/ StopAtLimit \/ TooLong \/ Reuse \/ Ask
        \/ CallLimit \/ Denied \/ Retry \/ GiveUp \/ Answered \/ Complete \/ Publish \/ Rest
Spec == Init /\ [][Next]_vars
-----------------------------------------------------------------------------
\* Every variable keeps its range; the budgets of pages and calls hold in between.
TypeOK ==
  /\ limits \in Settings /\ at \in 1 .. N + 1 /\ errors \in BOOLEAN
  /\ phase \in {"fetch", "extract", "ask", "complete", "partial", "failed"}
  /\ asks \in 0 .. limits.asks /\ calls \in 0 .. limits.calls
  /\ Len(snapshots) <= N
  /\ \A i \in 1 .. Len(snapshots) : snapshots[i].good <=> snapshots[i].text \in DOMAIN Content
  /\ \A s \in Sources : requests[s] \in Seq(Failures \cup {"answered"}) /\ Cardinality(replies[s]) <= 1
  /\ DOMAIN audits \subseteq Sources
  /\ \A s \in DOMAIN audits : audits[s].status \in {"SUCCEEDED", "NO_FACTS", "PARTIAL_ERROR", "FAILED"}
  /\ DOMAIN seen = {Key(o.fact) : o \in observed}
  /\ published \subseteq {o.fact : o \in observed}

\* What an answer says that the content supports, without regard to order; of the answer for a page.
Said(answer, content, type) ==
  {Adapted(answer[i]) : i \in {j \in 1 .. Len(answer) : Accepted(answer[j], content, type)}}
Stated(s) == UNION {Said(a, Content[snapshots[s].text], TypeOf[s]) : a \in replies[s]}
Keys(facts) == {Key(f) : f \in facts}
\* Identities with two values.
Disputed(facts) == {Key(f) : f \in {g \in facts :
                      \E h \in facts : Key(h) = Key(g) /\ Canonical(h) # Canonical(g)}}
Fits(f) == Clipped(f, AuditCut) = f

\* Those whose identity no audit of the page can blur: every fact that has it, or has it
\* once it is cut, is kept as it is.
Legible(facts) == {f \in facts : \A g \in facts :
                     Key(f) \in {Key(g), Key(Clipped(g, AuditCut))} => Fits(g)}

\* Whatever order the facts of an answer come in, and whether it is new or an earlier run's: a
\* supported value is observed, or its identity is on record as contested in or between pages;
\* of an identity with two values the page stores none; and nothing is stored that the text
\* fetched by this very run does not state.
FactsAreAccountedFor ==
  /\ \A s \in Sources \cap DOMAIN audits :
       /\ \A k \in Disputed(Stated(s)) :
            /\ Excerpt(k, ProviderCut) \in audits[s].rejected
            /\ \A o \in observed : o.source = s => Key(o.fact) # k
       /\ \A f \in Legible(Stated(s)) : Key(f) \in Disputed(Stated(s)) \/
            \E o \in observed : /\ Key(o.fact) = Key(f)
                                /\ \/ Canonical(o.fact) = Canonical(f)
                                   \/ Excerpt(Key(f), SourceCut) \in audits[s].clashes
  /\ \A o \in observed :
       /\ Within(o.fact.quote, Content[snapshots[o.source].text])
       /\ o.fact \in Stated(o.source) \cup {Clipped(f, AuditCut) : f \in Stated(o.source)}

\* What a run says of itself: complete means that every source was fetched and answered, that
\* its text supports the whole answer and every value of it is stored; a partial report shows
\* no identity that two answers, or one, give two values, as long as the records of the
\* conflict hold its key.
OutcomeIsHonest ==
  LET stated == UNION {Legible(Stated(s)) : s \in Sources}
      contested == Disputed(stated)
  IN  /\ phase = "complete" =>
           /\ contested = {} /\ \A s \in Sources : replies[s] # {} /\ snapshots[s].good
           /\ \A s \in Sources : \A a \in replies[s] : \A i \in 1 .. Len(a) : Adapted(a[i]) \in Stated(s)
           /\ \A f \in stated : \E o \in observed : Key(o.fact) = Key(f) /\ Canonical(o.fact) = Canonical(f)
      /\ phase = "partial" =>
           /\ published # {}
           /\ \A k \in contested : (\A c \in {ProviderCut, SourceCut} : Length(k) <= c) => k \notin Keys(published)

\* A paid request is repeated only after an answer that was not one, and never more often than
\* the retries allow; what is sent stays within the reservations, and a page of which an earlier
\* run has the answer costs nothing.
CostIsNeverRepeated ==
  /\ \A s \in Sources :
       /\ \A i \in 1 .. Len(requests[s]) - 1 : requests[s][i] = "busy"
       /\ Len(requests[s]) <= limits.retries + 1
       /\ (s < at /\ s \in DOMAIN audits /\ \E p \in cache[s] : p.text = snapshots[s].text) => requests[s] = << >>
  /\ Sent <= limits.reservations /\ Sent <= calls
=============================================================================

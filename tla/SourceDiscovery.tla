--------------------------- MODULE SourceDiscovery ---------------------------
(***************************************************************************)
(* SourceDiscoveryService.discover, called for one competitor by several    *)
(* processes at once: the bounded searches, the pages read to tell which    *)
(* site is the official one, the pages of that site, and the transactions   *)
(* that save what was verified.  An action is one request over the network, *)
(* one read or commit of a transaction, or a decision between two of them.  *)
(* What the web answers is a choice of the model at every request.          *)
(***************************************************************************)
EXTENDS PageFetching, FiniteSets, Sequences

CONSTANTS
  Discoveries,  \* calls of discover
  Hosts,        \* host names, numbers in alphabetical order
  Host, Site,   \* domain_from_url of a URL, registrable_domain of a host
  Rejected,     \* hosts at or below one of REJECTED_DOMAINS
  Homepages,    \* URLs whose path is that of a homepage
  FeaturePaths, PricePaths,  \* URLs with a preferred part in their path
  TypicalPaths, \* URLs with one of the words that aggregate_domain_evidence counts in it
  OffTopic,     \* URLs with a part of their path that candidate_score refuses
  Editorial,    \* URLs below news, blog or articles
  Matches,      \* how many KEYWORDS of a type name a URL where it is found
  Topical,      \* for each type, URLs that _query_type takes for it by title or address
  Branded,      \* search results whose title or snippet names the competitor
  Verbatim,     \* those that hold its normalized name letter by letter
  BrandHosts,   \* hosts that contain its name
  Preference,   \* identity_candidate_key but for rank and URL: the lower is read first
  Links,        \* addresses as the search API gives them
  Normal,       \* normalize_url of each, None where it raises
  Intents,      \* the intents of a call, in order; two give two queries
  Respond,      \* what the search API may answer to an intent: organic rows and two boxes
  FoundOnSite,  \* the sets of them a supplemental search for a type can
  Limits        \* of each call: SourceDiscoveryLimits, max_attempts, expected_domain

Types == <<"FEATURES", "PRICING", "CHANGELOG">>
LimitNames == {"results", "urls", "sites", "perSite", "supplemental", "pages", "perType", "attempts"}
SiteOf(u) == Site[Host[u]]
Sites == {Site[h] : h \in Hosts}

ASSUME DiscoveryAssumption ==
  /\ Hosts \subseteq Nat \ {None} /\ Rejected \subseteq Hosts
  /\ Host \in [Urls -> Hosts] /\ Site \in [Hosts -> Hosts]
  /\ None \notin Links /\ Normal \in [Links -> Urls \cup {None}]
  /\ Intents \in Seq(STRING)
  /\ \A q, o \in 1 .. Len(Intents) : Intents[q] = Intents[o] => q = o
  /\ \A q \in 1 .. Len(Intents) : \A r \in Respond[Intents[q]] :
       /\ r.organic \in Seq([position: Nat, url: Links \cup {None}])
       /\ r.boxes \in Seq(Links \cup {None})
  /\ \A d \in Discoveries : /\ \A n \in LimitNames : Limits[d][n] \in Nat
                            /\ Limits[d].expected \in Hosts \cup {None}

VARIABLES
  call,     \* what a call of discover has in memory
  profile,  \* competitors.official_domain of the one normalized name, or None
  sources   \* rows of sources that belong to it; all of them VERIFIED and active

vars == <<call, profile, sources>>

Ended == {"done", "raised", "dead"}

\* Memory of a call that begins; it is gone when the call ends.
Fresh == [
  phase    |-> "search",
  asked    |-> 0,            \* intents whose query has been answered
  attempt  |-> 0,            \* requests of the current query that are to be repeated
  found    |-> << >>,        \* candidates_by_url: the intent that found a URL first, and its rank
  queue    |-> {},           \* candidates whose page is to be read
  checked  |-> << >>,        \* validations of the candidates
  pages    |-> << >>,        \* page_cache
  official |-> None,         \* the site of official, its normalized and candidate URL
  home     |-> None,
  homeUrl  |-> None,
  at       |-> 0,            \* types of pages that are through
  options  |-> << >>,        \* candidate_urls of the types discover_sources has found
  asides   |-> 0,            \* supplemental searches
  tried    |-> {},           \* options of the type that were read
  blocked  |-> FALSE,        \* one of them was BLOCKED
  accepted |-> {},           \* those that passed
  row      |-> << >>,        \* the source to save
  seen     |-> << >>]        \* what its transaction has read

Init ==
  /\ call = [d \in Discoveries |-> Fresh]
  /\ profile = None /\ sources = {}

Put(f, S, x) == [u \in DOMAIN f \cup S |-> IF u \in S THEN x ELSE f[u]]
End(d, how)  == [Fresh EXCEPT !.phase = how, !.official = call[d].official]
Local        == UNCHANGED <<profile, sources>>
-----------------------------------------------------------------------------
(* Searching *)

\* _parse_results: organic rows by their position, or else their place; the knowledge
\* graph and the answer box behind them; no address that is not http, and none twice.
RowsOf(r) ==
  LET organic == [i \in 1 .. Len(r.organic) |->
        [url |-> r.organic[i].url, rank |-> IF r.organic[i].position > 0 THEN r.organic[i].position ELSE i]]
      last == {0} \cup {organic[i].rank : i \in 1 .. Len(organic)}
      next == 1 + CHOOSE n \in last : \A k \in last : k <= n
  IN  organic \o [i \in 1 .. Len(r.boxes) |-> [url |-> r.boxes[i], rank |-> next + i - 1]]

Usable(r, limit) ==
  LET rows == RowsOf(r)
      Ahead(i, j) == rows[i].rank < rows[j].rank \/ (rows[i].rank = rows[j].rank /\ i < j)
      kept == {i \in 1 .. Len(rows) : /\ rows[i].url # None
                 /\ \A j \in 1 .. Len(rows) : rows[j].url = rows[i].url => ~Ahead(j, i)}
      n == IF Cardinality(kept) < limit THEN Cardinality(kept) ELSE limit
  IN  [k \in 1 .. n |->
         rows[CHOOSE i \in kept : Cardinality({j \in kept : Ahead(j, i)}) = k - 1].url]

\* The loop over the results of a query: one that has no normalized URL is skipped, one
\* that is known changes nothing, and the loop stops behind the one that reaches the limit.
Taken(d, results, intent) ==
  LET old == call[d].found
      url == [i \in 1 .. Len(results) |-> Normal[results[i]]]
      After(i) == DOMAIN old \cup ({url[j] : j \in 1 .. i} \ {None})
      read == {i \in 1 .. Len(results) : /\ url[i] # None
                 /\ \A j \in 1 .. i - 1 : url[j] # None => Cardinality(After(j)) < Limits[d].urls}
      First(u) == CHOOSE i \in read : url[i] = u /\ \A j \in read : url[j] = u => i <= j
  IN  [u \in DOMAIN old \cup {url[i] : i \in read} |->
         IF u \in DOMAIN old THEN old[u] ELSE [intent |-> intent, rank |-> First(u)]]

Asking(d) ==
  \/ call[d].phase = "search" /\ call[d].asked < Len(Intents)
  \/ call[d].phase = "aside"

\* A timeout, 429 or one of four 5xx: the request is sent again.
SearchAgain(d) ==
  /\ Asking(d) /\ call[d].attempt + 1 < Limits[d].attempts
  /\ call' = [call EXCEPT ![d].attempt = @ + 1]
  /\ Local

\* The last attempt failed too; the connection or the credentials failed; the answer
\* is malformed, too large or empty.  The error is recorded and the next intent follows.
SearchFails(d) ==
  /\ call[d].phase = "search" /\ Asking(d)
  /\ call' = [call EXCEPT ![d].asked = @ + 1, ![d].attempt = 0]
  /\ Local

Search(d) ==
  /\ call[d].phase = "search" /\ Asking(d)
  /\ LET intent == Intents[call[d].asked + 1]
     IN  \E r \in Respond[intent] :
           /\ Usable(r, Limits[d].results) # << >>
           /\ call' = [call EXCEPT
                ![d].asked = @ + 1, ![d].attempt = 0,
                ![d].found = Taken(d, Usable(r, Limits[d].results), intent)]
  /\ Local
-----------------------------------------------------------------------------
(* Reading the pages of a few sites *)

Candidates(d, s) == {u \in DOMAIN call[d].found : SiteOf(u) = s /\ Host[u] \notin Rejected}
Contenders(d)    == {s \in Sites : Candidates(d, s) # {}}

\* More results with the name, then more results, then the alphabet.
Before(d, s, t) ==
  LET brand(x) == Cardinality(Candidates(d, x) \cap Verbatim)
      size(x)  == Cardinality(Candidates(d, x))
  IN  \/ brand(s) > brand(t)
      \/ brand(s) = brand(t) /\ size(s) > size(t)
      \/ brand(s) = brand(t) /\ size(s) = size(t) /\ s < t

\* identity_candidate_key: a tie goes to the better rank, then to the alphabet.
Preferred(d, u, v) ==
  LET rank(x) == call[d].found[x].rank
  IN  \/ Preference[u] < Preference[v]
      \/ Preference[u] = Preference[v] /\ rank(u) < rank(v)
      \/ Preference[u] = Preference[v] /\ rank(u) = rank(v) /\ u < v

\* The first sites, and the preferred pages of each; an earlier page may settle a site.
Place(d, s)  == Cardinality({t \in Contenders(d) : Before(d, t, s)})
Rank(d, u)   == Cardinality({v \in Candidates(d, SiteOf(u)) : Preferred(d, v, u)})
Examined(d)  == {u \in UNION {Candidates(d, s) : s \in Contenders(d)} :
                   Place(d, SiteOf(u)) < Limits[d].sites /\ Rank(d, u) < Limits[d].perSite}
Sooner(d, u, v) ==
  IF SiteOf(u) = SiteOf(v) THEN Preferred(d, u, v) ELSE Before(d, SiteOf(u), SiteOf(v))

\* The queries are through; the candidates are grouped by their sites.
Group(d) ==
  /\ call[d].phase = "search" /\ ~Asking(d)
  /\ call' = [call EXCEPT ![d].phase = "identity", ![d].queue = Examined(d)]
  /\ Local

\* validate_official_source, of a page that was fetched.
Support(p) ==
  (p.signals \cap {"title", "content", "links", "copyright"})
    \cup (IF p.canonical # None /\ SiteOf(p.canonical) = SiteOf(p.final) THEN {"canonical"} ELSE {})
    \cup (IF Host[p.final] \in BrandHosts THEN {"domain"} ELSE {})
Strong(p) ==
  /\ p.status = "SUCCESS" /\ p.text # 0
  /\ Cardinality(Support(p)) >= 3
  /\ {"domain", "copyright"} \cap Support(p) # {} \/ {"title", "canonical"} \subseteq Support(p)
  /\ p.final \in Editorial => {"domain", "copyright"} \cap Support(p) # {}

Verdict(p) ==
  IF Host[p.final] \in Rejected THEN "REJECTED"
  ELSE IF Strong(p) THEN "VERIFIED" ELSE "PENDING_CONFIRMATION"

\* In hundredths, without the share of the rank: it is one at most and only breaks ties.
Confidence(p) ==
  CASE Host[p.final] \in Rejected          -> 99
    [] p.status # "SUCCESS" \/ p.text = 0  -> 25
    [] OTHER -> LET c == 15 + 16 * Cardinality(Support(p)) IN IF c > 98 THEN 98 ELSE c

\* The sites one after the other, the pages of a site until one has text or is BLOCKED.
Settles(p) == p.status = "BLOCKED" \/ (p.status = "SUCCESS" /\ p.text # 0)

ReadIdentity(d) ==
  /\ call[d].phase = "identity"
  /\ \E u \in call[d].queue :
       /\ \A v \in call[d].queue \ {u} : Sooner(d, u, v)
       /\ \E p \in Fetched[u] :
            call' = [call EXCEPT
              ![d].queue   = {v \in @ \ {u} : Settles(p) => SiteOf(v) # SiteOf(u)},
              ![d].pages   = Put(@, {u, p.final}, p),
              ![d].checked = Put(@, {u}, [
                 final |-> p.final, verdict |-> Verdict(p), confidence |-> Confidence(p)])]
  /\ Local
-----------------------------------------------------------------------------
(* The official site *)

Names(d, s)     == {u \in DOMAIN call[d].found : SiteOf(u) = s}
SuccessOf(d, s) == {u \in Names(d, s) \cap DOMAIN call[d].pages : call[d].pages[u].status = "SUCCESS"}

\* A site is refused for its own name, for that of a host, or for where a page of it led.
RejectedSite(d, s) ==
  \E u \in Names(d, s) : \/ Host[u] \in Rejected
                         \/ u \in DOMAIN call[d].checked /\ call[d].checked[u].verdict = "REJECTED"

Topic(d, u) ==
  LET named(t) == call[d].found[u].intent = t \/ u \in Topical[t]
  IN  CASE named("PRICING") -> "PRICING" [] named("CHANGELOG") -> "CHANGELOG"
        [] named("FEATURES") -> "FEATURES" [] OTHER -> "HOMEPAGE"

\* Signals of the pages that speak for the site; a canonical link must lead to it,
\* wherever the page itself was reached.
Metadata(d, s) == Cardinality({x \in SuccessOf(d, s) \X {"title", "og", "canonical"} :
  LET p == call[d].pages[x[1]]
  IN  IF x[2] = "canonical" THEN p.canonical # None /\ SiteOf(p.canonical) = s
      ELSE x[2] \in p.signals})

\* score of aggregate_domain_evidence, in quarters of a point.
Points(d, s) ==
  LET N == Names(d, s)
      AtMost(k, n) == IF n < k THEN n ELSE k
      redirects == {u \in SuccessOf(d, s) : SiteOf(call[d].pages[u].final) = s}
  IN  2 * AtMost(3, Cardinality(N)) + 3 * Cardinality({Topic(d, u) : u \in N})
      + 3 * AtMost(4, Cardinality(N \cap Branded))
      + (IF N \cap Homepages # {} THEN 8 ELSE 0)
      + 4 * AtMost(1, Cardinality(redirects)) + 3 * AtMost(3, Metadata(d, s))
      + AtMost(3, Cardinality(N \cap TypicalPaths))
      + (IF Cardinality({Host[u] : u \in N}) > 1 THEN 2 ELSE 0)

\* select_official_domain: a score of 8 points, 2 more than the next eligible site.
Eligible(d) == {s \in {SiteOf(u) : u \in DOMAIN call[d].found} : ~RejectedSite(d, s)}
Selected(d) == {s \in Eligible(d) :
  /\ Names(d, s) \cap Branded # {} /\ Names(d, s) \cap Homepages # {} /\ Metadata(d, s) >= 1
  /\ Points(d, s) >= 32
  /\ \A t \in Eligible(d) \ {s} : Points(d, s) >= Points(d, t) + 8}
Agreed(d) == {s \in Selected(d) : Limits[d].expected \in {None, s}}

\* Candidates whose page is on the site and was not rejected; the most confident wins.
Matching(d, s) == {u \in DOMAIN call[d].checked :
  SiteOf(call[d].checked[u].final) = s /\ call[d].checked[u].verdict # "REJECTED"}
Homes(d, s) == {u \in Matching(d, s) :
  \A v \in Matching(d, s) : call[d].checked[v].confidence <= call[d].checked[u].confidence}

\* No site stands out, or it is not the expected one: nothing is saved.
Decide(d) ==
  /\ call[d].phase = "identity" /\ call[d].queue = {}
  /\ LET sites == Agreed(d)
     IN  \/ sites = {} /\ call' = [call EXCEPT ![d] = End(d, "done")]
         \/ \E s \in sites : call' = [call EXCEPT ![d].phase = "home", ![d].official = s]
  /\ Local

\* Mutant of ChooseHome: the URL the page was found at is forgotten.
ChooseHomeOnly(d) ==
  /\ call[d].phase = "home"
  /\ \E u \in Homes(d, call[d].official) :
       call' = [call EXCEPT ![d].phase = "plan", ![d].home = call[d].checked[u].final]
  /\ Local

\* The page of the site, if one is left.  Without its HTML every type of page is
\* UNSUPPORTED, and nothing is saved either.
ChooseHome(d) ==
  /\ call[d].phase = "home"
  /\ LET homes == Homes(d, call[d].official)
     IN  IF homes = {} THEN call' = [call EXCEPT ![d] = End(d, "done")]
         ELSE \E u \in homes :
           LET final == call[d].checked[u].final
           IN  call' = IF call[d].pages[final].html
                       THEN [call EXCEPT ![d].phase = "plan", ![d].home = final, ![d].homeUrl = u]
                       ELSE [call EXCEPT ![d] = End(d, "done")]
  /\ Local
-----------------------------------------------------------------------------
(* discover_sources: candidates for each type of page *)

Planning(d) == call[d].phase = "plan" /\ call[d].at < Len(Types)
TypeOf(d)   == IF call[d].at = 0 THEN "HOMEPAGE" ELSE Types[call[d].at]
Upcoming(d) == Types[call[d].at + 1]

Score(t, u) ==
  IF t \in {"FEATURES", "PRICING"} /\ u \in OffTopic THEN 0
  ELSE Matches[t][u] + (IF u \in (IF t = "FEATURES" THEN FeaturePaths ELSE PricePaths) THEN 10 ELSE 0)

\* Links of the homepage, and candidates of the first searches other than the homepage.
Scored(d, t) == {u \in call[d].pages[call[d].home].nav \cup (DOMAIN call[d].found \ {call[d].home}) :
  SiteOf(u) = call[d].official /\ Matches[t][u] > 0}

\* Ranked by score, then by URL; those without a score are left out.
Better(t, u, v) == Score(t, u) > Score(t, v) \/ (Score(t, u) = Score(t, v) /\ u < v)
Ranked(d, t, known) == {u \in known : /\ Score(t, u) > 0
  /\ Cardinality({v \in known : Score(t, v) > 0 /\ Better(t, v, u)}) < Limits[d].perType}

\* Another type is planned, unless max_pages are reached by one that was found; the
\* homepage and every type before it count.
Planned(d, known) ==
  LET t == Upcoming(d)
      chosen == Ranked(d, t, known)
      full == chosen # {} /\ call[d].at + 2 >= Limits[d].pages
  IN  [call EXCEPT ![d].options = Put(@, {t}, chosen), ![d].attempt = 0, ![d].phase = "plan",
                   ![d].at = IF full THEN Len(Types) ELSE @ + 1]

NeedsSearch(d) == Scored(d, Upcoming(d)) = {} /\ call[d].asides < Limits[d].supplemental

Plan(d) ==
  /\ Planning(d)
  /\ IF NeedsSearch(d)
     THEN call' = [call EXCEPT ![d].phase = "aside", ![d].asides = @ + 1]
     ELSE call' = Planned(d, Scored(d, Upcoming(d)))
  /\ Local

\* A supplemental search without a hit on the site leaves the type NOT_FOUND.  With
\* one, candidates[url] is read of the plain {} that scored.get returned: KeyError.
Supplement(d) ==
  /\ call[d].phase = "aside"
  /\ \/ call' = Planned(d, {})
     \/ \E results \in FoundOnSite[Upcoming(d)] :
          LET hits == {u \in results : SiteOf(u) = call[d].official /\ Matches[Upcoming(d)][u] > 0}
          IN  call' = IF hits = {} THEN Planned(d, {})
                      ELSE [call EXCEPT ![d] = End(d, "raised")]
  /\ Local

\* The types are planned; the homepage is the first to be saved.  What a call will not
\* read again is dropped here: candidates, validations, pages that are no option.
EndPlan(d) ==
  /\ call[d].phase = "plan" /\ call[d].at = Len(Types)
  /\ call' = [call EXCEPT ![d].phase = "save", ![d].at = 0,
       ![d].asides = 0, ![d].found = << >>, ![d].checked = << >>,
       ![d].home = None, ![d].homeUrl = None,
       ![d].pages = [u \in DOMAIN @ \cap UNION {call[d].options[t] : t \in DOMAIN call[d].options} |-> @[u]],
       ![d].row = [final |-> call[d].home, url |-> call[d].homeUrl, type |-> "HOMEPAGE",
                   domain |-> call[d].official, by |-> d]]
  /\ Local
-----------------------------------------------------------------------------
(* Reading the options of a type *)

\* Mutant of Left: an option that was read comes up again.
LeftAgain(d) ==
  IF call[d].blocked THEN {}
  ELSE {u \in call[d].options[TypeOf(d)] : \A a \in call[d].accepted : Score(TypeOf(d), u) >= a.score}

\* Best option first; a page the call has read is not fetched again.
Left(d) ==
  IF call[d].blocked THEN {}
  ELSE {u \in call[d].options[TypeOf(d)] \ call[d].tried :
          \A a \in call[d].accepted : Score(TypeOf(d), u) >= a.score}

\* Mutant of Suitable: the site of the page that was reached is not looked at.
SuitableAnywhere(d, p) ==
  /\ Verdict(p) = "VERIFIED"
  /\ TypeOf(d) = "PRICING" => "price" \in p.signals

\* Verified, of the official site, and applicable_page.
Suitable(d, p) ==
  /\ Verdict(p) = "VERIFIED" /\ SiteOf(p.final) = call[d].official
  /\ TypeOf(d) = "PRICING" => "price" \in p.signals

\* Two options that lead to the same page with the same content count once.
Accepted(d, u, p) ==
  LET old == call[d].accepted
  IN  IF Suitable(d, p) /\ \A a \in old : <<a.final, a.text>> # <<p.final, p.text>>
      THEN old \cup {[score |-> Score(TypeOf(d), u), url |-> u, final |-> p.final, text |-> p.text]}
      ELSE old

ReadOption(d) ==
  /\ call[d].phase = "option"
  /\ \E u \in Left(d) :
       /\ \A v \in Left(d) \ {u} : Better(TypeOf(d), u, v)
       /\ \E p \in IF u \in DOMAIN call[d].pages THEN {call[d].pages[u]} ELSE Fetched[u] :
            call' = [call EXCEPT
              ![d].pages    = Put(@, {u}, p),
              ![d].tried    = @ \cup {u},
              ![d].blocked  = p.status = "BLOCKED",
              ![d].accepted = Accepted(d, u, p)]
  /\ Local

\* The next type discover_sources has found, or the end of the call.
Forward(d, mem) ==
  LET later == {i \in mem.at + 1 .. Len(Types) :
                  Types[i] \in DOMAIN mem.options /\ mem.options[Types[i]] # {}}
  IN  IF later = {} THEN End(d, "done")
      ELSE [mem EXCEPT !.phase = "option", !.tried = {}, !.blocked = FALSE, !.accepted = {},
                       !.row = << >>, !.seen = << >>,
                       !.at = CHOOSE i \in later : \A j \in later : i <= j]

\* Several pages passed, or none: AMBIGUOUS.
LeaveType(d) ==
  /\ call[d].phase = "option" /\ Left(d) = {} /\ Cardinality(call[d].accepted) # 1
  /\ call' = [call EXCEPT ![d] = Forward(d, @)]
  /\ Local

ChoosePage(d) ==
  /\ call[d].phase = "option" /\ Left(d) = {} /\ Cardinality(call[d].accepted) = 1
  /\ \E a \in call[d].accepted :
       call' = [call EXCEPT ![d].phase = "save",
         ![d].row = [final |-> a.final, url |-> a.url, type |-> TypeOf(d),
                     domain |-> Host[a.final], by |-> d]]
  /\ Local
-----------------------------------------------------------------------------
(* _save_verified, one transaction: its reads show the state at the first of them *)

ReadProfile(d) ==
  /\ call[d].phase = "save"
  /\ call' = [call EXCEPT ![d].phase = "commit",
       ![d].seen = [profile |-> profile # None,
                    source  |-> \E r \in sources : r.final = call[d].row.final]]
  /\ Local

\* normalized_name of a competitor and normalized_url_hash of its sources are unique:
\* a row that another call has inserted since the read makes the insertion fail.
Collides(d) == \/ ~call[d].seen.profile /\ profile # None
               \/ ~call[d].seen.source /\ \E r \in sources : r.final = call[d].row.final

CommitRaises(d) ==
  /\ call[d].phase = "commit" /\ Collides(d)
  /\ call' = [call EXCEPT ![d] = End(d, "raised")]
  /\ Local

\* update_verification of the row of that page, or a new one.
Saved(rows, row) == {r \in rows : r.final # row.final} \cup {row}

\* Mutant of Commit: the domain is written only with a new profile.
CommitKeepingDomain(d) ==
  /\ call[d].phase = "commit" /\ ~Collides(d)
  /\ profile' = IF profile = None THEN call[d].row.domain ELSE profile
  /\ sources' = Saved(sources, call[d].row)
  /\ call' = [call EXCEPT ![d] = Forward(d, @)]

\* The profile is created or its domain overwritten; the source of that page is
\* created, or overwritten with its type and its domain.
Commit(d) ==
  /\ call[d].phase = "commit" /\ ~Collides(d)
  /\ profile' = call[d].row.domain
  /\ sources' = Saved(sources, call[d].row)
  /\ call' = [call EXCEPT ![d] = Forward(d, @)]

\* The connection to the database is lost, and with it the transaction.
SaveFails(d) ==
  /\ call[d].phase \in {"save", "commit"}
  /\ call' = [call EXCEPT ![d] = End(d, "raised")]
  /\ Local

Crash(d) ==
  /\ call[d].phase \notin Ended
  /\ call' = [call EXCEPT ![d] = End(d, "dead")]
  /\ Local
-----------------------------------------------------------------------------
Step(d) ==
  \/ SearchAgain(d) \/ SearchFails(d) \/ Search(d) \/ Group(d) \/ ReadIdentity(d)
  \/ Decide(d) \/ ChooseHome(d) \/ Plan(d) \/ Supplement(d) \/ EndPlan(d)
  \/ ReadOption(d) \/ LeaveType(d) \/ ChoosePage(d)
  \/ ReadProfile(d) \/ Commit(d) \/ CommitRaises(d)

Next == \E d \in Discoveries : Step(d) \/ SaveFails(d) \/ Crash(d)

\* discover is a loop of one thread; every request it sends has a timeout.
Fairness == \A d \in Discoveries : WF_vars(Step(d))
Spec == Init /\ [][Next]_vars /\ Fairness
-----------------------------------------------------------------------------
Phases == {"search", "identity", "home", "aside", "plan", "option", "save", "commit"} \cup Ended
Rows == [final: Urls, url: Urls, type: {"HOMEPAGE"} \cup {Types[i] : i \in 1 .. Len(Types)},
         domain: Hosts, by: Discoveries]

\* The values of the variables: the rows, and what a call has to know to write one.
TypeOK ==
  /\ profile \in Hosts \cup {None} /\ sources \subseteq Rows
  /\ \A d \in Discoveries :
       /\ call[d].phase \in Phases
       /\ call[d].official \in Hosts \cup {None}
       /\ call[d].phase = "plan" => call[d].home \in Urls /\ call[d].homeUrl \in Urls
       /\ call[d].phase \in {"save", "commit"} => call[d].row \in Rows

\* Every saved source is a page of the site its call found official, and of no other: not
\* of a third party, not of a site a page redirects to, and never of one that is not the
\* site the task expects (source_discovery_service.py:182-184, 272-289).
RowsAreOfficial == \A r \in sources :
  /\ SiteOf(r.final) = call[r.by].official /\ Host[r.final] \notin Rejected
  /\ Limits[r.by].expected \in {None, SiteOf(r.final)}

\* The domain in the profile is the domain of a verified source of the competitor, after
\* any interleaving of calls that overwrite both, and wherever one of them stops between
\* its saves (source_discovery_service.py:328-380).
ProfileIsBacked == profile # None => \E r \in sources : r.domain = profile

\* Every call ends: its loops over attempts, intents, sites, pages and types get through.
DiscoveriesEnd == \A d \in Discoveries : <>(call[d].phase \in Ended)
=============================================================================

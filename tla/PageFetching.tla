---------------------------- MODULE PageFetching ----------------------------
(***************************************************************************)
(* What RequestsFetcher.fetch makes of the answers of a site: the redirects *)
(* PublicSession follows, the status of every kind of final answer, and the *)
(* evidence that is left of the page.  A site may answer a URL differently  *)
(* each time, so fetching a URL gives a set of possible pages.              *)
(***************************************************************************)
EXTENDS Naturals

CONSTANTS
  Urls,     \* normalized URLs: numbers in alphabetical order
  Serve,    \* the answers a URL may give to one request
  MaxHops   \* answers PublicSession.get takes for one fetch: 6 in the code

None == 0
Signals == {"title", "content", "links", "copyright", "og", "price"}

\* Answers: a redirect with a Location; none that is usable, because the connection,
\* the status, the type, the size, the transfer or the encoding is wrong; or HTML.
NoAnswer == {"timeout", "refused", "invalid"}
BadBody  == {"not html", "too large", "broken off", "undecodable"}
Kinds    == {"redirect", "not modified", "denied", "http error", "shell", "page"}
              \cup NoAnswer \cup BadBody
\* text names the clean content, 0 when nothing is left of the page; canonical is the
\* link the page gives for itself, nav its anchors.
Answers == [kind: Kinds, to: Urls \cup {None}, text: Nat, signals: SUBSET Signals,
            canonical: Urls \cup {None}, nav: SUBSET Urls]

ASSUME FetchingAssumption ==
  /\ Urls \subseteq Nat \ {None} /\ MaxHops \in Nat
  /\ \A u \in Urls : Serve[u] \subseteq Answers

FetchStatus == {"SUCCESS", "BLOCKED", "FAILED", "NOT_MODIFIED", "JS_UNSUPPORTED"}
StatusOf(kind) ==
  CASE kind = "page"         -> "SUCCESS"
    [] kind = "shell"        -> "JS_UNSUPPORTED"
    [] kind = "denied"       -> "BLOCKED"
    [] kind = "not modified" -> "NOT_MODIFIED"
    [] OTHER                 -> "FAILED"

\* PageEvidence.  Only a SUCCESS is cleaned; the HTML of a shell is kept all the same.
Pages == [status: FetchStatus, final: Urls, text: Nat, html: BOOLEAN,
          signals: SUBSET Signals, canonical: Urls \cup {None}, nav: SUBSET Urls]

Evidence(u, a) ==
  [status  |-> StatusOf(a.kind), final |-> u,
   text    |-> IF a.kind = "page" THEN a.text ELSE 0,
   html    |-> a.kind \in {"page", "shell"},
   signals |-> IF a.kind = "page" THEN a.signals ELSE {},
   canonical |-> IF a.kind = "page" THEN a.canonical ELSE None,
   nav     |-> IF a.kind \in {"page", "shell"} THEN a.nav ELSE {}]

\* Where a fetch may end that starts at u and has n answers left.  A redirect
\* without a Location is an HTTP error.
Followed[n \in 0 .. MaxHops] ==
  [u \in Urls |->
     IF n = 0 THEN {[at |-> None, answer |-> [kind |-> "http error"]]}
     ELSE UNION {IF a.kind = "redirect" /\ a.to # None THEN Followed[n - 1][a.to]
                 ELSE {[at |-> u, answer |-> a]} : a \in Serve[u]}]

\* _fetch_evidence: an answer that never came has the URL that was asked for.
Fetched == [u \in Urls |->
  {LET given == e.at = None \/ e.answer.kind \in NoAnswer
   IN  Evidence(IF given THEN u ELSE e.at, e.answer) : e \in Followed[MaxHops][u]}]
=============================================================================

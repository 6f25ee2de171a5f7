---------------------------- MODULE FactEvidence ----------------------------
(***************************************************************************)
(* What makes a fact of a model answer worth storing: its schema, the quote *)
(* that has to support every value of it, its identity and its canonical    *)
(* value, and the loop that takes an answer apart.  A text is a sequence of *)
(* pieces, the units in which pages and answers are cut; folding a piece is *)
(* NFKC and casefold.  A field that is null is absent.                      *)
(***************************************************************************)
EXTENDS Naturals, Sequences, FiniteSets

CONSTANTS
  Pieces,    \* pieces of pages and answers
  Lower,     \* casefold of a piece
  Joints,    \* pieces without a word character
  Size,      \* characters of a piece
  Digits,    \* of the pieces that are numbers: [whole, decimals]
  Dates,     \* pieces that are ISO dates
  Aliases,   \* of an enum value: texts one of which _ground asks for
  RequiredSignals, \* of an enum value: texts one of which EvidenceChecker asks for, none if absent
  Spellings  \* of a currency or a date: likewise, its own text if absent

ASSUME EvidenceAssumption ==
  /\ Lower \in [Pieces -> Pieces] /\ Joints \subseteq Pieces /\ Dates \subseteq Pieces
  /\ Size \in [Pieces -> Nat] /\ DOMAIN Digits \subseteq Pieces
  /\ \A x \in DOMAIN Digits : Digits[x] \in [whole: Nat, decimals: Seq(0 .. 9)]
  /\ \A v \in DOMAIN Aliases : Aliases[v] \subseteq Seq(Pieces)
  /\ \A t \in DOMAIN Spellings : Spellings[t] \subseteq Seq(Pieces)

Null == "null"
PageCategories == [HOMEPAGE  |-> {"POSITIONING", "FEATURE"}, FEATURES |-> {"FEATURE"},
                   PRICING   |-> {"PLAN", "PRICE"},          CHANGELOG |-> {"PRODUCT_UPDATE"}]
AllowedBySource == [HOMEPAGE |-> {"POSITIONING", "FEATURE"}, FEATURES |-> {"FEATURE", "POSITIONING"},
                    PRICING  |-> {"PLAN", "PRICE"}, CHANGELOG |-> {"PRODUCT_UPDATE", "FEATURE"}]
\* The field that must not be empty beside the names.
Description == [POSITIONING |-> {"public_description"}, FEATURE |-> {"feature_description"},
                PLAN |-> {"plan_description"}, PRICE |-> {}, PRODUCT_UPDATE |-> {"summary"}]
Echoed == {"FEATURE", "PLAN"}    \* categories with a normalized_ field

\* A fact of an answer.  name is what it is about, echo its normalized_ field, details its
\* other strings, items its list, enums its classifications, shape whether keys and types
\* are those of output_schema.
-----------------------------------------------------------------------------
Folded(t) == [i \in 1 .. Len(t) |-> Lower[t[i]]]
Occurs(t, s) == \E i \in 0 .. Len(s) - Len(t) : \A j \in 1 .. Len(t) : s[i + j] = t[j]
Within(t, s) == t # << >> /\ Len(t) <= Len(s) /\ Occurs(Folded(t), Folded(s))

\* slug: words between joints; "unknown" when there is none.
Slug(t) == LET words == SelectSeq(Folded(t), LAMBDA p : p \notin Joints)
           IN  IF words = << >> THEN <<"unknown">> ELSE words

\* Decimal.normalize: no zero at the end of the decimals.
Plain(a) ==
  LET d == Digits[a].decimals
      k == CHOOSE n \in 0 .. Len(d) : /\ \A i \in n + 1 .. Len(d) : d[i] = 0
                                      /\ n > 0 => d[n] # 0
  IN  [whole |-> Digits[a].whole, decimals |-> SubSeq(d, 1, k)]
-----------------------------------------------------------------------------
\* Null enums get a sentinel, and the server takes over an equivalent spelling of a plan.
Adapted(f) == [f EXCEPT
  !.enums = [e \in DOMAIN @ |-> IF @[e] # Null THEN @[e]
                                ELSE IF e = "feature_category" THEN "OTHER" ELSE "UNKNOWN"],
  !.echo = IF f.category = "PLAN" /\ Slug(@) = Slug(f.name) THEN Slug(f.name) ELSE @]

\* The schema generated for the page: its own contract within what the source allows.
Conforms(f, type) == f.shape /\ f.category \in PageCategories[type] \cap AllowedBySource[type]

\* _ground: the quote is in the page, a normalized name repeats the name, and every value
\* is in the quote, an enum by one of its aliases.
NameRepeated(f) == CASE f.category = "FEATURE" -> f.echo = f.name
                     [] f.category = "PLAN"    -> f.echo = Slug(f.name)
                     [] OTHER                  -> TRUE
\* Fields outside ENUM_FIELDS: strings whose only alias is their own text.
FreeText(f, e) == e \in {"tax_status", "update_type"} \/ (e = "status" /\ f.category # "FEATURE")
Supported(f, e) == \/ f.enums[e] = "UNKNOWN"
                   \/ f.enums[e] \in {"OTHER", "PUBLIC"} /\ ~FreeText(f, e)
                   \/ \E a \in Aliases[f.enums[e]] : Within(a, f.quote)
Grounded(f, content) ==
  /\ Within(f.quote, content) /\ NameRepeated(f) /\ Within(f.name, f.quote)
  /\ \A d \in DOMAIN f.details : Within(f.details[d], f.quote)
  /\ \A i \in 1 .. Len(f.items) : Within(f.items[i], f.quote)
  /\ f.amount # Null => Within(<<f.amount>>, f.quote)
  /\ \A e \in DOMAIN f.enums : Supported(f, e)

\* validate_fact_schema, of a fact with the keys and types of the schema.
Valid(f) ==
  /\ f.name # << >>
  /\ f.category \in Echoed => f.echo # << >>
  /\ \A d \in Description[f.category] : d \in DOMAIN f.details /\ f.details[d] # << >>
  /\ (f.category = "PRICE" /\ f.amount # Null) =>
       /\ f.amount \in DOMAIN Digits
       /\ f.enums["public_status"] # "CONTACT_SALES"
       /\ f.enums["public_status"] = "NOT_DISCLOSED" => Digits[f.amount] # [whole |-> 0, decimals |-> << >>]
  /\ ("published_date" \in DOMAIN f.details /\ f.details["published_date"] # << >>) =>
       f.details["published_date"] \in {<<x>> : x \in Dates}

\* The pattern EvidenceChecker looks for: the amount without zeros at its end, alone or
\* followed by a point and zeros.
AmountFound(f) == \E i \in 1 .. Len(f.quote) :
  /\ f.quote[i] \in DOMAIN Digits
  /\ LET read == Digits[f.quote[i]]
         plain == Plain(f.amount)
     IN  /\ read.whole = plain.whole
         /\ \/ read.decimals = plain.decimals
            \/ plain.decimals = << >> /\ \A j \in 1 .. Len(read.decimals) : read.decimals[j] = 0

\* The currency of a price, the date of an update.
Spelled(t, quote) == \E s \in IF t \in DOMAIN Spellings THEN Spellings[t] ELSE {t} : Within(s, quote)

\* EvidenceChecker.check is CONFIRMED.
Confirmed(f, content) ==
  /\ Valid(f) /\ Within(f.quote, content) /\ Within(f.name, f.quote)
  /\ f.category = "PRICE" =>
       /\ f.amount # Null => AmountFound(f)
       /\ \A e \in {"billing_period", "billing_unit", "billing_commitment"} :
            f.enums[e] \in DOMAIN RequiredSignals => \E s \in RequiredSignals[f.enums[e]] : Within(s, f.quote)
  /\ \A d \in {"currency", "published_date"} \cap DOMAIN f.details :
       f.details[d] # << >> => Spelled(f.details[d], f.quote)

Accepted(f, content, type) ==
  /\ Conforms(f, type) /\ Grounded(Adapted(f), content) /\ Confirmed(Adapted(f), content)
-----------------------------------------------------------------------------
\* fact_key of normalize_fact.
Key(f) ==
  CASE f.category = "POSITIONING" -> <<"positioning", "primary">>
    [] f.category = "FEATURE"     -> <<"feature">> \o Slug(f.echo)
    [] f.category = "PLAN"        -> <<"plan">> \o Slug(f.echo)
    [] f.category = "PRICE"       -> <<"price">> \o Slug(f.name) \o
         <<f.enums["billing_period"], f.enums["billing_unit"], f.enums["billing_commitment"]>>
    [] OTHER -> <<"product_update">> \o
         (IF "published_date" \in DOMAIN f.details THEN f.details["published_date"] ELSE <<"undated">>)
         \o Slug(f.name)

\* canonical_json of FactNormalizer: no case in classifications and most names, amounts
\* as numbers, lists without order but for those of updates: the other lists of the schema
\* are the ones the normalizer sorts.
Canonical(f) == [
  name    |-> IF f.category \in {"FEATURE", "PLAN", "PRODUCT_UPDATE"} THEN Folded(f.name) ELSE f.name,
  details |-> [d \in DOMAIN f.details |->
                 IF d \in {"related_plan", "currency", "availability", "status", "update_type"}
                 THEN Folded(f.details[d]) ELSE f.details[d]],
  listed  |-> {<<f.items[i], Cardinality({j \in 1 .. Len(f.items) : f.items[j] = f.items[i]})>> :
                 i \in 1 .. Len(f.items)},
  order   |-> IF f.category = "PRODUCT_UPDATE" THEN f.items ELSE << >>,
  amount  |-> IF f.amount = Null THEN {} ELSE {Plain(f.amount)},
  enums   |-> f.enums]

\* Characters of a key, without the short names of its dimensions.
Length(k) ==
  LET sum[n \in 0 .. Len(k)] ==
        IF n = 0 THEN 0 ELSE sum[n - 1] + (IF k[n] \in Pieces THEN Size[k[n]] ELSE 0)
  IN  sum[Len(k)]

\* _safe_value keeps the beginning of a long text: what an audit stores of a fact.
Cut(t, limit) == LET fits(n) == Length(SubSeq(t, 1, n)) <= limit
                 IN  SubSeq(t, 1, CHOOSE n \in 0 .. Len(t) : fits(n) /\ (n = Len(t) \/ ~fits(n + 1)))
Clipped(f, limit) == [f EXCEPT
  !.name = Cut(@, limit), !.echo = Cut(@, limit), !.quote = Cut(@, limit),
  !.details = [d \in DOMAIN @ |-> Cut(@[d], limit)], !.items = [i \in DOMAIN @ |-> Cut(@[i], limit)]]

\* An excerpt of a key ends in an ellipsis and equals no key.
Excerpt(k, limit) == IF Length(k) <= limit THEN k ELSE Append(k, "ellipsis")
-----------------------------------------------------------------------------
\* The loop over the facts of an answer: first holds the index of the first fact of each
\* identity, contested the identities that came back with another value.
Scan(answer, content, type) ==
  LET after[n \in 0 .. Len(answer)] ==
        IF n = 0 THEN [first |-> << >>, contested |-> {}, refused |-> {}]
        ELSE LET s == after[n - 1]
                 f == Adapted(answer[n])
                 k == Key(f)
             IN  IF ~Accepted(answer[n], content, type) THEN [s EXCEPT !.refused = @ \cup {n}]
                 ELSE IF k \notin DOMAIN s.first
                   THEN [s EXCEPT !.first = [x \in DOMAIN @ \cup {k} |-> IF x = k THEN n ELSE @[x]]]
                 ELSE IF Canonical(Adapted(answer[s.first[k]])) = Canonical(f) THEN s
                 ELSE [s EXCEPT !.contested = @ \cup {k}]
  IN  after[Len(answer)]

\* Mutant of Kept: the first value of a contested identity wins.
KeptFirst(answer, scan) == {Adapted(answer[scan.first[k]]) : k \in DOMAIN scan.first}

\* Neither side of a contested identity is kept.
Kept(answer, scan) ==
  {Adapted(answer[scan.first[k]]) : k \in DOMAIN scan.first \ scan.contested}
=============================================================================

---------------------------- MODULE MCFactIntake ----------------------------
(***************************************************************************)
(* A homepage and a feature list that name one feature with two values, and *)
(* a price list; a name longer than the record of a conflict and a text     *)
(* longer than an audit keeps; prices with and without a zero at the end.   *)
(***************************************************************************)
EXTENDS FactIntake, TLC

Words == {"Sync", "sync", "fast", "slow", "|", "long name", "essay", "Pro", "pro", "12.50", "8", "usd", "$", "monthly"}
CaseFold == [w \in Words |-> CASE w = "Sync" -> "sync" [] w = "Pro" -> "pro" [] OTHER -> w]
Bar == {"|"}
Characters == [w \in Words |-> CASE w = "long name" -> 200 [] w = "essay" -> 600 [] OTHER -> 5]
Numbers == "12.50" :> [whole |-> 12, decimals |-> <<5, 0>>] @@ "8" :> [whole |-> 8, decimals |-> << >>]
NoDates == {}
AliasesOf == [MONTH |-> {<<"monthly">>}]
SignalsOf == [MONTH |-> {<<"monthly">>}]
SpellingsOf == <<"usd">> :> {<<"usd">>, <<"$">>}

Types3 == <<"HOMEPAGE", "FEATURES", "PRICING">>
Home == 1
List == 2
Prices == 3
AllUrls == {Home, List, Prices}
UrlOf3 == <<Home, List, Prices>>

Texts == << <<"Sync", "fast", "|", "sync", "slow">>,
            <<"sync", "slow", "|", "long name", "fast">>,
            <<"Pro", "12.50", "|", "pro", "8", "usd", "monthly">>,
            <<"sync", "essay", "essay", "long name", "slow">> >>
LastTexts == <<4, 0, 3>>
EarlierTexts == <<{1, 4}, {}, {3}>>

Feature(name, text, quote) ==
  [category |-> "FEATURE", name |-> name, echo |-> name, details |-> [feature_description |-> text],
   items |-> << >>, amount |-> Null, enums |-> [feature_category |-> Null, status |-> Null],
   shape |-> TRUE, quote |-> quote]
Price(amount, currency, period, quote) ==
  [category |-> "PRICE", name |-> <<"pro">>, echo |-> << >>, details |-> currency, items |-> << >>,
   amount |-> amount, shape |-> TRUE, quote |-> quote,
   enums |-> [billing_period |-> period, billing_unit |-> Null, billing_commitment |-> Null,
              public_status |-> Null, tax_status |-> Null]]
Fast == Feature(<<"sync">>, <<"fast">>, <<"sync", "fast">>)
Slow == Feature(<<"sync">>, <<"slow">>, <<"Sync", "slow">>)
Made == Feature(<<"sync">>, <<"essay">>, <<"sync", "fast">>)
Long(text, quote) == Feature(<<"long name">>, <<text>>, quote)
Eight == Price("8", [currency |-> <<"usd">>], "MONTH", <<"pro", "8", "usd", "monthly">>)
Twelve == Price("12.50", << >>, Null, <<"pro", "12.50">>)

AnswersOf == <<
  {<<Fast>>, <<Fast, Slow>>, <<Slow, Fast, Slow>>, <<Made>>, << >>},
  {<<Slow>>, <<Long("fast", <<"long name", "fast">>), Slow>>, <<Eight>>, <<Slow, [Slow EXCEPT !.shape = FALSE]>>},
  {<<Eight>>, <<Twelve, Eight>>},
  {<<Feature(<<"sync">>, <<"essay", "essay">>, <<"sync", "essay", "essay">>)>>,
   <<Long("slow", <<"long name", "slow">>)>>} >>

Limit(pages, asked, facts, input, called, retried, reserved) ==
  [pages |-> pages, asks |-> asked, facts |-> facts, input |-> input, calls |-> called,
   retries |-> retried, reservations |-> reserved]
AllSettings == {Limit(3, 3, 3, 3000, 5, 1, 5), Limit(2, 3, 2, 1000, 2, 2, 3), Limit(3, 2, 3, 3000, 4, 1, 2)}

Answer(k, to, text) == [kind |-> k, to |-> to, text |-> text, signals |-> {},
                         canonical |-> None, nav |-> {}]
Web == << {Answer("page", None, 1), Answer("page", None, 4), Answer("timeout", None, 0)},
          {Answer("page", None, 2), Answer("shell", None, 0), Answer("redirect", Home, 0)},
          {Answer("page", None, 3), Answer("page", None, 0)} >>
=============================================================================

-------------------------- MODULE MCSourceDiscovery --------------------------
(***************************************************************************)
(* The site of a competitor with a host for its documentation, a rival site *)
(* with a name like it, and a store.  One call has the limits of the console*)
(* and the command line in small, the other those of a research task.       *)
(***************************************************************************)
EXTENDS SourceDiscovery

AtlasHome == 1
AtlasPlans == 2
AtlasPricing == 3
DocsFeatures == 4
RivalHome == 5
StorePage == 6
RivalPlans == 7

AllUrls  == AtlasHome .. RivalPlans
AllHosts == 1 .. 5
Atlas == 1
Docs == 2
Rival == 3
Store == 4
Www == 5
HostOf   == <<Www, Www, Www, Docs, Rival, Store, Rival>>
SiteName == <<Atlas, Atlas, Rival, Store, Atlas>>
OnlyStore == {Store}

HomePaths   == {AtlasHome, RivalHome}
Feature     == {DocsFeatures}
Price       == {AtlasPlans, AtlasPricing, RivalPlans}
Typical     == {AtlasPlans, AtlasPricing, RivalPlans}
NoUrl       == {}
Keywords    == [FEATURES |-> <<0, 0, 0, 2, 0, 0, 0>>, PRICING |-> <<1, 1, 1, 0, 0, 0, 1>>,
                CHANGELOG |-> <<0, 0, 0, 0, 0, 1, 0>>]
Topics      == [FEATURES |-> {}, PRICING |-> Typical, CHANGELOG |-> {}]
AllBranded  == AllUrls
SpeltOut    == AllUrls \ {DocsFeatures}
AtlasHosts  == {Atlas, Docs, Www}
PathOrder   == <<1, 2, 2, 2, 1, 1, 2>>

\* As the API gives them: also the homepage with a campaign, and without a host name.
Campaign  == 8
Nowhere   == 9
AllLinks  == AllUrls \cup {Campaign, Nowhere}
NormalOf  == [l \in AllLinks |-> CASE l = Campaign -> AtlasHome [] l = Nowhere -> None [] OTHER -> l]

Answered(k, to, text, sig, own, nav) ==
  [kind |-> k, to |-> to, text |-> text, signals |-> sig, canonical |-> own, nav |-> nav]
\* A page says of itself that it belongs to the site of its homepage.
Ours(text, home, more, nav) == Answered("page", None, text, {"title", "links"} \cup more, home, nav)
MovedTo(u) == Answered("redirect", u, 0, {}, None, {})
Bad(kind)  == Answered(kind, None, 0, {}, None, {})

\* The homepage links its pages, or has its prices below an anchor of its own.
Web == <<
  {Ours(1, AtlasHome, {"price"}, {AtlasPlans, AtlasPricing, DocsFeatures}),
   Ours(1, AtlasHome, {"price"}, {AtlasHome, DocsFeatures}), Bad("denied")},
  {Ours(2, AtlasHome, {"price"}, {}), MovedTo(AtlasPricing)},
  {Ours(3, AtlasHome, {"price"}, {})},
  {Ours(4, AtlasHome, {}, {}), MovedTo(RivalPlans)},
  {Ours(5, RivalHome, {"og"}, {RivalPlans}), MovedTo(AtlasHome)},
  {Ours(6, StorePage, {}, {})},
  {Ours(7, RivalHome, {"price"}, {})} >>

TwoIntents == <<"OFFICIAL_SITE", "PRICING">>
At(position, url) == [position |-> position, url |-> url]
Responses == [
  OFFICIAL_SITE |-> {
    [organic |-> <<At(2, DocsFeatures), At(1, Campaign), At(3, RivalHome), At(4, Nowhere), At(0, StorePage)>>,
     boxes |-> <<AtlasHome>>],
    [organic |-> <<At(0, RivalHome)>>, boxes |-> <<None, RivalPlans>>]},
  PRICING |-> {[organic |-> <<At(0, AtlasPlans), At(0, AtlasPricing)>>, boxes |-> << >>]}]
OnSite  == [FEATURES |-> {{StorePage}}, PRICING |-> {{StorePage}}, CHANGELOG |-> {{AtlasPlans}}]

First == "console"
Second == "research"
Both == {First, Second}
Console  == [results |-> 10, urls |-> 3, sites |-> 2, perSite |-> 2, supplemental |-> 1, pages |-> 8,
             perType |-> 2, attempts |-> 2, expected |-> None]
Research == [results |-> 10, urls |-> 20, sites |-> 1, perSite |-> 1, supplemental |-> 0, pages |-> 3,
             perType |-> 1, attempts |-> 1, expected |-> Atlas]
LimitsOf == [d \in Both |-> IF d = First THEN Console ELSE Research]
=============================================================================

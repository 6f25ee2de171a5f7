------------------------ MODULE SourceDiscoveryProofs ------------------------
(***************************************************************************)
(* Theorems about SourceDiscovery, for any number of calls, whatever the   *)
(* search and the sites answer: whose pages are saved, what stands behind  *)
(* the domain of a profile, which results of a search are looked at, and   *)
(* that a call knows the parts of the rows it writes.                      *)
(***************************************************************************)
EXTENDS SourceDiscovery, PageFetchingProofs, FiniteSetTheorems, SequenceTheorems

Fields == {"phase", "asked", "attempt", "found", "queue", "checked", "pages", "official", "home",
           "homeUrl", "at", "options", "asides", "tried", "blocked", "accepted", "row", "seen"}

\* A page of the official site of memory m that is not refused for its host.
Official(m, u) == SiteOf(u) = m.official /\ Host[u] \notin Rejected

Undecided == {"search", "identity"}

\* What the memory of a call guarantees of the pages it may still save.
Sound(d, m) ==
  /\ DOMAIN m = Fields
  /\ \A u \in DOMAIN m.checked :
       m.checked[u].verdict # "REJECTED" => Host[m.checked[u].final] \notin Rejected
  /\ m.phase \notin Undecided \cup Ended => Limits[d].expected \in {None, m.official}
  /\ m.phase \in {"plan", "aside"} => Official(m, m.home)
  /\ m.phase = "option" => \A a \in m.accepted : Official(m, a.final)
  /\ m.phase \in {"save", "commit"} => m.row.by = d /\ Official(m, m.row.final)

Discovering ==
  /\ DOMAIN call = Discoveries
  /\ \A d \in Discoveries : Sound(d, call[d])
  /\ \A r \in sources : r.by \in Discoveries /\ call[r.by].phase \notin Undecided
  /\ RowsAreOfficial

\* A step of call d decides about its own memory only, and once about its official site.
Advances(d) ==
  /\ DOMAIN call' = Discoveries /\ \A e \in Discoveries \ {d} : call'[e] = call[e]
  /\ Sound(d, call'[d])
  /\ call[d].phase \in Undecided \/ (call'[d].official = call[d].official /\ call'[d].phase \notin Undecided)

LEMMA AdvanceKeeps ==
  ASSUME Discovering, NEW d \in Discoveries, Advances(d), UNCHANGED sources
  PROVE  Discovering'
BY DEF Discovering, Advances, RowsAreOfficial

LEMMA SaveKeeps ==
  ASSUME Discovering, NEW d \in Discoveries, Advances(d), call[d].phase = "commit",
         sources' = Saved(sources, call[d].row)
  PROVE  Discovering'
<1>1. /\ call[d].row.by = d /\ Official(call[d], call[d].row.final)
      /\ Limits[d].expected \in {None, call[d].official}
  BY DEF Discovering, Sound, Undecided, Ended
<1>2. /\ call'[d].official = call[d].official
      /\ \A e \in Discoveries : call[e].phase \notin Undecided =>
           call'[e].official = call[e].official /\ call'[e].phase \notin Undecided
  BY DEF Advances, Undecided
<1>3. \A r \in sources' : r \in sources \/ r = call[d].row
  BY DEF Saved
<1> QED  BY <1>1, <1>2, <1>3 DEF Discovering, Advances, RowsAreOfficial, Official, Undecided

LEMMA SearchAdvances ==
  ASSUME Discovering, NEW d \in Discoveries,
         SearchAgain(d) \/ SearchFails(d) \/ Search(d) \/ Group(d)
  PROVE  Advances(d)
<1>0. DOMAIN call = Discoveries /\ DOMAIN call[d] = Fields /\ Sound(d, call[d])
  BY DEF Discovering, Sound
<1>1. CASE SearchAgain(d)
  BY <1>0, <1>1 DEF SearchAgain, Advances, Sound, Fields, Asking, Official
<1>2. CASE SearchFails(d)
  BY <1>0, <1>2 DEF SearchFails, Advances, Sound, Fields, Undecided
<1>3. CASE Search(d)
  <2>1. PICK new : call' = [call EXCEPT ![d].asked = @ + 1, ![d].attempt = 0, ![d].found = new]
    BY <1>3 DEF Search
  <2>2. call[d].phase = "search"
    BY <1>3 DEF Search
  <2> QED  BY <1>0, <2>1, <2>2 DEF Advances, Sound, Fields, Undecided
<1>4. CASE Group(d)
  BY <1>0, <1>4 DEF Group, Advances, Sound, Fields, Undecided
<1> QED  BY <1>1, <1>2, <1>3, <1>4

LEMMA IdentityAdvances ==
  ASSUME Discovering, NEW d \in Discoveries, ReadIdentity(d)
  PROVE  Advances(d)
<1>0. DOMAIN call = Discoveries /\ DOMAIN call[d] = Fields /\ Sound(d, call[d])
  BY DEF Discovering, Sound
<1>1. PICK u, p, rest, read :
        call' = [call EXCEPT ![d].queue = rest, ![d].pages = read,
                   ![d].checked = Put(@, {u}, [final |-> p.final, verdict |-> Verdict(p),
                                               confidence |-> Confidence(p)])]
  BY DEF ReadIdentity
<1>2. call[d].phase = "identity"
  BY DEF ReadIdentity
<1> DEFINE checked == Put(call[d].checked, {u}, [final |-> p.final, verdict |-> Verdict(p),
                                                 confidence |-> Confidence(p)])
<1>3. Verdict(p) # "REJECTED" => Host[p.final] \notin Rejected
  BY DEF Verdict
<1>4. \A v \in DOMAIN checked :
        checked[v].verdict # "REJECTED" => Host[checked[v].final] \notin Rejected
  BY <1>0, <1>3 DEF Put, Sound
<1>5. call' = [call EXCEPT ![d].queue = rest, ![d].pages = read, ![d].checked = checked]
  BY <1>0, <1>1 DEF Fields
<1> HIDE DEF checked
<1> QED  BY <1>0, <1>2, <1>4, <1>5 DEF Advances, Sound, Fields, Undecided

\* What a call keeps when it ends.
LEMMA EndAdvances ==
  ASSUME Discovering, NEW d \in Discoveries, NEW how \in Ended, call[d].phase \notin Ended,
         call' = [call EXCEPT ![d] = End(d, how)]
  PROVE  Advances(d)
<1>1. DOMAIN call = Discoveries /\ DOMAIN call[d] = Fields
  BY DEF Discovering, Sound
<1>2. /\ DOMAIN End(d, how) = Fields /\ End(d, how).phase = how
      /\ End(d, how).official = call[d].official /\ End(d, how).checked = << >>
  BY DEF End, Fresh, Fields
<1>3. Sound(d, End(d, how))
  BY <1>2 DEF Sound, Ended
<1> QED  BY <1>1, <1>2, <1>3 DEF Advances, Undecided, Ended

LEMMA DecideAdvances ==
  ASSUME Discovering, NEW d \in Discoveries, Decide(d)
  PROVE  Advances(d)
<1>0. DOMAIN call = Discoveries /\ DOMAIN call[d] = Fields /\ Sound(d, call[d])
  BY DEF Discovering, Sound
<1>1. call[d].phase = "identity"
  BY DEF Decide
<1>2. CASE call' = [call EXCEPT ![d] = End(d, "done")]
  BY <1>1, <1>2, EndAdvances DEF Ended
<1>3. ASSUME NEW s \in Agreed(d), call' = [call EXCEPT ![d].phase = "home", ![d].official = s]
      PROVE  Advances(d)
  <2>1. Limits[d].expected \in {None, s}
    BY DEF Agreed
  <2> QED  BY <1>0, <1>1, <1>3, <2>1 DEF Advances, Sound, Fields, Undecided, Ended
<1> QED  BY <1>2, <1>3 DEF Decide

LEMMA HomeAdvances ==
  ASSUME Discovering, NEW d \in Discoveries, ChooseHome(d)
  PROVE  Advances(d)
<1>0. DOMAIN call = Discoveries /\ DOMAIN call[d] = Fields /\ Sound(d, call[d])
  BY DEF Discovering, Sound
<1>1. call[d].phase = "home"
  BY DEF ChooseHome
<1>2. CASE call' = [call EXCEPT ![d] = End(d, "done")]
  BY <1>1, <1>2, EndAdvances DEF Ended
<1>3. ASSUME NEW u \in Homes(d, call[d].official), NEW final, final = call[d].checked[u].final,
             call' = [call EXCEPT ![d].phase = "plan", ![d].home = final, ![d].homeUrl = u]
      PROVE  Advances(d)
  <2>1. Official(call[d], final)
    BY <1>0, <1>3 DEF Homes, Matching, Official, Sound
  <2> QED  BY <1>0, <1>1, <1>3, <2>1 DEF Advances, Sound, Fields, Undecided, Ended, Official
<1> QED  BY <1>2, <1>3 DEF ChooseHome

LEMMA PlannedAdvances ==
  ASSUME Discovering, NEW d \in Discoveries, NEW known, call[d].phase \in {"plan", "aside"},
         call' = Planned(d, known)
  PROVE  Advances(d)
<1>0. DOMAIN call = Discoveries /\ DOMAIN call[d] = Fields /\ Sound(d, call[d])
  BY DEF Discovering, Sound
<1>1. PICK new, next : call' = [call EXCEPT ![d].options = new, ![d].attempt = 0,
                                            ![d].phase = "plan", ![d].at = next]
  BY DEF Planned
<1> QED  BY <1>0, <1>1 DEF Advances, Sound, Fields, Undecided, Ended, Official

LEMMA PlanAdvances ==
  ASSUME Discovering, NEW d \in Discoveries, Plan(d) \/ Supplement(d) \/ EndPlan(d)
  PROVE  Advances(d)
<1>0. DOMAIN call = Discoveries /\ DOMAIN call[d] = Fields /\ Sound(d, call[d])
  BY DEF Discovering, Sound
<1>1. CASE Plan(d)
  <2>1. call[d].phase = "plan"
    BY <1>1 DEF Plan, Planning
  <2>2. CASE call' = [call EXCEPT ![d].phase = "aside", ![d].asides = @ + 1]
    BY <1>0, <2>1, <2>2 DEF Advances, Sound, Fields, Undecided, Ended, Official
  <2> QED  BY <1>1, <2>1, <2>2, PlannedAdvances DEF Plan
<1>2. CASE Supplement(d)
  <2>1. call[d].phase = "aside"
    BY <1>2 DEF Supplement
  <2>2. call' = Planned(d, {}) \/ call' = [call EXCEPT ![d] = End(d, "raised")]
    BY <1>2 DEF Supplement
  <2> QED  BY <2>1, <2>2, PlannedAdvances, EndAdvances DEF Ended
<1>3. CASE EndPlan(d)
  <2>1. call[d].phase = "plan"
    BY <1>3 DEF EndPlan
  <2> DEFINE row == [final |-> call[d].home, url |-> call[d].homeUrl, type |-> "HOMEPAGE",
                     domain |-> call[d].official, by |-> d]
  <2>2. PICK kept : call' = [call EXCEPT ![d].phase = "save", ![d].at = 0, ![d].asides = 0,
                      ![d].found = << >>, ![d].checked = << >>, ![d].home = None,
                      ![d].homeUrl = None, ![d].pages = kept, ![d].row = row]
    BY <1>3 DEF EndPlan
  <2>3. row.by = d /\ row.final = call[d].home
    OBVIOUS
  <2> HIDE DEF row
  <2>4. /\ DOMAIN call' = Discoveries /\ \A e \in Discoveries \ {d} : call'[e] = call[e]
        /\ DOMAIN call'[d] = Fields /\ call'[d].phase = "save" /\ call'[d].checked = << >>
        /\ call'[d].row = row /\ call'[d].official = call[d].official
    BY <1>0, <2>2 DEF Fields
  <2> QED  BY <1>0, <2>1, <2>3, <2>4 DEF Advances, Sound, Undecided, Ended, Official
<1> QED  BY <1>1, <1>2, <1>3

LEMMA ForwardAdvances ==
  ASSUME Discovering, NEW d \in Discoveries, call[d].phase \notin Undecided \cup Ended,
         call' = [call EXCEPT ![d] = Forward(d, call[d])]
  PROVE  Advances(d)
<1>0. DOMAIN call = Discoveries /\ DOMAIN call[d] = Fields /\ Sound(d, call[d])
  BY DEF Discovering, Sound
<1>1. CASE call' = [call EXCEPT ![d] = End(d, "done")]
  BY <1>1, EndAdvances DEF Ended
<1>2. ASSUME NEW next, call' = [call EXCEPT ![d] = [call[d] EXCEPT !.phase = "option", !.tried = {},
               !.blocked = FALSE, !.accepted = {}, !.row = << >>, !.seen = << >>, !.at = next]]
      PROVE  Advances(d)
  <2>1. /\ DOMAIN call' = Discoveries /\ \A e \in Discoveries \ {d} : call'[e] = call[e]
        /\ DOMAIN call'[d] = Fields /\ call'[d].phase = "option" /\ call'[d].checked = call[d].checked
        /\ call'[d].official = call[d].official /\ call'[d].accepted = {}
    BY <1>0, <1>2 DEF Fields
  <2> QED  BY <1>0, <2>1 DEF Advances, Sound, Undecided, Ended
<1> QED  BY <1>1, <1>2 DEF Forward

LEMMA OptionAdvances ==
  ASSUME Discovering, NEW d \in Discoveries, ReadOption(d) \/ LeaveType(d) \/ ChoosePage(d)
  PROVE  Advances(d)
<1>0. DOMAIN call = Discoveries /\ DOMAIN call[d] = Fields /\ Sound(d, call[d])
  BY DEF Discovering, Sound
<1>1. call[d].phase = "option"
  BY DEF ReadOption, LeaveType, ChoosePage
<1>2. CASE ReadOption(d)
  <2>1. PICK u, p : call' = [call EXCEPT
                      ![d].pages = Put(@, {u}, p), ![d].tried = @ \cup {u},
                      ![d].blocked = (p.status = "BLOCKED"), ![d].accepted = Accepted(d, u, p)]
    BY <1>2, Zenon DEF ReadOption
  <2>2. Suitable(d, p) => Official(call[d], p.final)
    BY DEF Suitable, Official, Verdict
  <2>3. \A a \in Accepted(d, u, p) : Official(call[d], a.final)
    BY <1>0, <1>1, <2>2 DEF Accepted, Sound
  <2> DEFINE accepted == Accepted(d, u, p)
  <2>4. \A a \in accepted : Official(call[d], a.final)
    BY <2>3
  <2>5. /\ DOMAIN call' = Discoveries /\ \A e \in Discoveries \ {d} : call'[e] = call[e]
        /\ DOMAIN call'[d] = Fields /\ call'[d].phase = "option" /\ call'[d].checked = call[d].checked
        /\ call'[d].official = call[d].official /\ call'[d].accepted = accepted
    <3> HIDE DEF accepted
    <3>1. call' = [call EXCEPT ![d].pages = Put(@, {u}, p), ![d].tried = @ \cup {u},
                     ![d].blocked = (p.status = "BLOCKED"), ![d].accepted = accepted]
      BY <2>1 DEF accepted
    <3> QED  BY <1>0, <1>1, <3>1 DEF Fields
  <2> HIDE DEF accepted
  <2> QED  BY <1>0, <1>1, <2>4, <2>5 DEF Advances, Sound, Undecided, Ended, Official
<1>3. CASE LeaveType(d)
  BY <1>1, <1>3, ForwardAdvances DEF LeaveType, Undecided, Ended
<1>4. CASE ChoosePage(d)
  <2>1. PICK a \in call[d].accepted :
          call' = [call EXCEPT ![d].phase = "save",
                     ![d].row = [final |-> a.final, url |-> a.url, type |-> TypeOf(d),
                                 domain |-> Host[a.final], by |-> d]]
    BY <1>4 DEF ChoosePage
  <2>2. Official(call[d], a.final)
    BY <1>0, <1>1 DEF Sound
  <2> QED  BY <1>0, <1>1, <2>1, <2>2 DEF Advances, Sound, Fields, Undecided, Ended, Official
<1> QED  BY <1>2, <1>3, <1>4

LEMMA SavingAdvances ==
  ASSUME Discovering, NEW d \in Discoveries,
         ReadProfile(d) \/ CommitRaises(d) \/ SaveFails(d) \/ Crash(d) \/ Commit(d)
  PROVE  Advances(d)
<1>0. DOMAIN call = Discoveries /\ DOMAIN call[d] = Fields /\ Sound(d, call[d])
  BY DEF Discovering, Sound
<1>1. CASE ReadProfile(d)
  <2>1. PICK known : call' = [call EXCEPT ![d].phase = "commit", ![d].seen = known]
    BY <1>1 DEF ReadProfile
  <2>2. call[d].phase = "save"
    BY <1>1 DEF ReadProfile
  <2> QED  BY <1>0, <2>1, <2>2 DEF Advances, Sound, Fields, Undecided, Ended, Official
<1>2. CASE CommitRaises(d) \/ SaveFails(d) \/ Crash(d)
  <2>1. /\ call[d].phase \notin Ended
        /\ call' = [call EXCEPT ![d] = End(d, "raised")] \/ call' = [call EXCEPT ![d] = End(d, "dead")]
    BY <1>2 DEF CommitRaises, SaveFails, Crash, Ended
  <2> QED  BY <2>1, EndAdvances DEF Ended
<1>3. CASE Commit(d)
  BY <1>3, ForwardAdvances DEF Commit, Undecided, Ended
<1> QED  BY <1>1, <1>2, <1>3
-----------------------------------------------------------------------------
(* Official sources *)

LEMMA DiscoveringInit == Init => Discovering
BY DEF Init, Discovering, Sound, Fresh, Fields, Undecided, RowsAreOfficial, Ended

LEMMA DiscoveringStep == ASSUME Discovering, [Next]_vars PROVE Discovering'
<1>1. ASSUME NEW d \in Discoveries, Commit(d)
      PROVE  Discovering'
  <2>1. call[d].phase = "commit" /\ sources' = Saved(sources, call[d].row)
    BY <1>1 DEF Commit
  <2> QED  BY <1>1, <2>1, SavingAdvances, SaveKeeps
<1>2. ASSUME NEW d \in Discoveries, Step(d) \/ SaveFails(d) \/ Crash(d), ~Commit(d)
      PROVE  Discovering'
  <2>1. UNCHANGED sources
    BY <1>2 DEF Step, SearchAgain, SearchFails, Search, Group, ReadIdentity, Decide, ChooseHome, Plan,
       Supplement, EndPlan, ReadOption, LeaveType, ChoosePage, ReadProfile, CommitRaises, SaveFails,
       Crash, Local
  <2>2. Advances(d)
    BY <1>2, SearchAdvances, IdentityAdvances, DecideAdvances, HomeAdvances, PlanAdvances,
       OptionAdvances, SavingAdvances DEF Step
  <2> QED  BY <2>1, <2>2, AdvanceKeeps
<1>3. CASE UNCHANGED vars
  BY <1>3 DEF vars, Discovering, RowsAreOfficial
<1> QED  BY <1>1, <1>2, <1>3 DEF Next

\* No call of discover ever saves a page of another site than the one it found official,
\* of a refused host, or of a site its task does not expect, whatever search, sites and
\* concurrent calls answer (SourceDiscoveryService.discover).
THEOREM OfficialRows == Spec => []RowsAreOfficial
<1>1. Discovering => RowsAreOfficial
  BY DEF Discovering
<1> QED  BY <1>1, DiscoveringInit, DiscoveringStep, PTL DEF Spec

\* The domain of a profile always has a verified source behind it, in every order of the
\* transactions of several calls (SourceDiscoveryService._save_verified).
THEOREM ProfileBacked == Spec => []ProfileIsBacked
<1>1. Init => ProfileIsBacked
  BY DEF Init, ProfileIsBacked
<1>2. ASSUME ProfileIsBacked, [Next]_vars PROVE ProfileIsBacked'
  <2>1. ASSUME NEW d \in Discoveries, Commit(d) PROVE ProfileIsBacked'
    BY <2>1 DEF Commit, Saved, ProfileIsBacked
  <2>2. CASE UNCHANGED <<profile, sources>>
    BY <1>2, <2>2 DEF ProfileIsBacked
  <2>3. ASSUME NEW d \in Discoveries, Step(d) \/ SaveFails(d) \/ Crash(d), ~Commit(d)
        PROVE  UNCHANGED <<profile, sources>>
    BY <2>3 DEF Step, SearchAgain, SearchFails, Search, Group, ReadIdentity, Decide, ChooseHome, Plan,
       Supplement, EndPlan, ReadOption, LeaveType, ChoosePage, ReadProfile, CommitRaises, SaveFails,
       Crash, Local
  <2> QED  BY <1>2, <2>1, <2>2, <2>3 DEF Next, vars
<1> QED  BY <1>1, <1>2, PTL DEF Spec
-----------------------------------------------------------------------------
(* The results of a search *)

\* In a finite set of places ordered by rank, and by place where ranks are equal, each
\* position has one place.
LEMMA Positions ==
  ASSUME NEW K \in SUBSET Nat, IsFiniteSet(K), NEW rank \in [K -> Nat]
  PROVE  LET Ahead(i, j) == rank[i] < rank[j] \/ (rank[i] = rank[j] /\ i < j)
             Position(i) == Cardinality({j \in K : Ahead(j, i)})
         IN  /\ \A i \in K : Position(i) \in 0 .. Cardinality(K) - 1
             /\ \A i, j \in K : Position(i) = Position(j) => i = j
             /\ \A i, j \in K : Position(i) < Position(j) => Ahead(i, j)
             /\ \A k \in 0 .. Cardinality(K) - 1 : \E i \in K : Position(i) = k
<1> DEFINE Ahead(i, j) == rank[i] < rank[j] \/ (rank[i] = rank[j] /\ i < j)
           Front(i) == {j \in K : Ahead(j, i)}
           Position(i) == Cardinality(Front(i))
           n == Cardinality(K)
           place == [i \in K |-> Position(i)]
<1>0. n \in Nat
  BY FS_CardinalityType
<1>1. \A i, j \in K : i = j \/ Ahead(i, j) \/ Ahead(j, i)
  OBVIOUS
<1>2. \A i \in K : ~Ahead(i, i)
  OBVIOUS
<1>3. \A i, j, k \in K : Ahead(i, j) /\ Ahead(j, k) => Ahead(i, k)
  OBVIOUS
<1> HIDE DEF Ahead
<1>4. ASSUME NEW i \in K
      PROVE  /\ IsFiniteSet(Front(i)) /\ Position(i) \in 0 .. n - 1
  <2>1. Front(i) \subseteq K /\ i \notin Front(i)
    BY <1>2
  <2> HIDE DEF Front
  <2>2. IsFiniteSet(Front(i)) /\ Cardinality(Front(i)) <= Cardinality(K)
        /\ (Cardinality(K) = Cardinality(Front(i)) => K = Front(i))
    BY <2>1, FS_Subset
  <2>3. Cardinality(Front(i)) \in Nat
    BY <2>2, FS_CardinalityType
  <2>4. Cardinality(K) # Cardinality(Front(i))
    BY <2>1, <2>2
  <2> QED  BY <1>0, <2>2, <2>3, <2>4
<1>5. ASSUME NEW i \in K, NEW j \in K, Ahead(i, j)
      PROVE  Position(i) < Position(j)
  <2>1. Front(i) \subseteq Front(j) /\ i \in Front(j) /\ i \notin Front(i)
    BY <1>2, <1>3, <1>5
  <2>2. IsFiniteSet(Front(j))
    BY <1>4
  <2> HIDE DEF Front
  <2>3. /\ Cardinality(Front(i)) <= Cardinality(Front(j))
        /\ Cardinality(Front(j)) = Cardinality(Front(i)) => Front(j) = Front(i)
    BY <2>1, <2>2, FS_Subset
  <2>4. Cardinality(Front(i)) \in Nat /\ Cardinality(Front(j)) \in Nat
    BY <1>0, <1>4
  <2> QED  BY <2>1, <2>3, <2>4
<1>6. \A i, j \in K : /\ Position(i) = Position(j) => i = j
                      /\ Position(i) < Position(j) => Ahead(i, j)
  <2>1. \A i \in K : Position(i) \in Int
    BY <1>0, <1>4
  <2> HIDE DEF Position
  <2> QED  BY <1>1, <1>5, <2>1
<1>7. place \in Injection(K, 0 .. n - 1)
  <2> HIDE DEF Position
  <2>1. place \in [K -> 0 .. n - 1]
    BY <1>4
  <2>2. \A i, j \in K : place[i] = place[j] => i = j
    BY <1>6
  <2> HIDE DEF place
  <2> QED  BY <2>1, <2>2 DEF Injection, IsInjective
<1>8. IsFiniteSet(0 .. n - 1) /\ Cardinality(0 .. n - 1) = n
  <2> HIDE DEF n
  <2>1. n - 1 \in Int /\ 0 \in Int
    BY <1>0
  <2>2. /\ IsFiniteSet(0 .. n - 1)
        /\ Cardinality(0 .. n - 1) = IF 0 > n - 1 THEN 0 ELSE (n - 1) - 0 + 1
    <3> DEFINE last == n - 1
    <3>1. last \in Int
      BY <2>1
    <3> HIDE DEF last
    <3>2. IsFiniteSet(0 .. last) /\ Cardinality(0 .. last) = IF 0 > last THEN 0 ELSE last - 0 + 1
      BY <2>1, <3>1, FS_Interval
    <3> QED  BY <3>2 DEF last
  <2> QED  BY <1>0, <2>2
<1>9. place \in Surjection(K, 0 .. n - 1)
  <2> HIDE DEF place, Position
  <2>1. Cardinality(K) = Cardinality(0 .. n - 1) <=> place \in Surjection(K, 0 .. n - 1)
    BY <1>7, <1>8, FS_Injection
  <2> QED  BY <1>8, <2>1
<1>10. \A k \in 0 .. n - 1 : \E i \in K : Position(i) = k
  <2> HIDE DEF Position
  <2>1. \A k \in 0 .. n - 1 : \E i \in K : place[i] = k
    <3> HIDE DEF place
    <3> QED  BY <1>9 DEF Surjection
  <2> QED  BY <2>1
<1>11. /\ \A i \in K : Position(i) \in 0 .. n - 1
       /\ \A i, j \in K : Position(i) = Position(j) => i = j
       /\ \A i, j \in K : Position(i) < Position(j) => Ahead(i, j)
       /\ \A k \in 0 .. n - 1 : \E i \in K : Position(i) = k
  <2> HIDE DEF Position
  <2> QED  BY <1>4, <1>6, <1>10
<1> QED  BY <1>11, Zenon DEF Ahead

\* Finitely many numbers have a greatest.
LEMMA Greatest ==
  ASSUME NEW n \in Nat, NEW f \in [1 .. n -> Nat]
  PROVE  LET S == {0} \cup {f[i] : i \in 1 .. n}
         IN  \E m \in S : \A k \in S : k <= m
<1> DEFINE Upto(k) == {0} \cup {f[i] : i \in 1 .. k}
           Good == {k \in 0 .. n : \E m \in Upto(k) : \A x \in Upto(k) : x <= m}
<1>1. 0 \in Good
  OBVIOUS
<1>2. ASSUME NEW k \in 0 .. n - 1, k \in Good
      PROVE  k + 1 \in Good
  <2>1. PICK m \in Upto(k) : \A x \in Upto(k) : x <= m
    BY <1>2
  <2>2. f[k + 1] \in Nat /\ m \in Nat /\ k + 1 \in 0 .. n
    BY <2>1
  <2>3. Upto(k + 1) = Upto(k) \cup {f[k + 1]}
    OBVIOUS
  <2> HIDE DEF Upto
  <2>4. \E y \in Upto(k + 1) : \A x \in Upto(k + 1) : x <= y
    <3>1. CASE f[k + 1] <= m
      BY <2>1, <2>2, <2>3, <3>1
    <3>2. CASE m < f[k + 1]
      <4>1. \A x \in Upto(k) : x \in Nat
        BY DEF Upto
      <4> QED  BY <2>1, <2>2, <2>3, <3>2, <4>1
    <3> QED  BY <2>2, <3>1, <3>2
  <2> QED  BY <2>2, <2>4
<1>3. n \in Good
  <2> HIDE DEF Good
  <2>1. 0 .. n \subseteq Good
    BY <1>1, <1>2, Upwards
  <2> QED  BY <2>1
<1> QED  BY <1>3

\* An answer of the search API, and a row that is made of it.
Found    == [position: Nat, url: Links \cup {None}]
Answered(r) == r.organic \in Seq(Found) /\ r.boxes \in Seq(Links \cup {None})
Row      == [url: Links \cup {None}, rank: Nat]

\* The rows of an answer have a URL, or none, and a rank.
LEMMA RowsTyped == ASSUME NEW r, Answered(r) PROVE RowsOf(r) \in Seq(Row)
<1> DEFINE n == Len(r.organic)
           m == Len(r.boxes)
           organic == [i \in 1 .. n |->
             [url |-> r.organic[i].url, rank |-> IF r.organic[i].position > 0 THEN r.organic[i].position ELSE i]]
           last == {0} \cup {organic[i].rank : i \in 1 .. Len(organic)}
           top  == CHOOSE k \in last : \A j \in last : j <= k
           boxes == [i \in 1 .. m |-> [url |-> r.boxes[i], rank |-> (1 + top) + i - 1]]
<1>1. n \in Nat /\ m \in Nat
  BY DEF Answered
<1>2. organic \in [1 .. n -> Row]
  <2>1. \A i \in 1 .. n : r.organic[i] \in Found
    BY ElementOfSeq DEF Answered
  <2> QED  BY <1>1, <2>1 DEF Found, Row
<1>3. organic \in Seq(Row) /\ Len(organic) = n
  <2> HIDE DEF organic
  <2> QED  BY <1>1, <1>2
<1>4. top \in Nat
  <2> DEFINE f == [i \in 1 .. n |-> organic[i].rank]
  <2>1. f \in [1 .. n -> Nat]
    <3> HIDE DEF organic
    <3> QED  BY <1>2 DEF Row
  <2>2. last = {0} \cup {f[i] : i \in 1 .. n}
    <3> HIDE DEF organic
    <3> QED  BY <1>3
  <2> HIDE DEF organic, f, last
  <2>3. \E k \in last : \A j \in last : j <= k
    BY <1>1, <2>1, <2>2, Greatest
  <2>4. last \subseteq Nat
    BY <2>1, <2>2
  <2> QED  BY <2>3, <2>4
<1> HIDE DEF organic, top
<1>5. boxes \in [1 .. m -> Row]
  <2>1. \A i \in 1 .. m : r.boxes[i] \in Links \cup {None}
    BY ElementOfSeq DEF Answered
  <2>2. \A i \in 1 .. m : (1 + top) + i - 1 \in Nat
    BY <1>1, <1>4
  <2> QED  BY <2>1, <2>2 DEF Row
<1>6. boxes \in Seq(Row)
  <2> HIDE DEF boxes
  <2> QED  BY <1>1, <1>5
<1>7. organic \o boxes \in Seq(Row)
  <2> HIDE DEF boxes
  <2> QED  BY <1>3, <1>6, ConcatProperties
<1> QED  BY <1>7 DEF RowsOf, organic, top

\* Of the rows that name a URL, one is ahead of all the others.
LEMMA Foremost ==
  ASSUME NEW n \in Nat, NEW rows \in [1 .. n -> Row], NEW i \in 1 .. n
  PROVE  \E k \in 1 .. n : /\ rows[k].url = rows[i].url /\ rows[k].rank <= rows[i].rank
                           /\ \A j \in 1 .. n : rows[j].url = rows[i].url =>
                                rows[k].rank < rows[j].rank \/ (rows[k].rank = rows[j].rank /\ k <= j)
<1> DEFINE Named == {j \in 1 .. n : rows[j].url = rows[i].url}
           Ranks == {rows[j].rank : j \in Named}
<1>0. \A j \in 1 .. n : rows[j].rank \in Nat
  BY DEF Row
<1>1. Ranks \in SUBSET Nat /\ Ranks # {}
  BY <1>0
<1>2. PICK low \in Ranks : \A r \in Ranks : low <= r
  <2> HIDE DEF Ranks
  <2> QED  BY <1>1, LeastNatural
<1> DEFINE Lowest == {j \in Named : rows[j].rank = low}
<1>3. Lowest \in SUBSET Nat /\ Lowest # {}
  BY <1>2
<1>4. PICK k \in Lowest : \A j \in Lowest : k <= j
  <2> HIDE DEF Lowest
  <2> QED  BY <1>3, LeastNatural
<1>5. \A j \in Named : low <= rows[j].rank
  BY <1>2
<1>6. k \in Named /\ rows[k].rank = low
  BY <1>4
<1>7. \A j \in Named : rows[k].rank < rows[j].rank \/ (rows[k].rank = rows[j].rank /\ k <= j)
  <2> TAKE j \in Named
  <2>1. j \in 1 .. n /\ k \in 1 .. n /\ rows[j].rank \in Nat /\ rows[k].rank \in Nat
    BY <1>0, <1>6
  <2>2. rows[j].rank = low => k <= j
    BY <1>4
  <2> HIDE DEF Named
  <2> QED  BY <1>5, <1>6, <2>1, <2>2
<1> QED  BY <1>5, <1>6, <1>7

\* What is made of an answer, whatever its rows: addresses, as many as the limit at most, none
\* of them twice; an address of the answer is missing only when the limit is reached, and then
\* none that is listed ranks behind it (_parse_results).
THEOREM UsableIs ==
  ASSUME NEW r, Answered(r), NEW limit \in Nat
  PROVE  LET rows == RowsOf(r)
             urls == Usable(r, limit)
         IN  /\ urls \in Seq(Links) /\ Len(urls) <= limit
             /\ \A k, l \in 1 .. Len(urls) : urls[k] = urls[l] => k = l
             /\ \A i \in 1 .. Len(rows) : rows[i].url # None =>
                  \/ \E k \in 1 .. Len(urls) : urls[k] = rows[i].url
                  \/ /\ Len(urls) = limit
                     /\ \A k \in 1 .. limit : \E j \in 1 .. Len(rows) :
                          rows[j].url = urls[k] /\ rows[j].rank <= rows[i].rank
<1> DEFINE rows == RowsOf(r)
           N == Len(rows)
           Ahead(i, j) == rows[i].rank < rows[j].rank \/ (rows[i].rank = rows[j].rank /\ i < j)
           kept == {i \in 1 .. N : /\ rows[i].url # None
                      /\ \A j \in 1 .. N : rows[j].url = rows[i].url => ~Ahead(j, i)}
           n == IF Cardinality(kept) < limit THEN Cardinality(kept) ELSE limit
           Position(i) == Cardinality({j \in kept : Ahead(j, i)})
           At(k) == CHOOSE i \in kept : Position(i) = k - 1
           urls == [k \in 1 .. n |-> rows[At(k)].url]
           rank == [i \in kept |-> rows[i].rank]
<1>1. urls = Usable(r, limit)
  BY DEF Usable
<1>2. rows \in Seq(Row)
  BY RowsTyped
<1> HIDE DEF rows
<1>3. N \in Nat /\ rows \in [1 .. N -> Row]
  BY <1>2, LenProperties
<1>4. \A i \in 1 .. N : rows[i].rank \in Nat /\ rows[i].url \in Links \cup {None}
  BY <1>3 DEF Row
<1>5. kept \in SUBSET Nat /\ IsFiniteSet(kept)
  <2>1. kept \subseteq 1 .. N /\ IsFiniteSet(1 .. N)
    BY <1>3, FS_Interval
  <2>2. 1 .. N \subseteq Nat
    OBVIOUS
  <2> HIDE DEF kept, N
  <2> QED  BY <2>1, <2>2, FS_Subset
<1>6. rank \in [kept -> Nat]
  BY <1>4
<1>7. Cardinality(kept) \in Nat
  <2> HIDE DEF kept
  <2> QED  BY <1>5, FS_CardinalityType
<1>8. n \in Nat /\ n <= limit /\ n <= Cardinality(kept) /\ (n = limit \/ n = Cardinality(kept))
  <2> HIDE DEF kept
  <2> QED  BY <1>7
<1>9. /\ \A i \in kept : Position(i) \in 0 .. Cardinality(kept) - 1
      /\ \A i, j \in kept : Position(i) = Position(j) => i = j
      /\ \A i, j \in kept : Position(i) < Position(j) => Ahead(i, j)
      /\ \A k \in 0 .. Cardinality(kept) - 1 : \E i \in kept : Position(i) = k
  <2> DEFINE Ahead1(i, j) == rank[i] < rank[j] \/ (rank[i] = rank[j] /\ i < j)
             Position1(i) == Cardinality({j \in kept : Ahead1(j, i)})
  <2>1. /\ \A i \in kept : Position1(i) \in 0 .. Cardinality(kept) - 1
        /\ \A i, j \in kept : Position1(i) = Position1(j) => i = j
        /\ \A i, j \in kept : Position1(i) < Position1(j) => Ahead1(i, j)
        /\ \A k \in 0 .. Cardinality(kept) - 1 : \E i \in kept : Position1(i) = k
    <3> HIDE DEF kept, rank
    <3>1. \A i \in kept : Position1(i) \in 0 .. Cardinality(kept) - 1
      BY <1>5, <1>6, Positions
    <3>2. \A i, j \in kept : Position1(i) = Position1(j) => i = j
      BY <1>5, <1>6, Positions
    <3>3. \A i, j \in kept : Position1(i) < Position1(j) => Ahead1(i, j)
      BY <1>5, <1>6, Positions
    <3>4. \A k \in 0 .. Cardinality(kept) - 1 : \E i \in kept : Position1(i) = k
      BY <1>5, <1>6, Positions
    <3> QED  BY <3>1, <3>2, <3>3, <3>4
  <2>2. \A i, j \in kept : Ahead1(i, j) = Ahead(i, j)
    <3>1. \A i \in kept : rank[i] = rows[i].rank
      OBVIOUS
    <3>2. TAKE i, j \in kept
    <3>3. rank[i] = rows[i].rank /\ rank[j] = rows[j].rank
      BY <3>1
    <3> HIDE DEF kept, rank
    <3> QED  BY <3>3
  <2>3. \A i \in kept : Position(i) = Position1(i)
    <3> HIDE DEF kept, rank, Ahead, Ahead1
    <3>1. ASSUME NEW i \in kept PROVE {j \in kept : Ahead(j, i)} = {j \in kept : Ahead1(j, i)}
      BY <2>2 DEF Ahead1
    <3> QED  BY <3>1
  <2> HIDE DEF kept, rank, Ahead, Ahead1, Position, Position1
  <2> QED  BY <2>1, <2>2, <2>3
<1>10. ASSUME NEW i \in 1 .. N, rows[i].url # None
       PROVE  \E k \in kept : rows[k].url = rows[i].url /\ rows[k].rank <= rows[i].rank
  <2>1. PICK k \in 1 .. N : /\ rows[k].url = rows[i].url /\ rows[k].rank <= rows[i].rank
                            /\ \A j \in 1 .. N : rows[j].url = rows[i].url =>
                                rows[k].rank < rows[j].rank \/ (rows[k].rank = rows[j].rank /\ k <= j)
    BY <1>3, Foremost
  <2>2. \A j \in 1 .. N : rows[j].url = rows[k].url => ~Ahead(j, k)
    BY <1>3, <1>4, <2>1
  <2> QED  BY <1>10, <2>1, <2>2
<1>11. /\ \A i \in kept : i \in 1 .. N /\ rows[i].url # None
       /\ \A i, j \in kept : rows[i].url = rows[j].url => ~Ahead(i, j) /\ ~Ahead(j, i)
  OBVIOUS
<1>12. \A i, j \in kept : rows[i].url = rows[j].url => i = j
  <2>1. \A i, j \in 1 .. N : i = j \/ Ahead(i, j) \/ Ahead(j, i)
    BY <1>3, <1>4
  <2> HIDE DEF kept, Ahead
  <2> QED  BY <1>11, <2>1
<1>13. \A i, j \in kept : Ahead(i, j) => rows[i].rank <= rows[j].rank
  <2> HIDE DEF kept
  <2> QED  BY <1>4, <1>11
<1> HIDE DEF kept, Ahead, Position, n
<1>14. \A k \in 1 .. n : At(k) \in kept /\ Position(At(k)) = k - 1
  <2>1. ASSUME NEW k \in 1 .. n PROVE \E i \in kept : Position(i) = k - 1
    <3>1. k - 1 \in 0 .. Cardinality(kept) - 1
      BY <1>7, <1>8
    <3> QED  BY <1>9, <3>1
  <2> QED  BY <2>1
<1> HIDE DEF At
<1>15. urls \in Seq(Links) /\ Len(urls) = n
  <2>1. urls \in [1 .. n -> Links]
    BY <1>4, <1>11, <1>14
  <2> HIDE DEF urls
  <2> QED  BY <1>8, <2>1
<1>16. \A k, l \in 1 .. n : urls[k] = urls[l] => k = l
  <2>1. ASSUME NEW k \in 1 .. n, NEW l \in 1 .. n, urls[k] = urls[l] PROVE k = l
    <3>1. At(k) = At(l)
      BY <1>12, <1>14, <2>1
    <3>2. k - 1 = l - 1
      BY <1>14, <3>1
    <3> QED  BY <1>8, <3>2
  <2> QED  BY <2>1
<1>17. ASSUME NEW i \in 1 .. N, rows[i].url # None
       PROVE  \/ \E k \in 1 .. n : urls[k] = rows[i].url
              \/ /\ n = limit
                 /\ \A k \in 1 .. n : \E j \in 1 .. N :
                      rows[j].url = urls[k] /\ rows[j].rank <= rows[i].rank
  <2>1. PICK h \in kept : rows[h].url = rows[i].url /\ rows[h].rank <= rows[i].rank
    BY <1>10, <1>17
  <2>2. PICK p \in Nat : p = Position(h) /\ p <= Cardinality(kept) - 1
    BY <1>7, <1>9
  <2>3. CASE p < n
    <3>1. p + 1 \in 1 .. n
      BY <1>8, <2>2, <2>3
    <3>2. At(p + 1) \in kept /\ Position(At(p + 1)) = p
      BY <1>14, <3>1
    <3>3. At(p + 1) = h
      BY <1>9, <2>2, <3>2, Zenon
    <3> QED  BY <2>1, <3>1, <3>3
  <2>4. CASE n <= p
    <3>1. n = limit
      BY <1>7, <1>8, <2>2, <2>4
    <3>2. ASSUME NEW k \in 1 .. n
          PROVE  At(k) \in 1 .. N /\ rows[At(k)].url = urls[k] /\ rows[At(k)].rank <= rows[i].rank
      <4>1. Position(At(k)) < Position(h)
        BY <1>8, <1>14, <2>2, <2>4
      <4>2. rows[At(k)].rank <= rows[h].rank
        BY <1>9, <1>13, <1>14, <4>1
      <4>3. rows[At(k)].rank \in Nat /\ rows[h].rank \in Nat /\ rows[i].rank \in Nat
        BY <1>4, <1>11, <1>14
      <4> QED  BY <1>11, <1>14, <2>1, <4>2, <4>3
    <3> QED  BY <3>1, <3>2
  <2> QED  BY <1>8, <2>2, <2>3, <2>4
<1> HIDE DEF urls
<1>18. n = limit => 1 .. limit = 1 .. n
  OBVIOUS
<1>19. \A i \in 1 .. N : rows[i].url # None =>
         \/ \E k \in 1 .. n : urls[k] = rows[i].url
         \/ /\ n = limit
            /\ \A k \in 1 .. limit : \E j \in 1 .. N :
                 rows[j].url = urls[k] /\ rows[j].rank <= rows[i].rank
  BY <1>17, <1>18
<1>20. /\ urls \in Seq(Links) /\ Len(urls) <= limit
       /\ \A k, l \in 1 .. Len(urls) : urls[k] = urls[l] => k = l
       /\ \A i \in 1 .. N : rows[i].url # None =>
            \/ \E k \in 1 .. Len(urls) : urls[k] = rows[i].url
            \/ /\ Len(urls) = limit
               /\ \A k \in 1 .. limit : \E j \in 1 .. N :
                    rows[j].url = urls[k] /\ rows[j].rank <= rows[i].rank
  BY <1>8, <1>15, <1>16, <1>19, Zenon
<1> QED  BY <1>1, <1>20, Zenon DEF rows

-----------------------------------------------------------------------------
(* The memory of a call *)

\* What was collected: URLs, the pages behind some of them, and candidates whose page
\* is among those.
Collected(m) ==
  /\ DOMAIN m = Fields
  /\ m.phase \in Phases /\ m.asked \in Nat /\ m.at \in 0 .. Len(Types)
  /\ m.official \in Hosts \cup {None}
  /\ m.queue \subseteq Urls /\ DOMAIN m.found \subseteq Urls
  /\ \A u \in DOMAIN m.pages : u \in Urls /\ m.pages[u] \in Pages
  /\ \A u \in DOMAIN m.checked : u \in Urls /\ m.checked[u].final \in Urls \cap DOMAIN m.pages
  /\ \A t \in DOMAIN m.options : m.options[t] \subseteq Urls

\* What each phase relies on.
Ready(m) ==
  /\ m.phase \notin Undecided \cup Ended => m.official \in Hosts
  /\ m.phase = "aside" => m.at < Len(Types)
  /\ m.phase \in {"plan", "aside"} => m.home \in Urls \cap DOMAIN m.pages /\ m.homeUrl \in Urls
  /\ m.phase = "option" =>
       /\ m.at \in 1 .. Len(Types) /\ Types[m.at] \in DOMAIN m.options
       /\ \A a \in m.accepted : a.final \in Urls /\ a.url \in Urls
  /\ m.phase \in {"save", "commit"} => m.row \in Rows

Typed ==
  /\ DOMAIN call = Discoveries
  /\ profile \in Hosts \cup {None} /\ sources \subseteq Rows
  /\ \A d \in Discoveries : Collected(call[d]) /\ Ready(call[d])

\* A step of call d changes its own memory only.
Keeps(d) ==
  /\ DOMAIN call' = Discoveries /\ \A e \in Discoveries \ {d} : call'[e] = call[e]
  /\ Collected(call'[d]) /\ Ready(call'[d])

LEMMA TypedInit == Init => Typed
<1> SUFFICES ASSUME Init PROVE Typed
  OBVIOUS
<1>1. Collected(Fresh) /\ Ready(Fresh)
  BY DEF Fresh, Collected, Ready, Fields, Phases, Undecided, Ended, Types
<1> QED  BY <1>1 DEF Init, Typed

LEMMA EndKeeps ==
  ASSUME Typed, NEW d \in Discoveries, NEW how \in Ended, call' = [call EXCEPT ![d] = End(d, how)]
  PROVE  Keeps(d)
<1>1. DOMAIN call = Discoveries /\ call[d].official \in Hosts \cup {None}
  BY DEF Typed, Collected
<1>2. Collected(End(d, how)) /\ Ready(End(d, how))
  BY <1>1 DEF End, Fresh, Collected, Ready, Fields, Phases, Undecided, Ended, Types
<1> QED  BY <1>1, <1>2 DEF Keeps

LEMMA SearchKeeps ==
  ASSUME Typed, NEW d \in Discoveries, SearchAgain(d) \/ SearchFails(d) \/ Search(d)
  PROVE  Keeps(d)
<1>0. DOMAIN call = Discoveries /\ DOMAIN call[d] = Fields /\ Collected(call[d]) /\ Ready(call[d])
  BY DEF Typed, Collected
<1>1. CASE SearchAgain(d)
  BY <1>0, <1>1 DEF SearchAgain, Keeps, Collected, Ready, Fields
<1>2. CASE SearchFails(d)
  BY <1>0, <1>2 DEF SearchFails, Keeps, Collected, Ready, Fields
<1>3. CASE Search(d)
  <2>1. call[d].phase = "search" /\ call[d].asked < Len(Intents) /\ call[d].asked + 1 \in 1 .. Len(Intents)
    <3>1. Len(Intents) \in Nat /\ call[d].asked \in Nat
      BY <1>0, DiscoveryAssumption DEF Collected
    <3> QED  BY <1>3, <3>1 DEF Search, Asking
  <2>2. PICK r \in Respond[Intents[call[d].asked + 1]] :
          call' = [call EXCEPT ![d].asked = @ + 1, ![d].attempt = 0,
                     ![d].found = Taken(d, Usable(r, Limits[d].results), Intents[call[d].asked + 1])]
    BY <1>3, Zenon DEF Search
  <2>3. Answered(r) /\ Limits[d].results \in Nat
    BY <2>1, DiscoveryAssumption DEF Answered, Found, LimitNames
  <2>4. Usable(r, Limits[d].results) \in Seq(Links)
    BY <2>3, UsableIs, Zenon
  <2> DEFINE found == Taken(d, Usable(r, Limits[d].results), Intents[call[d].asked + 1])
  <2>6. DOMAIN found \subseteq Urls
    <3> DEFINE results == Usable(r, Limits[d].results)
               url == [i \in 1 .. Len(results) |-> Normal[results[i]]]
    <3>1. results \in Seq(Links)
      BY <2>4
    <3>2. \A i \in 1 .. Len(results) : url[i] \in Urls \cup {None}
      <4> HIDE DEF results
      <4> QED  BY <3>1, ElementOfSeq, DiscoveryAssumption
    <3>3. \A u \in DOMAIN found : u \in DOMAIN call[d].found
                                 \/ \E i \in 1 .. Len(results) : url[i] # None /\ u = url[i]
      <4> HIDE DEF results
      <4> QED  BY DEF Taken, results
    <3> HIDE DEF found, results, url
    <3> QED  BY <1>0, <3>2, <3>3 DEF Collected
  <2>7. call' = [call EXCEPT ![d].asked = @ + 1, ![d].attempt = 0, ![d].found = found]
    BY <1>0, <2>2 DEF Fields
  <2> HIDE DEF found
  <2> QED  BY <1>0, <2>1, <2>6, <2>7 DEF Keeps, Collected, Ready, Fields
<1> QED  BY <1>1, <1>2, <1>3

LEMMA IdentityKeeps ==
  ASSUME Typed, NEW d \in Discoveries, Group(d) \/ ReadIdentity(d)
  PROVE  Keeps(d)
<1>0. DOMAIN call = Discoveries /\ DOMAIN call[d] = Fields /\ Collected(call[d]) /\ Ready(call[d])
  BY DEF Typed, Collected
<1>1. CASE Group(d)
  <2>1. Examined(d) \subseteq Urls
    BY <1>0 DEF Examined, Candidates, Collected
  <2> DEFINE queue == Examined(d)
  <2>2. call' = [call EXCEPT ![d].phase = "identity", ![d].queue = queue]
    BY <1>1 DEF Group
  <2>3. queue \subseteq Urls
    BY <2>1
  <2> HIDE DEF queue
  <2> QED  BY <1>0, <2>2, <2>3 DEF Keeps, Collected, Ready, Fields, Phases, Undecided, Ended
<1>2. CASE ReadIdentity(d)
  <2>1. call[d].phase = "identity"
    BY <1>2 DEF ReadIdentity
  <2>2. PICK u \in call[d].queue : \E p \in Fetched[u] :
          call' = [call EXCEPT
            ![d].queue   = {v \in @ \ {u} : Settles(p) => SiteOf(v) # SiteOf(u)},
            ![d].pages   = Put(@, {u, p.final}, p),
            ![d].checked = Put(@, {u}, [final |-> p.final, verdict |-> Verdict(p),
                                        confidence |-> Confidence(p)])]
    BY <1>2, Zenon DEF ReadIdentity
  <2>3. PICK p \in Fetched[u] :
          call' = [call EXCEPT
            ![d].queue   = {v \in @ \ {u} : Settles(p) => SiteOf(v) # SiteOf(u)},
            ![d].pages   = Put(@, {u, p.final}, p),
            ![d].checked = Put(@, {u}, [final |-> p.final, verdict |-> Verdict(p),
                                        confidence |-> Confidence(p)])]
    BY <2>2, Zenon
  <2> DEFINE queue == {v \in call[d].queue \ {u} : Settles(p) => SiteOf(v) # SiteOf(u)}
             pages == Put(call[d].pages, {u, p.final}, p)
             checked == Put(call[d].checked, {u}, [final |-> p.final, verdict |-> Verdict(p),
                                                   confidence |-> Confidence(p)])
  <2>4. u \in Urls /\ p \in Pages /\ p.final \in Urls
    <3>1. u \in Urls
      BY <1>0 DEF Collected
    <3>2. p \in Pages
      BY <3>1, FetchedTyped
    <3> QED  BY <3>1, <3>2 DEF Pages
  <2>5. queue \subseteq Urls
    BY <1>0 DEF Collected
  <2>6. /\ \A v \in DOMAIN pages : v \in Urls /\ pages[v] \in Pages
        /\ DOMAIN pages = DOMAIN call[d].pages \cup {u, p.final}
    BY <1>0, <2>4 DEF Put, Collected
  <2>7. \A v \in DOMAIN checked : v \in Urls /\ checked[v].final \in Urls \cap DOMAIN pages
    <3>1. DOMAIN checked = DOMAIN call[d].checked \cup {u}
      BY DEF Put
    <3>2. checked[u].final = p.final
      BY DEF Put
    <3>3. \A v \in DOMAIN call[d].checked \ {u} : checked[v] = call[d].checked[v]
      BY DEF Put
    <3> HIDE DEF checked, pages
    <3> QED  BY <1>0, <2>4, <2>6, <3>1, <3>2, <3>3 DEF Collected
  <2>8. call' = [call EXCEPT ![d].queue = queue, ![d].pages = pages, ![d].checked = checked]
    BY <1>0, <2>3 DEF Fields
  <2> HIDE DEF queue, pages, checked
  <2> QED  BY <1>0, <2>1, <2>5, <2>6, <2>7, <2>8 DEF Keeps, Collected, Ready, Fields, Undecided
<1> QED  BY <1>1, <1>2

LEMMA SitesTyped == \A u \in Urls : Host[u] \in Hosts /\ SiteOf(u) \in Hosts
BY DiscoveryAssumption DEF SiteOf

LEMMA DecideKeeps ==
  ASSUME Typed, NEW d \in Discoveries, Decide(d)
  PROVE  Keeps(d)
<1>0. DOMAIN call = Discoveries /\ DOMAIN call[d] = Fields /\ Collected(call[d]) /\ Ready(call[d])
  BY DEF Typed, Collected
<1>1. CASE call' = [call EXCEPT ![d] = End(d, "done")]
  BY <1>1, EndKeeps DEF Ended
<1>2. ASSUME NEW s \in Agreed(d), call' = [call EXCEPT ![d].phase = "home", ![d].official = s]
      PROVE  Keeps(d)
  <2>1. s \in Hosts
    BY <1>0, SitesTyped DEF Agreed, Selected, Eligible, Collected
  <2> QED  BY <1>0, <1>2, <2>1 DEF Keeps, Collected, Ready, Fields, Phases
<1> QED  BY <1>1, <1>2 DEF Decide

LEMMA HomeKeeps ==
  ASSUME Typed, NEW d \in Discoveries, ChooseHome(d)
  PROVE  Keeps(d)
<1>0. DOMAIN call = Discoveries /\ DOMAIN call[d] = Fields /\ Collected(call[d]) /\ Ready(call[d])
  BY DEF Typed, Collected
<1>1. call[d].phase = "home" /\ call[d].official \in Hosts
  BY <1>0 DEF ChooseHome, Ready, Undecided, Ended
<1>2. CASE call' = [call EXCEPT ![d] = End(d, "done")]
  BY <1>2, EndKeeps DEF Ended
<1>3. ASSUME NEW u \in Homes(d, call[d].official), NEW final, final = call[d].checked[u].final,
             call' = [call EXCEPT ![d].phase = "plan", ![d].home = final, ![d].homeUrl = u]
      PROVE  Keeps(d)
  <2>1. u \in Urls /\ final \in Urls \cap DOMAIN call[d].pages
    BY <1>0, <1>3 DEF Homes, Matching, Collected
  <2> QED  BY <1>0, <1>1, <1>3, <2>1 DEF Keeps, Collected, Ready, Fields, Phases, Undecided, Ended
<1> QED  BY <1>2, <1>3 DEF ChooseHome

LEMMA PlannedKeeps ==
  ASSUME Typed, NEW d \in Discoveries, NEW known \in SUBSET Urls, call' = Planned(d, known),
         call[d].phase = "aside" \/ (call[d].phase = "plan" /\ call[d].at < Len(Types))
  PROVE  Keeps(d)
<1>0. DOMAIN call = Discoveries /\ DOMAIN call[d] = Fields /\ Collected(call[d]) /\ Ready(call[d])
  BY DEF Typed, Collected
<1>1. Len(Types) = 3 /\ call[d].at \in 0 .. 2
  BY <1>0 DEF Types, Collected, Ready
<1> DEFINE chosen == Ranked(d, Upcoming(d), known)
           full == chosen # {} /\ call[d].at + 2 >= Limits[d].pages
           options == Put(call[d].options, {Upcoming(d)}, chosen)
           at == IF full THEN Len(Types) ELSE call[d].at + 1
<1>2. at \in 0 .. Len(Types)
  BY <1>1
<1>3. \A t \in DOMAIN options : options[t] \subseteq Urls
  <2>1. chosen \subseteq Urls
    BY DEF Ranked
  <2> HIDE DEF chosen
  <2> QED  BY <1>0, <2>1 DEF Put, Collected
<1>4. call' = [call EXCEPT ![d].options = options, ![d].attempt = 0, ![d].phase = "plan", ![d].at = at]
  BY <1>0 DEF Planned, Fields
<1> HIDE DEF options, at
<1> QED  BY <1>0, <1>2, <1>3, <1>4 DEF Keeps, Collected, Ready, Fields, Phases, Undecided, Ended

LEMMA PlanKeeps ==
  ASSUME Typed, NEW d \in Discoveries, Plan(d) \/ Supplement(d) \/ EndPlan(d)
  PROVE  Keeps(d)
<1>0. DOMAIN call = Discoveries /\ DOMAIN call[d] = Fields /\ Collected(call[d]) /\ Ready(call[d])
  BY DEF Typed, Collected
<1>1. CASE Plan(d)
  <2>1. call[d].phase = "plan" /\ call[d].at < Len(Types)
    BY <1>1 DEF Plan, Planning
  <2>2. CASE call' = [call EXCEPT ![d].phase = "aside", ![d].asides = @ + 1]
    BY <1>0, <2>1, <2>2 DEF Keeps, Collected, Ready, Fields, Phases, Undecided, Ended
  <2>3. CASE call' = Planned(d, Scored(d, Upcoming(d)))
    <3>1. call[d].pages[call[d].home].nav \subseteq Urls
      BY <1>0, <2>1 DEF Collected, Ready, Pages
    <3>2. Scored(d, Upcoming(d)) \subseteq Urls
      BY <1>0, <3>1 DEF Scored, Collected
    <3> QED  BY <2>1, <2>3, <3>2, PlannedKeeps
  <2> QED  BY <1>1, <2>2, <2>3 DEF Plan
<1>2. CASE Supplement(d)
  <2>1. call[d].phase = "aside"
    BY <1>2 DEF Supplement
  <2>2. call' = Planned(d, {}) \/ call' = [call EXCEPT ![d] = End(d, "raised")]
    BY <1>2 DEF Supplement
  <2> QED  BY <2>1, <2>2, PlannedKeeps, EndKeeps DEF Ended
<1>3. CASE EndPlan(d)
  <2>1. call[d].phase = "plan"
    BY <1>3 DEF EndPlan
  <2> DEFINE row == [final |-> call[d].home, url |-> call[d].homeUrl, type |-> "HOMEPAGE",
                     domain |-> call[d].official, by |-> d]
             chosen == UNION {call[d].options[t] : t \in DOMAIN call[d].options}
             pages == [u \in DOMAIN call[d].pages \cap chosen |-> call[d].pages[u]]
  <2>2. row \in Rows
    BY <1>0, <2>1 DEF Ready, Rows, Undecided, Ended
  <2>3. \A u \in DOMAIN pages : u \in Urls /\ pages[u] \in Pages
    <3> HIDE DEF chosen
    <3> QED  BY <1>0 DEF Collected
  <2>4. call' = [call EXCEPT ![d].phase = "save", ![d].at = 0, ![d].asides = 0,
                   ![d].found = << >>, ![d].checked = << >>, ![d].home = None,
                   ![d].homeUrl = None, ![d].pages = pages, ![d].row = row]
    BY <1>0, <1>3 DEF EndPlan, Fields
  <2> HIDE DEF row, pages
  <2> DEFINE m == [call[d] EXCEPT !.phase = "save", !.at = 0, !.asides = 0,
                    !.found = << >>, !.checked = << >>, !.home = None,
                    !.homeUrl = None, !.pages = pages, !.row = row]
  <2>5. call' = [call EXCEPT ![d] = m]
    BY <1>0, <2>4
  <2>6. DOMAIN m = Fields /\ m.phase = "save" /\ m.at = 0 /\ m.found = << >> /\ m.checked = << >>
    BY <1>0 DEF Fields
  <2>7. m.pages = pages /\ m.row = row
    BY <1>0 DEF Fields
  <2>8. /\ m.asked = call[d].asked /\ m.official = call[d].official
        /\ m.queue = call[d].queue /\ m.options = call[d].options
    BY <1>0 DEF Fields
  <2> HIDE DEF m
  <2>9. /\ DOMAIN call' = Discoveries /\ \A e \in Discoveries \ {d} : call'[e] = call[e]
        /\ call'[d] = m
    BY <1>0, <2>5
  <2>10. Ready(call'[d])
    BY <1>0, <2>1, <2>2, <2>9, <2>6, <2>7, <2>8 DEF Ready, Undecided, Ended
  <2>11. Collected(call'[d])
    BY <1>0, <2>3, <2>9, <2>6, <2>7, <2>8 DEF Collected, Phases, Types
  <2> QED  BY <2>9, <2>10, <2>11 DEF Keeps
<1> QED  BY <1>1, <1>2, <1>3

LEMMA ForwardKeeps ==
  ASSUME Typed, NEW d \in Discoveries, call[d].phase \notin Undecided \cup Ended,
         call' = [call EXCEPT ![d] = Forward(d, call[d])]
  PROVE  Keeps(d)
<1>0. DOMAIN call = Discoveries /\ DOMAIN call[d] = Fields /\ Collected(call[d]) /\ Ready(call[d])
  BY DEF Typed, Collected
<1> DEFINE later == {i \in call[d].at + 1 .. Len(Types) :
                       Types[i] \in DOMAIN call[d].options /\ call[d].options[Types[i]] # {}}
           next  == CHOOSE i \in later : \A j \in later : i <= j
<1>1. CASE later = {}
  BY <1>1, EndKeeps DEF Forward, Ended
<1>2. CASE later # {}
  <2>1. Len(Types) = 3 /\ call[d].at \in 0 .. 3
    BY <1>0 DEF Types, Collected
  <2>2. later \in SUBSET Nat
    BY <2>1
  <2>3. next \in later
    <3> HIDE DEF later
    <3>1. \E i \in later : \A j \in later : i <= j
      BY <1>2, <2>2, LeastNatural
    <3> QED  BY <3>1
  <2>4. next \in 1 .. Len(Types) /\ Types[next] \in DOMAIN call[d].options
    <3>1. \A i \in later : i \in 1 .. Len(Types) /\ Types[i] \in DOMAIN call[d].options
      BY <2>1
    <3> HIDE DEF later, next
    <3> QED  BY <2>3, <3>1
  <2>5. call' = [call EXCEPT ![d] = [call[d] EXCEPT !.phase = "option", !.tried = {},
          !.blocked = FALSE, !.accepted = {}, !.row = << >>, !.seen = << >>, !.at = next]]
    BY <1>2 DEF Forward
  <2> HIDE DEF next, later
  <2> DEFINE m == [call[d] EXCEPT !.phase = "option", !.tried = {}, !.blocked = FALSE,
                    !.accepted = {}, !.row = << >>, !.seen = << >>, !.at = next]
  <2>6. DOMAIN m = Fields /\ m.phase = "option" /\ m.at = next /\ m.accepted = {}
    BY <1>0 DEF Fields
  <2>7. /\ m.found = call[d].found /\ m.checked = call[d].checked /\ m.pages = call[d].pages
        /\ m.asked = call[d].asked /\ m.official = call[d].official
    BY <1>0 DEF Fields
  <2>8. m.queue = call[d].queue /\ m.options = call[d].options
    BY <1>0 DEF Fields
  <2> HIDE DEF m
  <2>9. /\ DOMAIN call' = Discoveries /\ \A e \in Discoveries \ {d} : call'[e] = call[e]
        /\ call'[d] = m
    BY <1>0, <2>5 DEF m
  <2>10. Ready(call'[d])
    BY <1>0, <2>4, <2>9, <2>6, <2>7, <2>8 DEF Ready, Undecided, Ended
  <2>11. Collected(call'[d])
    BY <1>0, <2>1, <2>4, <2>9, <2>6, <2>7, <2>8 DEF Collected, Phases
  <2> QED  BY <2>9, <2>10, <2>11 DEF Keeps
<1> QED  BY <1>1, <1>2

LEMMA OptionKeeps ==
  ASSUME Typed, NEW d \in Discoveries, ReadOption(d) \/ LeaveType(d) \/ ChoosePage(d)
  PROVE  Keeps(d)
<1>0. DOMAIN call = Discoveries /\ DOMAIN call[d] = Fields /\ Collected(call[d]) /\ Ready(call[d])
  BY DEF Typed, Collected
<1>1. call[d].phase = "option"
  BY DEF ReadOption, LeaveType, ChoosePage
<1>2. call[d].at \in 1 .. Len(Types) /\ TypeOf(d) = Types[call[d].at]
      /\ TypeOf(d) \in DOMAIN call[d].options
  BY <1>0, <1>1 DEF Ready, TypeOf
<1>3. CASE ReadOption(d)
  <2>1. PICK u \in Left(d) :
          \E p \in IF u \in DOMAIN call[d].pages THEN {call[d].pages[u]} ELSE Fetched[u] :
             call' = [call EXCEPT ![d].pages = Put(@, {u}, p), ![d].tried = @ \cup {u},
                        ![d].blocked = (p.status = "BLOCKED"), ![d].accepted = Accepted(d, u, p)]
    BY <1>3, Zenon DEF ReadOption
  <2>2. PICK p \in IF u \in DOMAIN call[d].pages THEN {call[d].pages[u]} ELSE Fetched[u] :
          call' = [call EXCEPT ![d].pages = Put(@, {u}, p), ![d].tried = @ \cup {u},
                     ![d].blocked = (p.status = "BLOCKED"), ![d].accepted = Accepted(d, u, p)]
    BY <2>1, Zenon
  <2>3. u \in Urls
    BY <1>0, <1>2 DEF Left, Collected
  <2>4. p \in Pages
    BY <1>0, <2>3, FetchedTyped DEF Collected
  <2> DEFINE pages == Put(call[d].pages, {u}, p)
             accepted == Accepted(d, u, p)
             blocked == (p.status = "BLOCKED")
  <2>5. /\ \A v \in DOMAIN pages : v \in Urls /\ pages[v] \in Pages
        /\ DOMAIN call[d].pages \subseteq DOMAIN pages
    BY <1>0, <2>3, <2>4 DEF Put, Collected
  <2>6. \A a \in accepted : a.final \in Urls /\ a.url \in Urls
    BY <1>0, <1>1, <2>3, <2>4 DEF Accepted, Ready, Pages
  <2>7. call' = [call EXCEPT ![d].pages = pages, ![d].tried = @ \cup {u},
                   ![d].blocked = blocked, ![d].accepted = accepted]
    BY <1>0, <2>2 DEF Fields
  <2> HIDE DEF pages, accepted, blocked
  <2> DEFINE m == [call[d] EXCEPT !.pages = pages, !.tried = @ \cup {u},
                    !.blocked = blocked, !.accepted = accepted]
  <2>8. call' = [call EXCEPT ![d] = m]
    BY <1>0, <2>7
  <2>9. DOMAIN m = Fields /\ m.phase = "option" /\ m.pages = pages /\ m.accepted = accepted
    BY <1>0, <1>1 DEF Fields
  <2>10. /\ m.at = call[d].at /\ m.found = call[d].found /\ m.checked = call[d].checked
        /\ m.asked = call[d].asked /\ m.official = call[d].official
    BY <1>0 DEF Fields
  <2>11. m.queue = call[d].queue /\ m.options = call[d].options
    BY <1>0 DEF Fields
  <2> HIDE DEF m
  <2>12. /\ DOMAIN call' = Discoveries /\ \A e \in Discoveries \ {d} : call'[e] = call[e]
        /\ call'[d] = m
    BY <1>0, <2>8
  <2>13. Ready(call'[d])
    BY <1>0, <1>1, <2>6, <2>12, <2>9, <2>10, <2>11 DEF Ready, Undecided, Ended
  <2>14. Collected(call'[d])
    BY <1>0, <1>1, <2>5, <2>12, <2>9, <2>10, <2>11 DEF Collected
  <2> QED  BY <2>12, <2>13, <2>14 DEF Keeps
<1>4. CASE LeaveType(d)
  BY <1>1, <1>4, ForwardKeeps DEF LeaveType, Undecided, Ended
<1>5. CASE ChoosePage(d)
  <2>1. PICK a \in call[d].accepted :
          call' = [call EXCEPT ![d].phase = "save",
                     ![d].row = [final |-> a.final, url |-> a.url, type |-> TypeOf(d),
                                 domain |-> Host[a.final], by |-> d]]
    BY <1>5 DEF ChoosePage
  <2> DEFINE row == [final |-> a.final, url |-> a.url, type |-> TypeOf(d),
                     domain |-> Host[a.final], by |-> d]
  <2>2. row \in Rows
    BY <1>0, <1>1, <1>2, SitesTyped DEF Ready, Rows
  <2>3. call' = [call EXCEPT ![d].phase = "save", ![d].row = row]
    BY <2>1
  <2> HIDE DEF row
  <2> QED  BY <1>0, <1>1, <2>2, <2>3 DEF Keeps, Collected, Ready, Fields, Phases, Undecided, Ended
<1> QED  BY <1>3, <1>4, <1>5

LEMMA SavingKeeps ==
  ASSUME Typed, NEW d \in Discoveries,
         ReadProfile(d) \/ CommitRaises(d) \/ SaveFails(d) \/ Crash(d) \/ Commit(d)
  PROVE  Keeps(d)
<1>0. DOMAIN call = Discoveries /\ DOMAIN call[d] = Fields /\ Collected(call[d]) /\ Ready(call[d])
  BY DEF Typed, Collected
<1>1. CASE ReadProfile(d)
  <2>1. PICK known : call' = [call EXCEPT ![d].phase = "commit", ![d].seen = known]
    BY <1>1 DEF ReadProfile
  <2>2. call[d].phase = "save"
    BY <1>1 DEF ReadProfile
  <2> QED  BY <1>0, <2>1, <2>2 DEF Keeps, Collected, Ready, Fields, Phases, Undecided, Ended
<1>2. CASE CommitRaises(d) \/ SaveFails(d) \/ Crash(d)
  <2>1. call' = [call EXCEPT ![d] = End(d, "raised")] \/ call' = [call EXCEPT ![d] = End(d, "dead")]
    BY <1>2 DEF CommitRaises, SaveFails, Crash
  <2> QED  BY <2>1, EndKeeps DEF Ended
<1>3. CASE Commit(d)
  BY <1>3, ForwardKeeps DEF Commit, Undecided, Ended
<1> QED  BY <1>1, <1>2, <1>3

LEMMA TypedStep == ASSUME Typed, [Next]_vars PROVE Typed'
<1>1. ASSUME NEW d \in Discoveries, Step(d) \/ SaveFails(d) \/ Crash(d)
      PROVE  Typed'
  <2>1. Keeps(d)
    BY <1>1, SearchKeeps, IdentityKeeps, DecideKeeps, HomeKeeps, PlanKeeps, OptionKeeps,
       SavingKeeps DEF Step
  <2>2. profile' \in Hosts \cup {None} /\ sources' \subseteq Rows
    <3>1. CASE Commit(d)
      <4>1. call[d].row \in Rows /\ call[d].row.domain \in Hosts
        BY <3>1 DEF Typed, Ready, Commit, Rows
      <4> QED  BY <3>1, <4>1 DEF Typed, Commit, Saved
    <3>2. CASE ~Commit(d)
      <4>1. UNCHANGED <<profile, sources>>
        BY <1>1, <3>2 DEF Step, SearchAgain, SearchFails, Search, Group, ReadIdentity, Decide,
           ChooseHome, Plan, Supplement, EndPlan, ReadOption, LeaveType, ChoosePage, ReadProfile,
           CommitRaises, SaveFails, Crash, Local
      <4> QED  BY <4>1 DEF Typed
    <3> QED  BY <3>1, <3>2
  <2> QED  BY <2>1, <2>2 DEF Typed, Keeps
<1>2. CASE UNCHANGED vars
  BY <1>2 DEF vars, Typed
<1> QED  BY <1>1, <1>2 DEF Next

\* A call of discover has the parts of the row at hand whenever it is about to write one:
\* the page is a known URL, its host and its type are known too, whatever the search and
\* the sites answered and wherever the call was ended (SourceDiscoveryService.discover).
THEOREM TypeCorrect == Spec => []TypeOK
<1>1. Typed => TypeOK
  BY DEF Typed, Collected, Ready, TypeOK
<1> QED  BY <1>1, TypedInit, TypedStep, PTL DEF Spec
=============================================================================

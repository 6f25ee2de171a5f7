------------------------- MODULE PageFetchingProofs -------------------------
(***************************************************************************)
(* What a fetch may end with, for any site and any number of redirects, by *)
(* induction on the answers that are left; and the form of induction that  *)
(* the proofs about loops use: a set of numbers has a least one.           *)
(***************************************************************************)
EXTENDS PageFetching, WellFoundedInduction, TLAPS

\* Every set of naturals has a least one.
LEMMA LeastNatural ==
  ASSUME NEW S \in SUBSET Nat, S # {}
  PROVE  \E n \in S : \A m \in S : n <= m
<1> DEFINE R == OpToRel(<, Nat)
<1>1. IsWellFoundedOn(R, Nat)
  BY NatLessThanWellFounded
<1>2. PICK n \in S : \A m \in S : <<m, n>> \notin R
  BY <1>1, WFMin
<1>3. ASSUME NEW m \in S, m < n
      PROVE  FALSE
  <2>1. <<m, n>> \in R
    BY <1>3 DEF OpToRel
  <2> QED  BY <1>2, <2>1
<1>4. \A m \in S : n <= m
  <2> HIDE DEF R
  <2> QED  BY <1>3
<1> QED  BY <1>4

\* A loop of n rounds: what holds before the first and survives each holds after all.
LEMMA Upwards ==
  ASSUME NEW n \in Nat, NEW S, 0 \in S, \A i \in 0 .. n - 1 : i \in S => i + 1 \in S
  PROVE  0 .. n \subseteq S
<1> DEFINE Rest == {i \in 0 .. n : i \notin S}
<1> SUFFICES ASSUME Rest # {} PROVE FALSE
  OBVIOUS
<1>1. Rest \in SUBSET Nat
  OBVIOUS
<1>2. PICK i \in Rest : \A j \in Rest : i <= j
  <2> HIDE DEF Rest
  <2> QED  BY <1>1, LeastNatural
<1>3. i - 1 \in 0 .. n - 1 /\ i - 1 \in S
  BY <1>2
<1> QED  BY <1>2, <1>3
-----------------------------------------------------------------------------
Lost == [at |-> None, answer |-> [kind |-> "http error"]]

\* Followed is what its recursion says: it exists for every number of answers.
LEMMA FollowedIs ==
  /\ \A u \in Urls : Followed[0][u] = {Lost}
  /\ \A n \in 1 .. MaxHops : \A u \in Urls :
       Followed[n][u] = UNION {IF a.kind = "redirect" /\ a.to # None THEN Followed[n - 1][a.to]
                               ELSE {[at |-> u, answer |-> a]} : a \in Serve[u]}
<1> DEFINE Round(f, n) ==
             [u \in Urls |->
                IF n = 0 THEN {Lost}
                ELSE UNION {IF a.kind = "redirect" /\ a.to # None THEN f[n - 1][a.to]
                            ELSE {[at |-> u, answer |-> a]} : a \in Serve[u]}]
           Rounds(f, k) == f = [n \in 0 .. k |-> Round(f, n)]
           Good == {k \in 0 .. MaxHops : \E f : Rounds(f, k)}
<1>0. MaxHops \in Nat
  BY FetchingAssumption
<1>r. \A h : Round(h, 0) = [u \in Urls |-> {Lost}]
  OBVIOUS
<1>1. 0 \in Good
  <2>1. Rounds([n \in 0 .. 0 |-> [u \in Urls |-> {Lost}]], 0)
    OBVIOUS
  <2> HIDE DEF Rounds
  <2> QED  BY <1>0, <2>1
<1>2. ASSUME NEW k \in 0 .. MaxHops - 1, k \in Good
      PROVE  k + 1 \in Good
  <2>1. PICK f : Rounds(f, k)
    BY <1>2
  <2> DEFINE g == [n \in 0 .. k + 1 |-> IF n = k + 1 THEN Round(f, k + 1) ELSE f[n]]
  <2>2. ASSUME NEW n \in 0 .. k + 1 PROVE g[n] = Round(g, n)
    <3>0. g[n] = Round(f, n)
      <4> HIDE DEF Round
      <4> QED  BY <1>0, <2>1
    <3>1. CASE n = 0
      <4> HIDE DEF Round, g
      <4> QED  BY <1>r, <3>0, <3>1
    <3>2. CASE n # 0
      <4>1. n - 1 \in 0 .. k /\ g[n - 1] = f[n - 1]
        <5> HIDE DEF Round
        <5> QED  BY <1>0, <3>2
      <4>2. Round(f, n) = Round(g, n)
        <5> HIDE DEF g
        <5> QED  BY <3>2, <4>1
      <4> QED  BY <3>0, <4>2
    <3> QED  BY <3>1, <3>2
  <2>3. Rounds(g, k + 1)
    <3> HIDE DEF Round
    <3>1. g = [n \in 0 .. k + 1 |-> g[n]]
      OBVIOUS
    <3> HIDE DEF g
    <3> QED  BY <2>2, <3>1
  <2> HIDE DEF Rounds, g
  <2> QED  BY <1>0, <2>3
<1>3. PICK f : Rounds(f, MaxHops)
  <2> HIDE DEF Rounds
  <2>1. 0 .. MaxHops \subseteq Good
    <3> HIDE DEF Good
    <3> QED  BY <1>0, <1>1, <1>2, Upwards
  <2> QED  BY <1>0, <2>1
<1>4. Rounds(Followed, MaxHops)
  BY <1>3 DEF Followed, Lost
<1>5. \A n \in 0 .. MaxHops : Followed[n] = Round(Followed, n)
  <2> HIDE DEF Round
  <2> QED  BY <1>4
<1>6. \A n \in 1 .. MaxHops : n \in 0 .. MaxHops /\ n # 0
  BY <1>0
<1>7. \A u \in Urls : Followed[0][u] = {Lost}
  <2> HIDE DEF Round
  <2> QED  BY <1>0, <1>5, <1>r
<1>8. ASSUME NEW n \in 1 .. MaxHops, NEW u \in Urls
      PROVE  Followed[n][u] = UNION {IF a.kind = "redirect" /\ a.to # None THEN Followed[n - 1][a.to]
                                     ELSE {[at |-> u, answer |-> a]} : a \in Serve[u]}
  <2>1. Followed[n] = Round(Followed, n) /\ n # 0
    <3> HIDE DEF Round
    <3> QED  BY <1>5, <1>6
  <2> QED  BY <2>1
<1> QED  BY <1>7, <1>8

Given == UNION {Serve[u] : u \in Urls}

\* A fetch ends with an answer of a URL it was led to, or with none.
LEMMA FollowedTyped ==
  \A n \in 0 .. MaxHops : \A u \in Urls : \A e \in Followed[n][u] :
    e = Lost \/ (e.at \in Urls /\ e.answer \in Given)
<1> DEFINE Fine(n) == \A u \in Urls : \A e \in Followed[n][u] :
                        e = Lost \/ (e.at \in Urls /\ e.answer \in Given)
           Good == {n \in 0 .. MaxHops : Fine(n)}
<1>0. MaxHops \in Nat
  BY FetchingAssumption
<1>1. 0 \in Good
  BY <1>0, FollowedIs
<1>2. ASSUME NEW n \in 0 .. MaxHops - 1, n \in Good
      PROVE  n + 1 \in Good
  <2>1. ASSUME NEW u \in Urls, NEW e \in Followed[n + 1][u]
        PROVE  e = Lost \/ (e.at \in Urls /\ e.answer \in Given)
    <3>1. n + 1 \in 1 .. MaxHops /\ (n + 1) - 1 = n
      BY <1>0
    <3>2. PICK a \in Serve[u] :
            e \in (IF a.kind = "redirect" /\ a.to # None THEN Followed[n][a.to]
                   ELSE {[at |-> u, answer |-> a]})
      BY <3>1, <2>1, FollowedIs
    <3>3. a \in Answers /\ a \in Given
      BY FetchingAssumption DEF Given
    <3>4. CASE a.kind = "redirect" /\ a.to # None
      <4>1. a.to \in Urls /\ e \in Followed[n][a.to]
        BY <3>2, <3>3, <3>4 DEF Answers
      <4> QED  BY <1>2, <4>1
    <3>5. CASE ~(a.kind = "redirect" /\ a.to # None)
      BY <3>2, <3>3, <3>5
    <3> QED  BY <3>4, <3>5
  <2> QED  BY <1>0, <2>1
<1>3. 0 .. MaxHops \subseteq Good
  <2> HIDE DEF Good
  <2> QED  BY <1>0, <1>1, <1>2, Upwards
<1> QED  BY <1>3

\* Wherever its redirects lead, a fetch leaves evidence of a known URL, and text only
\* of an answer that was given (RequestsFetcher.fetch).
THEOREM FetchedTyped ==
  \A u \in Urls : \A p \in Fetched[u] :
    p \in Pages /\ (p.text = 0 \/ \E a \in Given : p.text = a.text)
<1> SUFFICES ASSUME NEW u \in Urls, NEW p \in Fetched[u]
             PROVE  p \in Pages /\ (p.text = 0 \/ \E a \in Given : p.text = a.text)
  OBVIOUS
<1>1. PICK e \in Followed[MaxHops][u] :
        p = Evidence(IF e.at = None \/ e.answer.kind \in NoAnswer THEN u ELSE e.at, e.answer)
  BY DEF Fetched
<1>2. e = Lost \/ (e.at \in Urls /\ e.answer \in Given)
  BY FollowedTyped, FetchingAssumption
<1>3. CASE e = Lost
  <2>1. e.at = None /\ e.answer.kind = "http error"
    BY <1>3 DEF Lost
  <2>2. p = Evidence(u, e.answer) /\ StatusOf("http error") = "FAILED"
    BY <1>1, <2>1 DEF StatusOf
  <2>3. p = [status |-> "FAILED", final |-> u, text |-> 0, html |-> "http error" \in {"page", "shell"},
             signals |-> {}, canonical |-> None, nav |-> {}]
    BY <2>1, <2>2 DEF Evidence
  <2> QED  BY <2>3 DEF Pages, FetchStatus
<1>4. CASE e.at \in Urls /\ e.answer \in Given
  <2>1. e.answer \in Answers
    BY <1>4, FetchingAssumption DEF Given
  <2>2. PICK at \in Urls : p = Evidence(at, e.answer)
    BY <1>1, <1>4
  <2>3. StatusOf(e.answer.kind) \in FetchStatus
    BY DEF StatusOf, FetchStatus
  <2> QED  BY <1>4, <2>1, <2>2, <2>3 DEF Evidence, Pages, Answers
<1> QED  BY <1>2, <1>3, <1>4
=============================================================================

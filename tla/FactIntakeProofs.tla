-------------------------- MODULE FactIntakeProofs --------------------------
(***************************************************************************)
(* What a run of FactIntake stores, says and costs, for any number of      *)
(* sources, any answers and any limits.  The loop over the facts of an     *)
(* answer is followed turn by turn; schemas, quotes, keys and canonical    *)
(* values are whatever FactEvidence makes them.                            *)
(***************************************************************************)
EXTENDS FactIntake, PageFetchingProofs, FiniteSetTheorems, SequenceTheorems

-----------------------------------------------------------------------------
Empty == [first |-> << >>, contested |-> {}, refused |-> {}]

\* One turn of the loop over the facts of an answer.
Turned(answer, content, type, s, n) ==
  LET f == Adapted(answer[n])
      k == Key(f)
  IN  IF ~Accepted(answer[n], content, type) THEN [s EXCEPT !.refused = @ \cup {n}]
      ELSE IF k \notin DOMAIN s.first
        THEN [s EXCEPT !.first = [x \in DOMAIN @ \cup {k} |-> IF x = k THEN n ELSE @[x]]]
      ELSE IF Canonical(Adapted(answer[s.first[k]])) = Canonical(f) THEN s
      ELSE [s EXCEPT !.contested = @ \cup {k}]

\* Scan is its loop: the turns exist for an answer of any length.
LEMMA ScanIs ==
  ASSUME NEW answer, NEW content, NEW type, Len(answer) \in Nat
  PROVE  \E t : /\ t[0] = Empty
                /\ \A n \in 1 .. Len(answer) : t[n] = Turned(answer, content, type, t[n - 1], n)
                /\ Scan(answer, content, type) = t[Len(answer)]
<1> DEFINE Next1(t, n) == IF n = 0 THEN Empty ELSE Turned(answer, content, type, t[n - 1], n)
           Turns1(t, k) == t = [n \in 0 .. k |-> Next1(t, n)]
           Good == {k \in 0 .. Len(answer) : \E t : Turns1(t, k)}
<1>1. 0 \in Good
  <2>1. Turns1([n \in 0 .. 0 |-> Empty], 0)
    OBVIOUS
  <2> HIDE DEF Turns1
  <2> QED  BY <2>1
<1>2. ASSUME NEW k \in 0 .. Len(answer) - 1, k \in Good
      PROVE  k + 1 \in Good
  <2>1. PICK t : Turns1(t, k)
    BY <1>2
  <2> DEFINE g == [n \in 0 .. k + 1 |-> IF n = k + 1 THEN Turned(answer, content, type, t[k], k + 1) ELSE t[n]]
  <2>2. ASSUME NEW n \in 0 .. k + 1
        PROVE  g[n] = Next1(g, n)
    <3>1. CASE n = 0
      BY <2>1, <3>1
    <3>2. CASE n # 0
      <4>1. n - 1 \in 0 .. k /\ g[n - 1] = t[n - 1]
        BY <3>2
      <4>2. g[n] = Turned(answer, content, type, t[n - 1], n)
        BY <2>1, <3>2
      <4> QED  BY <3>2, <4>1, <4>2
    <3> QED  BY <3>1, <3>2
  <2>3. Turns1(g, k + 1)
    <3>1. g = [n \in 0 .. k + 1 |-> g[n]]
      OBVIOUS
    <3> HIDE DEF Next1, g
    <3> QED  BY <2>2, <3>1
  <2> HIDE DEF Turns1, g
  <2> QED  BY <2>3
<1>3. PICK t : Turns1(t, Len(answer))
  <2> HIDE DEF Turns1
  <2>1. 0 .. Len(answer) \subseteq Good
    <3> HIDE DEF Good
    <3> QED  BY <1>1, <1>2, Upwards
  <2> QED  BY <2>1
<1> DEFINE after == CHOOSE x : Turns1(x, Len(answer))
<1>4. Turns1(after, Len(answer))
  <2> HIDE DEF Turns1
  <2> QED  BY <1>3
<1>5. Scan(answer, content, type) = after[Len(answer)]
  BY DEF Scan, Turned, Empty
<1> HIDE DEF after
<1>6. after[0] = Empty /\ \A n \in 1 .. Len(answer) : after[n] = Turned(answer, content, type, after[n - 1], n)
  BY <1>4
<1> QED  BY <1>5, <1>6

\* After n turns: the first of each identity, which are contested, and what was refused.
Sorts(answer, content, type, n, first, contested, refused) ==
  LET good == {j \in 1 .. n : Accepted(answer[j], content, type)}
  IN  /\ DOMAIN first = {Key(Adapted(answer[j])) : j \in good}
      /\ \A k \in DOMAIN first : first[k] \in good /\ Key(Adapted(answer[first[k]])) = k
      /\ refused = (1 .. n) \ good
      /\ contested = {k \in DOMAIN first : \E j \in good :
            /\ Key(Adapted(answer[j])) = k
            /\ Canonical(Adapted(answer[j])) # Canonical(Adapted(answer[first[k]]))}
Sorted(answer, content, type, s, n) ==
  /\ s = [first |-> s.first, contested |-> s.contested, refused |-> s.refused]
  /\ Sorts(answer, content, type, n, s.first, s.contested, s.refused)

LEMMA OneTurn ==
  ASSUME NEW answer, NEW content, NEW type, NEW s, NEW n \in Nat, n >= 1,
         Sorted(answer, content, type, s, n - 1)
  PROVE  Sorted(answer, content, type, Turned(answer, content, type, s, n), n)
<1> DEFINE Good(m) == {j \in 1 .. m : Accepted(answer[j], content, type)}
           k0 == Key(Adapted(answer[n]))
           K(j) == Key(Adapted(answer[j]))
           V(j) == Canonical(Adapted(answer[j]))
           t == Turned(answer, content, type, s, n)
           Fit(f, c, r, m) == /\ DOMAIN f = {K(j) : j \in Good(m)}
                              /\ \A k \in DOMAIN f : f[k] \in Good(m) /\ K(f[k]) = k
                              /\ r = (1 .. m) \ Good(m)
                              /\ c = {k \in DOMAIN f : \E j \in Good(m) : K(j) = k /\ V(j) # V(f[k])}
<1>1. s = [first |-> s.first, contested |-> s.contested, refused |-> s.refused]
  BY DEF Sorted
<1>2. Fit(s.first, s.contested, s.refused, n - 1)
  BY DEF Sorted, Sorts
<1>3. ASSUME NEW f, NEW c, NEW r, Fit(f, c, r, n), t = [first |-> f, contested |-> c, refused |-> r]
      PROVE  Sorted(answer, content, type, t, n)
  <2>1. Sorts(answer, content, type, n, f, c, r)
    BY <1>3 DEF Sorts
  <2> HIDE DEF t
  <2>2. t.first = f /\ t.contested = c /\ t.refused = r
    BY <1>3
  <2> QED  BY <1>3, <2>1, <2>2 DEF Sorted
<1>4. K(n) = k0
  OBVIOUS
<1>5. CASE ~Accepted(answer[n], content, type)
  <2>1. t = [first |-> s.first, contested |-> s.contested, refused |-> s.refused \cup {n}]
    BY <1>1, <1>5 DEF Turned
  <2>2. Good(n) = Good(n - 1)
    BY <1>5
  <2>3. (1 .. n) \ Good(n) = ((1 .. n - 1) \ Good(n - 1)) \cup {n}
    BY <1>5, <2>2
  <2>4. Fit(s.first, s.contested, s.refused \cup {n}, n)
    <3> HIDE DEF Good, K, V
    <3> QED  BY <1>2, <2>2, <2>3
  <2> HIDE DEF Fit
  <2> QED  BY <1>3, <2>1, <2>4
<1>6. CASE Accepted(answer[n], content, type)
  <2>1. /\ Good(n) = Good(n - 1) \cup {n} /\ n \notin Good(n - 1)
        /\ (1 .. n) \ Good(n) = (1 .. n - 1) \ Good(n - 1)
    BY <1>6
  <2>2. CASE k0 \notin DOMAIN s.first
    <3> DEFINE first == [x \in DOMAIN s.first \cup {k0} |-> IF x = k0 THEN n ELSE s.first[x]]
    <3>1. t = [first |-> first, contested |-> s.contested, refused |-> s.refused]
      BY <1>1, <1>6, <2>2 DEF Turned
    <3>2. /\ DOMAIN first = DOMAIN s.first \cup {k0} /\ first[k0] = n
          /\ \A k \in DOMAIN s.first : first[k] = s.first[k]
      BY <2>2
    <3>3. Fit(first, s.contested, s.refused, n)
      <4> HIDE DEF first, K, Good, k0, V
      <4>1. DOMAIN first = {K(j) : j \in Good(n)}
        BY <1>2, <1>4, <2>1, <3>2
      <4>2. \A k \in DOMAIN first : first[k] \in Good(n) /\ K(first[k]) = k
        BY <1>2, <1>4, <2>1, <3>2
      <4>3. s.refused = (1 .. n) \ Good(n)
        BY <1>2, <2>1
      <4>4. s.contested = {k \in DOMAIN first : \E j \in Good(n) : K(j) = k /\ V(j) # V(first[k])}
        BY <1>2, <1>4, <2>1, <2>2, <3>2
      <4> QED  BY <4>1, <4>2, <4>3, <4>4
    <3> HIDE DEF Fit, first
    <3> QED  BY <1>3, <3>1, <3>3
  <2>3. CASE k0 \in DOMAIN s.first /\ V(s.first[k0]) = V(n)
    <3>1. t = [first |-> s.first, contested |-> s.contested, refused |-> s.refused]
      BY <1>1, <1>6, <2>3 DEF Turned
    <3>2. Fit(s.first, s.contested, s.refused, n)
      <4> HIDE DEF K, Good, k0, V
      <4>1. DOMAIN s.first = {K(j) : j \in Good(n)}
        BY <1>2, <1>4, <2>1, <2>3
      <4>2. s.refused = (1 .. n) \ Good(n)
        BY <1>2, <2>1
      <4>3. s.contested = {k \in DOMAIN s.first : \E j \in Good(n) : K(j) = k /\ V(j) # V(s.first[k])}
        BY <1>2, <1>4, <2>1, <2>3
      <4> QED  BY <1>2, <2>1, <4>1, <4>2, <4>3
    <3> HIDE DEF Fit
    <3> QED  BY <1>3, <3>1, <3>2
  <2>4. CASE k0 \in DOMAIN s.first /\ V(s.first[k0]) # V(n)
    <3>1. t = [first |-> s.first, contested |-> s.contested \cup {k0}, refused |-> s.refused]
      BY <1>1, <1>6, <2>4 DEF Turned
    <3>2. Fit(s.first, s.contested \cup {k0}, s.refused, n)
      <4> HIDE DEF K, Good, k0, V
      <4>1. DOMAIN s.first = {K(j) : j \in Good(n)}
        BY <1>2, <1>4, <2>1, <2>4
      <4>2. s.refused = (1 .. n) \ Good(n)
        BY <1>2, <2>1
      <4>3. s.contested \cup {k0} =
              {k \in DOMAIN s.first : \E j \in Good(n) : K(j) = k /\ V(j) # V(s.first[k])}
        BY <1>2, <1>4, <2>1, <2>4
      <4> QED  BY <1>2, <2>1, <4>1, <4>2, <4>3
    <3> HIDE DEF Fit, k0
    <3> QED  BY <1>3, <3>1, <3>2
  <2> QED  BY <2>2, <2>3, <2>4
<1> QED  BY <1>5, <1>6

\* Whatever order the facts of an answer come in (LLMFactExtractionProvider.extract): the loop
\* contests the identities it gives two values and no others, refuses what the page does not
\* support, and keeps one fact for each of the other identities, with the value it states.
THEOREM ScanCorrect ==
  ASSUME NEW answer, NEW content, NEW type, Len(answer) \in Nat
  PROVE  LET scan == Scan(answer, content, type)
             said == Said(answer, content, type)
             kept == Kept(answer, scan)
         IN  /\ scan.contested = Disputed(said)
             /\ scan.refused = {j \in 1 .. Len(answer) : ~Accepted(answer[j], content, type)}
             /\ kept \subseteq said /\ \A f \in kept : Key(f) \notin Disputed(said)
             /\ \A f, g \in kept : Key(f) = Key(g) => f = g
             /\ \A f \in said : \/ Key(f) \in Disputed(said)
                                \/ \E g \in kept : Key(g) = Key(f) /\ Canonical(g) = Canonical(f)
<1> DEFINE scan == Scan(answer, content, type)
           said == Said(answer, content, type)
           kept == Kept(answer, scan)
           Good == {j \in 1 .. Len(answer) : Accepted(answer[j], content, type)}
           S(n, s) == Sorted(answer, content, type, s, n)
<1>1. PICK t : /\ t[0] = Empty
               /\ \A n \in 1 .. Len(answer) : t[n] = Turned(answer, content, type, t[n - 1], n)
               /\ Scan(answer, content, type) = t[Len(answer)]
  BY ScanIs
<1>2. S(0, t[0])
  BY <1>1 DEF Sorted, Sorts, Empty
<1>3. ASSUME NEW n \in 0 .. Len(answer) - 1, S(n, t[n])
      PROVE  S(n + 1, t[n + 1])
  <2>1. n + 1 \in Nat /\ n + 1 >= 1 /\ (n + 1) - 1 = n /\ n + 1 \in 1 .. Len(answer)
    OBVIOUS
  <2>2. t[n + 1] = Turned(answer, content, type, t[n], n + 1)
    BY <1>1, <2>1
  <2> QED  BY <1>3, <2>1, <2>2, OneTurn
<1>4. S(Len(answer), scan)
  <2> DEFINE Fine == {n \in 0 .. Len(answer) : S(n, t[n])}
  <2>1. 0 \in Fine /\ \A n \in 0 .. Len(answer) - 1 : n \in Fine => n + 1 \in Fine
    <3> HIDE DEF S
    <3> QED  BY <1>2, <1>3
  <2>2. 0 .. Len(answer) \subseteq Fine
    <3> HIDE DEF Fine
    <3> QED  BY <2>1, Upwards
  <2> HIDE DEF S, scan
  <2>3. Len(answer) \in Fine
    <3> HIDE DEF Fine
    <3> QED  BY <2>2
  <2>4. scan = t[Len(answer)]
    BY <1>1 DEF scan
  <2> QED  BY <2>3, <2>4
<1>5. /\ DOMAIN scan.first = {Key(Adapted(answer[j])) : j \in Good}
      /\ \A k \in DOMAIN scan.first : scan.first[k] \in Good /\ Key(Adapted(answer[scan.first[k]])) = k
      /\ scan.refused = (1 .. Len(answer)) \ Good
      /\ scan.contested = {k \in DOMAIN scan.first : \E j \in Good :
            /\ Key(Adapted(answer[j])) = k
            /\ Canonical(Adapted(answer[j])) # Canonical(Adapted(answer[scan.first[k]]))}
  <2> HIDE DEF scan
  <2> QED  BY <1>4 DEF Sorted, Sorts
<1>6. said = {Adapted(answer[j]) : j \in Good}
  BY DEF Said
<1>7. kept = {Adapted(answer[scan.first[k]]) : k \in DOMAIN scan.first \ scan.contested}
  BY DEF Kept
<1> HIDE DEF scan, said, kept, Good
<1>8. scan.contested = Disputed(said)
  <2>1. ASSUME NEW k \in scan.contested PROVE k \in Disputed(said)
    <3>1. PICK j \in Good : /\ Key(Adapted(answer[j])) = k
                           /\ Canonical(Adapted(answer[j])) # Canonical(Adapted(answer[scan.first[k]]))
      BY <1>5, <2>1
    <3>2. scan.first[k] \in Good /\ Key(Adapted(answer[scan.first[k]])) = k
      BY <1>5, <2>1
    <3> QED  BY <1>6, <3>1, <3>2 DEF Disputed
  <2>2. ASSUME NEW k \in Disputed(said) PROVE k \in scan.contested
    <3>1. PICK g \in said, h \in said : Key(g) = k /\ Key(h) = k /\ Canonical(h) # Canonical(g)
      BY <2>2 DEF Disputed
    <3>2. PICK i \in Good, j \in Good : g = Adapted(answer[i]) /\ h = Adapted(answer[j])
      BY <1>6, <3>1
    <3>3. k \in DOMAIN scan.first
      BY <1>5, <3>1, <3>2
    <3> QED  BY <1>5, <3>1, <3>2, <3>3
  <2> QED  BY <2>1, <2>2
<1>9. scan.refused = {j \in 1 .. Len(answer) : ~Accepted(answer[j], content, type)}
  BY <1>5 DEF Good
<1>10. kept \subseteq said /\ \A f \in kept : Key(f) \notin Disputed(said)
  <2>1. ASSUME NEW f \in kept
        PROVE  f \in said /\ Key(f) \notin scan.contested
    <3>1. PICK k \in DOMAIN scan.first \ scan.contested : f = Adapted(answer[scan.first[k]])
      BY <1>7
    <3> QED  BY <1>5, <1>6, <3>1
  <2> QED  BY <1>8, <2>1
<1>11. \A f, g \in kept : Key(f) = Key(g) => f = g
  BY <1>5, <1>7
<1>12. ASSUME NEW f \in said, Key(f) \notin Disputed(said)
       PROVE  \E g \in kept : Key(g) = Key(f) /\ Canonical(g) = Canonical(f)
  <2>1. PICK i \in Good : f = Adapted(answer[i])
    BY <1>6
  <2>2. Key(f) \in DOMAIN scan.first
    BY <1>5, <2>1
  <2>3. Canonical(f) = Canonical(Adapted(answer[scan.first[Key(f)]]))
    BY <1>5, <1>8, <1>12, <2>1, <2>2
  <2> QED  BY <1>5, <1>7, <1>8, <1>12, <2>2, <2>3
<1>13. /\ scan.contested = Disputed(said)
       /\ scan.refused = {j \in 1 .. Len(answer) : ~Accepted(answer[j], content, type)}
       /\ kept \subseteq said /\ \A f \in kept : Key(f) \notin Disputed(said)
       /\ \A f, g \in kept : Key(f) = Key(g) => f = g
       /\ \A f \in said : \/ Key(f) \in Disputed(said)
                          \/ \E g \in kept : Key(g) = Key(f) /\ Canonical(g) = Canonical(f)
  BY <1>8, <1>9, <1>10, <1>11, <1>12
<1> QED  BY <1>13 DEF scan, said, kept
-----------------------------------------------------------------------------
(* Texts and amounts *)

Weight(x) == IF x \in Pieces THEN Size[x] ELSE 0

\* Length is the sum of its recursion, and that of a beginning is a sum on the way.
LEMMA LengthIs ==
  ASSUME NEW t, Len(t) \in Nat
  PROVE  \E sum \in [0 .. Len(t) -> Nat] :
            /\ sum[0] = 0 /\ \A n \in 1 .. Len(t) : sum[n] = sum[n - 1] + Weight(t[n])
            /\ Length(t) = sum[Len(t)]
<1> DEFINE N1 == Len(t)
           Next1(s, n) == IF n = 0 THEN 0 ELSE s[n - 1] + Weight(t[n])
           Sums(s, k) == s = [n \in 0 .. k |-> Next1(s, n)]
           Good == {k \in 0 .. N1 : \E s \in [0 .. k -> Nat] : Sums(s, k)}
<1>0. \A x : Weight(x) \in Nat
  BY EvidenceAssumption DEF Weight
<1>1. 0 \in Good
  <2>1. Sums([n \in 0 .. 0 |-> 0], 0)
    OBVIOUS
  <2>2. [n \in 0 .. 0 |-> 0] \in [0 .. 0 -> Nat]
    OBVIOUS
  <2> HIDE DEF Sums
  <2> QED  BY <2>1, <2>2
<1>2. ASSUME NEW k \in 0 .. N1 - 1, k \in Good
      PROVE  k + 1 \in Good
  <2>1. PICK s \in [0 .. k -> Nat] : Sums(s, k)
    BY <1>2
  <2> DEFINE g == [n \in 0 .. k + 1 |-> IF n = k + 1 THEN s[k] + Weight(t[k + 1]) ELSE s[n]]
  <2>2. ASSUME NEW n \in 0 .. k + 1
        PROVE  g[n] = Next1(g, n)
    <3>1. CASE n = 0
      BY <2>1, <3>1
    <3>2. CASE n # 0
      <4>1. n - 1 \in 0 .. k /\ g[n - 1] = s[n - 1]
        BY <3>2
      <4>2. g[n] = s[n - 1] + Weight(t[n])
        BY <2>1, <3>2
      <4> QED  BY <3>2, <4>1, <4>2
    <3> QED  BY <3>1, <3>2
  <2>3. Sums(g, k + 1)
    <3>1. g = [n \in 0 .. k + 1 |-> g[n]]
      OBVIOUS
    <3> HIDE DEF Next1, g
    <3> QED  BY <2>2, <3>1
  <2>4. g \in [0 .. k + 1 -> Nat]
    <3>1. s[k] + Weight(t[k + 1]) \in Nat
      BY <1>0
    <3> QED  BY <3>1
  <2>5. k + 1 \in 0 .. N1
    OBVIOUS
  <2> HIDE DEF Sums, g, N1
  <2> QED  BY <2>3, <2>4, <2>5
<1>3. PICK s \in [0 .. N1 -> Nat] : Sums(s, N1)
  <2> HIDE DEF Sums
  <2>1. 0 .. N1 \subseteq Good
    <3> HIDE DEF Good
    <3> QED  BY <1>1, <1>2, Upwards
  <2> QED  BY <2>1
<1> DEFINE sum == CHOOSE x : Sums(x, N1)
<1>4. Sums(sum, N1)
  <2> HIDE DEF Sums
  <2> QED  BY <1>3
<1>5. Length(t) = sum[N1]
  BY DEF Length, Weight
<1> HIDE DEF sum
<1>6. sum[0] = 0 /\ \A n \in 1 .. N1 : sum[n] = sum[n - 1] + Weight(t[n])
  BY <1>4
<1>7. sum \in [0 .. N1 -> Nat]
  <2> DEFINE Known1 == {n \in 0 .. N1 : sum[n] \in Nat}
  <2>1. 0 \in Known1
    BY <1>6
  <2>2. \A n \in 0 .. N1 - 1 : n \in Known1 => n + 1 \in Known1
    <3>1. ASSUME NEW n \in 0 .. N1 - 1, sum[n] \in Nat
          PROVE  sum[n + 1] \in Nat
      BY <1>0, <1>6, <3>1
    <3> QED  BY <3>1
  <2>3. 0 .. N1 \subseteq Known1
    <3> HIDE DEF Known1
    <3> QED  BY <2>1, <2>2, Upwards
  <2>4. sum = [n \in 0 .. N1 |-> Next1(sum, n)]
    BY <1>4
  <2> QED  BY <2>3, <2>4
<1> QED  BY <1>5, <1>6, <1>7

LEMMA LengthsAre ==
  ASSUME NEW S, NEW t \in Seq(S)
  PROVE  \E sum \in [0 .. Len(t) -> Nat] :
            /\ \A n \in 0 .. Len(t) : Length(SubSeq(t, 1, n)) = sum[n]
            /\ \A m, n \in 0 .. Len(t) : m <= n => sum[m] <= sum[n]
<1>0. Len(t) \in Nat
  OBVIOUS
<1>1. PICK sum \in [0 .. Len(t) -> Nat] :
        sum[0] = 0 /\ \A n \in 1 .. Len(t) : sum[n] = sum[n - 1] + Weight(t[n])
  BY LengthIs
<1>2. ASSUME NEW n \in 0 .. Len(t)
      PROVE  Length(SubSeq(t, 1, n)) = sum[n]
  <2> DEFINE cut == SubSeq(t, 1, n)
  <2>1. Len(cut) = n /\ \A i \in 1 .. n : cut[i] = t[i]
    BY <1>0
  <2> HIDE DEF cut
  <2>2. PICK part \in [0 .. n -> Nat] :
          /\ part[0] = 0 /\ \A i \in 1 .. n : part[i] = part[i - 1] + Weight(cut[i])
          /\ Length(cut) = part[n]
    BY <2>1, LengthIs
  <2>0. n \in Nat
    BY <1>0
  <2> DEFINE Same == {i \in 0 .. n : part[i] = sum[i]}
  <2>3. 0 \in Same
    BY <1>1, <2>2
  <2>4. ASSUME NEW i \in 0 .. n - 1, i \in Same
        PROVE  i + 1 \in Same
    <3>1. i + 1 \in 1 .. n /\ i + 1 \in 1 .. Len(t) /\ (i + 1) - 1 = i
      BY <1>0
    <3>2. part[i + 1] = part[i] + Weight(cut[i + 1]) /\ sum[i + 1] = sum[i] + Weight(t[i + 1])
      BY <1>1, <2>2, <3>1
    <3> QED  BY <2>1, <2>4, <3>1, <3>2
  <2>5. n \in Same
    <3> HIDE DEF Same
    <3>1. 0 .. n \subseteq Same
      BY <1>0, <2>0, <2>3, <2>4, Upwards
    <3> QED  BY <3>1
  <2> QED  BY <2>2, <2>5 DEF cut
<1>3. ASSUME NEW m \in 0 .. Len(t)
      PROVE  \A n \in 0 .. Len(t) : m <= n => sum[m] <= sum[n]
  <2> DEFINE Above == {i \in 0 .. Len(t) : m <= i => sum[m] <= sum[i]}
  <2>1. 0 \in Above
    BY <1>0
  <2>2. ASSUME NEW i \in 0 .. Len(t) - 1, i \in Above
        PROVE  i + 1 \in Above
    <3>1. i + 1 \in 1 .. Len(t) /\ (i + 1) - 1 = i
      BY <1>0
    <3>2. sum[i + 1] = sum[i] + Weight(t[i + 1]) /\ Weight(t[i + 1]) \in Nat
      BY <1>1, <3>1, EvidenceAssumption DEF Weight
    <3>3. sum[i] \in Nat /\ sum[m] \in Nat /\ sum[i + 1] \in Nat
      BY <1>0
    <3> QED  BY <2>2, <3>1, <3>2, <3>3
  <2>3. 0 .. Len(t) \subseteq Above
    <3> HIDE DEF Above
    <3> QED  BY <1>0, <2>1, <2>2, Upwards
  <2> QED  BY <2>3
<1> QED  BY <1>2, <1>3

\* What an audit keeps of a text is the longest beginning that has room, and the whole
\* text exactly if that has; what is cut again stays as it is (_safe_value).
THEOREM CutIs ==
  ASSUME NEW S, NEW t \in Seq(S), NEW limit \in Nat
  PROVE  LET cut == Cut(t, limit)
         IN  /\ \E n \in 0 .. Len(t) : /\ cut = SubSeq(t, 1, n) /\ Length(cut) <= limit
                                       /\ \A m \in n + 1 .. Len(t) : Length(SubSeq(t, 1, m)) > limit
             /\ cut = t <=> Length(t) <= limit
             /\ Cut(cut, limit) = cut
<1> DEFINE fits(x, n) == Length(SubSeq(x, 1, n)) <= limit
           last(x, n) == fits(x, n) /\ (n = Len(x) \/ ~fits(x, n + 1))
<1>1. ASSUME NEW x \in Seq(S)
      PROVE  \E n \in 0 .. Len(x) : /\ Cut(x, limit) = SubSeq(x, 1, n) /\ fits(x, n)
                                    /\ \A m \in n + 1 .. Len(x) : ~fits(x, m)
  <2>0. Len(x) \in Nat
    OBVIOUS
  <2>1. PICK sum \in [0 .. Len(x) -> Nat] :
          /\ \A n \in 0 .. Len(x) : Length(SubSeq(x, 1, n)) = sum[n]
          /\ \A m, n \in 0 .. Len(x) : m <= n => sum[m] <= sum[n]
    BY LengthsAre
  <2>2. \A n \in 0 .. Len(x) : fits(x, n) <=> sum[n] <= limit
    BY <2>1
  <2>3. fits(x, 0)
    <3>1. SubSeq(x, 1, 0) = << >> /\ Len(<< >>) = 0
      OBVIOUS
    <3>2. Length(<< >>) = 0
      BY <3>1, LengthIs
    <3> QED  BY <3>1, <3>2
  <2> HIDE DEF fits
  <2> DEFINE Over == {n \in 0 .. Len(x) : n = Len(x) \/ ~fits(x, n + 1)}
  <2>4. Over \in SUBSET Nat /\ Over # {}
    BY <2>0
  <2>5. PICK n \in Over : \A m \in Over : n <= m
    <3> HIDE DEF Over
    <3> QED  BY <2>4, LeastNatural
  <2>6. fits(x, n)
    <3>1. CASE n = 0
      BY <2>3, <3>1
    <3>2. CASE n # 0
      <4>1. n - 1 \in 0 .. Len(x) /\ (n - 1) + 1 = n
        BY <2>0, <2>5, <3>2
      <4>2. n - 1 \notin Over
        <5>1. n \in Nat /\ ~(n <= n - 1)
          BY <2>4, <2>5
        <5> HIDE DEF Over
        <5> QED  BY <2>5, <5>1
      <4>3. ~(n - 1 = Len(x) \/ ~fits(x, (n - 1) + 1))
        BY <4>1, <4>2
      <4> QED  BY <4>1, <4>3
    <3> QED  BY <3>1, <3>2
  <2>7. n \in 0 .. Len(x) /\ last(x, n)
    BY <2>5, <2>6
  <2> DEFINE k == CHOOSE i \in 0 .. Len(x) : last(x, i)
  <2>8. k \in 0 .. Len(x) /\ last(x, k)
    <3> HIDE DEF last
    <3> QED  BY <2>7
  <2>9. Cut(x, limit) = SubSeq(x, 1, k)
    BY DEF Cut, fits
  <2> HIDE DEF k
  <2>10. ASSUME NEW m \in k + 1 .. Len(x) PROVE ~fits(x, m)
    <3>1. k + 1 \in 0 .. Len(x) /\ m \in 0 .. Len(x) /\ k + 1 <= m /\ k # Len(x)
      BY <2>0, <2>8
    <3>2. ~(sum[k + 1] <= limit) /\ sum[k + 1] <= sum[m]
      BY <2>1, <2>2, <2>8, <3>1
    <3>3. sum[k + 1] \in Nat /\ sum[m] \in Nat
      BY <3>1
    <3> QED  BY <2>2, <3>1, <3>2, <3>3
  <2> QED  BY <2>8, <2>9, <2>10
<1>2. ASSUME NEW x \in Seq(S)
      PROVE  Cut(x, limit) \in Seq(S) /\ Length(Cut(x, limit)) <= limit
             /\ (Cut(x, limit) = x <=> Length(x) <= limit)
  <2>0. Len(x) \in Nat /\ SubSeq(x, 1, Len(x)) = x
    OBVIOUS
  <2>1. PICK n \in 0 .. Len(x) : /\ Cut(x, limit) = SubSeq(x, 1, n) /\ fits(x, n)
                                 /\ \A m \in n + 1 .. Len(x) : ~fits(x, m)
    BY <1>1
  <2>2. SubSeq(x, 1, n) \in Seq(S) /\ Len(SubSeq(x, 1, n)) = n
    BY <2>0
  <2>3. CASE n = Len(x)
    BY <2>0, <2>1, <2>3
  <2>4. CASE n # Len(x)
    <3>0. n \in 0 .. Len(x) /\ Len(x) \in Nat
      BY <2>0
    <3>1. Len(x) \in n + 1 .. Len(x)
      BY <2>4, <3>0
    <3>2. ~fits(x, Len(x))
      BY <2>1, <3>1
    <3>3. SubSeq(x, 1, n) # x
      BY <2>2, <2>4
    <3> QED  BY <2>0, <2>1, <2>2, <3>2, <3>3
  <2> QED  BY <2>3, <2>4
<1> DEFINE cut == Cut(t, limit)
<1>3. cut \in Seq(S) /\ Length(cut) <= limit
  BY <1>2
<1>4. Cut(cut, limit) = cut
  <2> HIDE DEF cut
  <2> QED  BY <1>2, <1>3
<1>5. \E n \in 0 .. Len(t) : /\ cut = SubSeq(t, 1, n) /\ Length(cut) <= limit
                             /\ \A m \in n + 1 .. Len(t) : Length(SubSeq(t, 1, m)) > limit
  <2>0. Len(t) \in Nat
    OBVIOUS
  <2>1. PICK n \in 0 .. Len(t) : cut = SubSeq(t, 1, n) /\ \A m \in n + 1 .. Len(t) : ~fits(t, m)
    BY <1>1
  <2>2. ASSUME NEW m \in n + 1 .. Len(t) PROVE Length(SubSeq(t, 1, m)) > limit
    <3>1. Length(SubSeq(t, 1, m)) \in Nat
      <4>1. m \in 0 .. Len(t)
        BY <2>0
      <4> QED  BY <4>1, LengthsAre
    <3> QED  BY <2>1, <2>2, <3>1
  <2> HIDE DEF cut
  <2> QED  BY <1>3, <2>1, <2>2
<1> QED  BY <1>2, <1>4, <1>5

\* A digit of the decimals of an amount, however many are written.
Decimal(a, i) == IF i \in 1 .. Len(Digits[a].decimals) THEN Digits[a].decimals[i] ELSE 0

\* Two amounts have one canonical form exactly if they are the same number, whatever
\* zeros they are written with at the end (Decimal.normalize in FactNormalizer).
THEOREM PlainIsTheNumber ==
  \A a, b \in DOMAIN Digits :
    Plain(a) = Plain(b) <=> /\ Digits[a].whole = Digits[b].whole
                            /\ \A i \in Nat : Decimal(a, i) = Decimal(b, i)
<1> DEFINE d(x) == Digits[x].decimals
           ends(x, n) == /\ \A i \in n + 1 .. Len(d(x)) : d(x)[i] = 0
                         /\ n > 0 => d(x)[n] # 0
           last(x) == CHOOSE n \in 0 .. Len(d(x)) : ends(x, n)
<1>1. ASSUME NEW x \in DOMAIN Digits
      PROVE  d(x) \in Seq(0 .. 9) /\ Len(d(x)) \in Nat /\ \A i \in 1 .. Len(d(x)) : d(x)[i] \in 0 .. 9
  <2>1. d(x) \in Seq(0 .. 9)
    BY EvidenceAssumption
  <2> HIDE DEF d
  <2> QED  BY <2>1, ElementOfSeq
<1>2. ASSUME NEW x \in DOMAIN Digits
      PROVE  last(x) \in 0 .. Len(d(x)) /\ ends(x, last(x))
  <2> DEFINE s == d(x)
             Zeros == {n \in 0 .. Len(s) : \A i \in n + 1 .. Len(s) : s[i] = 0}
  <2>1. Len(s) \in Nat /\ \A i \in 1 .. Len(s) : s[i] \in 0 .. 9
    BY <1>1
  <2> HIDE DEF s
  <2>2. Zeros \in SUBSET Nat /\ Zeros # {}
    <3>1. Len(s) \in Zeros
      BY <2>1
    <3> QED  BY <2>1, <3>1
  <2>3. PICK n \in Zeros : \A m \in Zeros : n <= m
    <3> HIDE DEF Zeros
    <3> QED  BY <2>2, LeastNatural
  <2>4. n > 0 => s[n] # 0
    <3> SUFFICES ASSUME n > 0, s[n] = 0 PROVE FALSE
      OBVIOUS
    <3>1. n \in Nat /\ n <= Len(s)
      BY <2>1, <2>3
    <3>2. n - 1 \in 0 .. Len(s)
      BY <2>1, <3>1
    <3>3. \A i \in (n - 1) + 1 .. Len(s) : s[i] = 0
      <4>1. ASSUME NEW i \in (n - 1) + 1 .. Len(s) PROVE s[i] = 0
        <5>1. i = n \/ i \in n + 1 .. Len(s)
          BY <2>1, <3>1
        <5> QED  BY <2>3, <5>1
      <4> QED  BY <4>1
    <3>4. n - 1 \in Zeros
      BY <3>2, <3>3
    <3> HIDE DEF Zeros
    <3> QED  BY <2>3, <3>1, <3>4
  <2>5. n \in 0 .. Len(d(x)) /\ ends(x, n)
    BY <2>3, <2>4 DEF s
  <2> HIDE DEF ends, d
  <2> QED  BY <2>5
<1>3. \A x \in DOMAIN Digits : Plain(x) = [whole |-> Digits[x].whole, decimals |-> SubSeq(d(x), 1, last(x))]
  BY DEF Plain
<1> HIDE DEF last
<1>4. ASSUME NEW x \in DOMAIN Digits
      PROVE  /\ \A i \in Nat : Decimal(x, i) = IF i \in 1 .. last(x) THEN d(x)[i] ELSE 0
             /\ last(x) # 0 => Decimal(x, last(x)) # 0
             /\ last(x) \in Nat /\ Len(SubSeq(d(x), 1, last(x))) = last(x)
             /\ \A i \in 1 .. last(x) : SubSeq(d(x), 1, last(x))[i] = d(x)[i]
  <2> DEFINE s == d(x)
  <2>0. s \in Seq(0 .. 9) /\ Len(s) \in Nat /\ last(x) \in 0 .. Len(s)
    BY <1>1, <1>2
  <2>1. (\A i \in last(x) + 1 .. Len(s) : s[i] = 0) /\ (last(x) > 0 => s[last(x)] # 0)
    BY <1>2
  <2>2. \A i : Decimal(x, i) = IF i \in 1 .. Len(s) THEN s[i] ELSE 0
    BY DEF Decimal
  <2> HIDE DEF s
  <2>3. \A i \in Nat : Decimal(x, i) = IF i \in 1 .. last(x) THEN s[i] ELSE 0
    BY <2>0, <2>1, <2>2
  <2>4. last(x) # 0 => Decimal(x, last(x)) # 0
    BY <2>0, <2>1, <2>2
  <2>5. Len(SubSeq(s, 1, last(x))) = last(x) /\ \A i \in 1 .. last(x) : SubSeq(s, 1, last(x))[i] = s[i]
    BY <2>0
  <2> QED  BY <2>0, <2>3, <2>4, <2>5 DEF s
<1>5. TAKE a, b \in DOMAIN Digits
<1> DEFINE pa == SubSeq(d(a), 1, last(a))
           pb == SubSeq(d(b), 1, last(b))
<1>6. pa \in Seq(0 .. 9) /\ pb \in Seq(0 .. 9)
  <2>1. \A x \in DOMAIN Digits : SubSeq(d(x), 1, last(x)) \in Seq(0 .. 9)
    <3>1. TAKE x \in DOMAIN Digits
    <3>2. d(x) \in Seq(0 .. 9) /\ Len(d(x)) \in Nat /\ last(x) \in 0 .. Len(d(x))
      BY <1>1, <1>2
    <3> HIDE DEF d
    <3> QED  BY <3>2
  <2> QED  BY <2>1
<1>7. Plain(a) = Plain(b) <=> Digits[a].whole = Digits[b].whole /\ pa = pb
  <2>1. /\ Plain(a) = [whole |-> Digits[a].whole, decimals |-> pa]
        /\ Plain(b) = [whole |-> Digits[b].whole, decimals |-> pb]
    BY <1>3
  <2> HIDE DEF pa, pb
  <2> QED  BY <2>1
<1>8. ASSUME pa = pb PROVE \A i \in Nat : Decimal(a, i) = Decimal(b, i)
  <2>1. last(a) = last(b)
    BY <1>4, <1>8
  <2> HIDE DEF d
  <2>2. \A i \in 1 .. last(a) : d(a)[i] = d(b)[i]
    BY <1>4, <1>8, <2>1
  <2> QED  BY <1>4, <2>1, <2>2
<1>9. ASSUME \A i \in Nat : Decimal(a, i) = Decimal(b, i) PROVE pa = pb
  <2>1. last(a) = last(b)
    <3> HIDE DEF d
    <3>1. last(a) \in Nat /\ last(b) \in Nat
      BY <1>4
    <3>2. ~(last(a) < last(b)) /\ ~(last(b) < last(a))
      BY <1>4, <1>9, <3>1
    <3> QED  BY <3>1, <3>2
  <2> HIDE DEF d
  <2>2. \A i \in 1 .. last(a) : pa[i] = pb[i]
    BY <1>4, <1>9, <2>1
  <2>3. Len(pa) = Len(pb) /\ Len(pa) = last(a)
    BY <1>4, <2>1
  <2>4. \A i \in 1 .. Len(pa) : pa[i] = pb[i]
    BY <2>2, <2>3
  <2> HIDE DEF pa, pb
  <2> QED  BY <1>6, <2>3, <2>4, SeqEqual
<1> HIDE DEF pa, pb
<1> QED  BY <1>7, <1>8, <1>9

\* What is found in a text is found in every text that contains it.
LEMMA WithinThrough ==
  ASSUME NEW t \in Seq(Pieces), NEW s \in Seq(Pieces), NEW u \in Seq(Pieces),
         Within(t, s), Within(s, u)
  PROVE  Within(t, u)
<1>0. Len(t) \in Nat /\ Len(s) \in Nat /\ Len(u) \in Nat
  OBVIOUS
<1>1. ASSUME NEW x \in Seq(Pieces)
      PROVE  Len(Folded(x)) = Len(x) /\ \A i \in 1 .. Len(x) : Folded(x)[i] = Lower[x[i]]
  BY DEF Folded
<1>2. PICK i \in 0 .. Len(s) - Len(t) : \A j \in 1 .. Len(t) : Folded(s)[i + j] = Folded(t)[j]
  BY <1>1 DEF Within, Occurs
<1>3. PICK k \in 0 .. Len(u) - Len(s) : \A j \in 1 .. Len(s) : Folded(u)[k + j] = Folded(s)[j]
  BY <1>1 DEF Within, Occurs
<1>4. t # << >> /\ Len(t) <= Len(s) /\ Len(s) <= Len(u)
  BY DEF Within
<1>5. k + i \in 0 .. Len(u) - Len(t) /\ Len(t) <= Len(u)
  BY <1>0, <1>2, <1>3, <1>4
<1>6. ASSUME NEW j \in 1 .. Len(t)
      PROVE  Folded(u)[(k + i) + j] = Folded(t)[j]
  <2>1. i + j \in 1 .. Len(s) /\ k + (i + j) = (k + i) + j
    BY <1>0, <1>2, <1>3, <1>4
  <2>2. Folded(u)[k + (i + j)] = Folded(s)[i + j]
    BY <1>3, <2>1
  <2> QED  BY <1>2, <2>1, <2>2
<1>7. Occurs(Folded(t), Folded(u))
  BY <1>1, <1>5, <1>6 DEF Occurs
<1> QED  BY <1>4, <1>5, <1>7 DEF Within

Texts == Seq(Pieces)

\* Every value of an accepted fact is on the page, not only in the quote the model chose:
\* its name, its other strings, the items of its list, its amount and a word for each
\* classification that says something (LLMFactExtractionProvider._ground).
THEOREM AcceptedIsOnThePage ==
  ASSUME NEW f, NEW content \in Texts, NEW type, Accepted(f, content, type),
         {"name", "quote", "details", "items", "amount", "echo", "enums"} \subseteq DOMAIN f,
         f.name \in Texts, f.quote \in Texts,
         \A d \in DOMAIN f.details : f.details[d] \in Texts,
         \A i \in 1 .. Len(f.items) : f.items[i] \in Texts,
         f.amount # Null => f.amount \in Pieces,
         \A e \in DOMAIN f.enums : f.enums[e] \in DOMAIN Aliases \cup {"UNKNOWN", "OTHER", "PUBLIC", Null}
  PROVE  LET g == Adapted(f)
         IN  /\ Within(g.name, content)
             /\ \A d \in DOMAIN g.details : Within(g.details[d], content)
             /\ \A i \in 1 .. Len(g.items) : Within(g.items[i], content)
             /\ g.amount # Null => Within(<<g.amount>>, content)
             /\ \A e \in DOMAIN g.enums : g.enums[e] \in {"UNKNOWN", "OTHER", "PUBLIC"}
                  \/ \E a \in Aliases[g.enums[e]] : Within(a, content)
<1> DEFINE g == Adapted(f)
<1>1. /\ g.name = f.name /\ g.quote = f.quote /\ g.details = f.details /\ g.items = f.items
      /\ g.amount = f.amount
  BY DEF Adapted
<1>2. Grounded(g, content)
  BY DEF Accepted
<1>3. \A e \in DOMAIN g.enums :
        g.enums[e] \in {"UNKNOWN", "OTHER", "PUBLIC"} \/ Aliases[g.enums[e]] \subseteq Texts
  <2>1. g.enums = [e \in DOMAIN f.enums |-> IF f.enums[e] # Null THEN f.enums[e]
                                           ELSE IF e = "feature_category" THEN "OTHER" ELSE "UNKNOWN"]
    BY DEF Adapted
  <2> HIDE DEF g
  <2> QED  BY <2>1, EvidenceAssumption DEF Texts
<1> HIDE DEF g
<1>4. Within(g.quote, content)
  BY <1>2 DEF Grounded
<1>5. ASSUME NEW t \in Texts, Within(t, g.quote) PROVE Within(t, content)
  BY <1>1, <1>4, <1>5, WithinThrough DEF Texts
<1>6. Within(g.name, content)
  BY <1>1, <1>2, <1>5 DEF Grounded
<1>7. \A d \in DOMAIN g.details : Within(g.details[d], content)
  BY <1>1, <1>2, <1>5 DEF Grounded
<1>8. \A i \in 1 .. Len(g.items) : Within(g.items[i], content)
  BY <1>1, <1>2, <1>5 DEF Grounded
<1>9. g.amount # Null => Within(<<g.amount>>, content)
  <2> SUFFICES ASSUME g.amount # Null PROVE Within(<<g.amount>>, content)
    OBVIOUS
  <2>1. <<g.amount>> \in Texts
    BY <1>1 DEF Texts
  <2>2. Within(<<g.amount>>, g.quote)
    BY <1>2 DEF Grounded
  <2> QED  BY <1>5, <2>1, <2>2
<1>10. \A e \in DOMAIN g.enums : g.enums[e] \in {"UNKNOWN", "OTHER", "PUBLIC"}
         \/ \E a \in Aliases[g.enums[e]] : Within(a, content)
  BY <1>2, <1>3, <1>5 DEF Grounded, Supported
<1> QED  BY <1>6, <1>7, <1>8, <1>9, <1>10 DEF g
-----------------------------------------------------------------------------
Outcomes == Failures \cup {"answered"}

\* The requests that were sent, one by one.
SentOnes == UNION {{<<s, i>> : i \in 1 .. Len(requests[s])} : s \in Sources}

\* An earlier run has the answer for the page of s.
Known(s) == \E p \in cache[s] : p.text = snapshots[s].text

Typed ==
  /\ limits \in [Limits -> Nat] /\ at \in Nat /\ calls \in Nat
  /\ phase \in {"fetch", "extract", "ask", "complete", "partial", "failed"}
  /\ requests \in [Sources -> Seq(Outcomes)]

\* Nothing is sent for a page before its turn comes.
Turns ==
  /\ phase = "fetch" => \A s \in Sources : requests[s] = << >>
  /\ phase = "extract" => \A s \in Sources : s >= at => requests[s] = << >>
  /\ phase = "ask" => at \in Sources /\ \A s \in Sources : s > at => requests[s] = << >>

\* What was sent for a page, while its turn lasts and afterwards.
Bills ==
  /\ phase = "ask" => /\ \A i \in 1 .. Len(requests[at]) : requests[at][i] = "busy"
                      /\ Len(requests[at]) <= limits.retries /\ ~Known(at)
  /\ \A s \in Sources : /\ \A i \in 1 .. Len(requests[s]) - 1 : requests[s][i] = "busy"
                        /\ Len(requests[s]) <= limits.retries + 1
                        /\ requests[s] # << >> => ~Known(s)

Ledger == IsFiniteSet(SentOnes) /\ Sent <= limits.reservations /\ Sent <= calls

Accounts == Typed /\ Turns /\ Bills /\ Ledger

LEMMA Bounds == N \in Nat /\ Settings \subseteq [Limits -> Nat]
BY IntakeAssumption

LEMMA SentCounts == Sent = Cardinality(SentOnes)
BY DEF Sent, SentOnes

LEMMA InitAccounts == Init => Accounts
<1> SUFFICES ASSUME Init PROVE Accounts
  OBVIOUS
<1>1. Typed
  BY Bounds DEF Init, Typed
<1>2. \A s \in Sources : requests[s] = << >> /\ Len(requests[s]) = 0
  BY DEF Init
<1>3. SentOnes = {}
  BY <1>2 DEF SentOnes
<1>4. IsFiniteSet({}) /\ Cardinality({}) = 0
  BY FS_EmptySet
<1>5. limits.reservations \in Nat /\ limits.retries \in Nat
  BY <1>1 DEF Typed, Limits
<1>6. Ledger
  BY <1>1, <1>3, <1>4, <1>5, SentCounts DEF Ledger, Typed
<1>7. Turns /\ Bills
  BY <1>2, <1>5 DEF Init, Turns, Bills
<1> QED  BY <1>1, <1>6, <1>7 DEF Accounts

\* One more request is one more in the count.
LEMMA SendCounts ==
  ASSUME Accounts, phase = "ask", NEW o \in Outcomes, Send(o), UNCHANGED limits
  PROVE  /\ Ledger'
         /\ calls' \in Nat /\ requests' \in [Sources -> Seq(Outcomes)]
         /\ \A s \in Sources \ {at} : requests'[s] = requests[s]
         /\ Len(requests'[at]) = Len(requests[at]) + 1
         /\ \A i \in 1 .. Len(requests[at]) : requests'[at][i] = requests[at][i]
         /\ requests'[at][Len(requests[at]) + 1] = o
         /\ Sent < limits.reservations /\ calls' = calls + 1
<1> DEFINE n == Len(requests[at]) + 1
<1>0. /\ at \in Sources /\ requests \in [Sources -> Seq(Outcomes)] /\ calls \in Nat
      /\ requests[at] \in Seq(Outcomes) /\ Len(requests[at]) \in Nat
      /\ limits.reservations \in Nat
  BY DEF Accounts, Typed, Turns, Limits
<1>1. /\ requests' = [requests EXCEPT ![at] = Append(requests[at], o)]
      /\ calls' = calls + 1 /\ Sent < limits.reservations
  BY DEF Send
<1>2. /\ Append(requests[at], o) \in Seq(Outcomes) /\ Len(Append(requests[at], o)) = n
      /\ \A i \in 1 .. Len(requests[at]) : Append(requests[at], o)[i] = requests[at][i]
      /\ Append(requests[at], o)[n] = o
  BY <1>0
<1>3. /\ requests' \in [Sources -> Seq(Outcomes)]
      /\ \A s \in Sources \ {at} : requests'[s] = requests[s]
      /\ requests'[at] = Append(requests[at], o)
  BY <1>0, <1>1, <1>2
<1>4. 1 .. n = (1 .. Len(requests[at])) \cup {n}
  BY <1>0
<1>5. SentOnes' = SentOnes \cup {<<at, n>>}
  <2>1. \A x : x \in SentOnes <=> \E s \in Sources : \E i \in 1 .. Len(requests[s]) : x = <<s, i>>
    BY DEF SentOnes
  <2>2. \A x : x \in SentOnes' <=> \E s \in Sources : \E i \in 1 .. Len(requests'[s]) : x = <<s, i>>
    BY DEF SentOnes
  <2>3. \A x : x \in SentOnes' <=> x \in SentOnes \/ x = <<at, n>>
    BY <1>0, <1>2, <1>3, <1>4, <2>1, <2>2
  <2> QED  BY <2>3
<1>6. IsFiniteSet(SentOnes) /\ Sent <= calls
  BY DEF Accounts, Ledger
<1>7. /\ IsFiniteSet(SentOnes \cup {<<at, n>>})
      /\ Cardinality(SentOnes \cup {<<at, n>>}) =
           IF <<at, n>> \in SentOnes THEN Cardinality(SentOnes) ELSE Cardinality(SentOnes) + 1
  BY <1>6, FS_AddElement
<1>8. Sent \in Nat
  BY <1>6, SentCounts, FS_CardinalityType
<1>9. Sent' = Cardinality(SentOnes')
  BY DEF Sent, SentOnes
<1>10. IsFiniteSet(SentOnes') /\ Sent' \in {Sent, Sent + 1}
  <2> HIDE DEF n
  <2>1. Sent' = Cardinality(SentOnes \cup {<<at, n>>}) /\ IsFiniteSet(SentOnes')
    BY <1>5, <1>7, <1>9
  <2> QED  BY <1>7, <2>1, SentCounts
<1>11. Ledger'
  <2>1. Sent' <= limits.reservations /\ Sent' <= calls'
    BY <1>0, <1>1, <1>6, <1>8, <1>10
  <2>2. limits'.reservations = limits.reservations
    OBVIOUS
  <2> QED  BY <1>10, <2>1, <2>2 DEF Ledger
<1> QED  BY <1>0, <1>1, <1>2, <1>3, <1>11

\* Steps that send nothing.
Free ==
  \/ FetchPage \/ EndFetch \/ SkipPage \/ StopAtLimit \/ TooLong \/ Reuse \/ Ask
  \/ CallLimit \/ Denied \/ Complete \/ Publish \/ Rest

LEMMA FreeStep == ASSUME Accounts, Free PROVE Accounts'
<1> USE Bounds DEF Accounts
<1>0. /\ UNCHANGED <<limits, requests, cache>> /\ calls' \in {calls, calls + 1} /\ calls \in Nat
      /\ limits.reservations \in Nat /\ limits.retries \in Nat /\ N \in Nat
  BY DEF Free, FetchPage, EndFetch, SkipPage, StopAtLimit, TooLong, Reuse, Ask, CallLimit, Denied,
         Complete, Publish, Rest, vars, Typed, Limits
<1>1. Ledger'
  <2>1. Sent' = Sent /\ SentOnes' = SentOnes
    BY <1>0 DEF Sent, SentOnes
  <2>2. Sent \in Nat
    BY SentCounts, FS_CardinalityType DEF Ledger
  <2> QED  BY <1>0, <2>1, <2>2 DEF Ledger
<1>2. CASE FetchPage
  <2>1. phase = "fetch" /\ phase' = phase /\ at' = at + 1
    BY <1>2 DEF FetchPage
  <2> QED  BY <1>0, <1>1, <2>1 DEF Typed, Turns, Bills
<1>3. CASE EndFetch
  <2>1. phase = "fetch" /\ phase' \in {"extract", "failed"} /\ at' = 1
    BY <1>3 DEF EndFetch
  <2> QED  BY <1>0, <1>1, <2>1 DEF Typed, Turns, Bills
<1>4. CASE SkipPage \/ StopAtLimit \/ TooLong
  <2>1. phase = "extract" /\ phase' = phase /\ at' \in {at + 1, N + 1} /\ snapshots' = snapshots
    BY <1>4 DEF SkipPage, StopAtLimit, TooLong, Open, Turn
  <2>2. \A s \in Sources : s >= at' => s >= at
    BY <1>0, <2>1 DEF Sources, Typed
  <2> QED  BY <1>0, <1>1, <2>1, <2>2 DEF Typed, Turns, Bills, Known
<1>5. CASE Reuse
  <2>1. phase = "extract" /\ phase' = phase /\ at' = at + 1 /\ snapshots' = snapshots
    BY <1>5 DEF Reuse, Open, Turn, Close
  <2> QED  BY <1>0, <1>1, <2>1 DEF Typed, Turns, Bills, Known, Sources
<1>6. CASE Ask
  <2>1. phase = "extract" /\ phase' = "ask" /\ at' = at /\ snapshots' = snapshots /\ at \in Sources
    BY <1>6 DEF Ask, Open, Turn, Processed
  <2>2. requests[at] = << >> /\ ~Known(at)
    BY <1>6, <2>1 DEF Ask, Cached, Known, Turns, Typed, Sources
  <2> QED  BY <1>0, <1>1, <2>1, <2>2 DEF Typed, Turns, Bills, Known, Sources
<1>7. CASE CallLimit \/ Denied
  <2>1. phase = "ask" /\ phase' = "extract" /\ at' = at + 1 /\ snapshots' = snapshots
    BY <1>7 DEF CallLimit, Denied, MayCall, Close
  <2> QED  BY <1>0, <1>1, <2>1 DEF Typed, Turns, Bills, Known, Sources
<1>8. CASE Complete \/ Publish
  <2>1. phase' \in {"complete", "partial", "failed"} /\ at' = at /\ snapshots' = snapshots
    BY <1>8 DEF Complete, Publish
  <2> QED  BY <1>0, <1>1, <2>1 DEF Typed, Turns, Bills, Known
<1>9. CASE Rest
  BY <1>9, <1>1 DEF Rest, vars, Typed, Turns, Bills, Known
<1> QED  BY <1>2, <1>3, <1>4, <1>5, <1>6, <1>7, <1>8, <1>9 DEF Free

\* A request goes out in the turn of its page, the first or after a busy answer.
LEMMA PaidStep ==
  ASSUME Accounts, Retry \/ GiveUp \/ Answered
  PROVE  Accounts'
<1> USE Bounds
<1>01. phase = "ask" /\ UNCHANGED <<limits, snapshots, cache>>
  BY DEF Retry, GiveUp, Answered, Send, MayCall
<1>02. /\ at \in Sources /\ limits.retries \in Nat
       /\ requests[at] \in Seq(Outcomes) /\ Len(requests[at]) \in Nat
  BY <1>01 DEF Accounts, Typed, Turns, Limits
<1>03. Sources \subseteq Nat
  BY DEF Sources
<1>0. /\ phase = "ask" /\ at \in Sources /\ at \in Nat /\ UNCHANGED <<limits, snapshots, cache>>
      /\ limits.retries \in Nat /\ requests[at] \in Seq(Outcomes) /\ Len(requests[at]) \in Nat
      /\ \A s \in Sources : s \in Nat
  BY <1>01, <1>02, <1>03
<1>1. PICK o \in Outcomes :
        /\ Send(o)
        /\ \/ /\ o = "busy" /\ Len(requests[at]) < limits.retries /\ phase' = phase /\ at' = at
           \/ phase' = "extract" /\ at' = at + 1
  <2>1. CASE Retry
    BY <2>1 DEF Retry, Retryable, Outcomes
  <2>2. CASE GiveUp
    BY <2>2 DEF GiveUp, Close, Outcomes
  <2>3. CASE Answered
    BY <2>3 DEF Answered, Close, Outcomes
  <2> QED  BY <2>1, <2>2, <2>3
<1>2. /\ Ledger' /\ calls' \in Nat /\ requests' \in [Sources -> Seq(Outcomes)]
      /\ \A s \in Sources \ {at} : requests'[s] = requests[s]
      /\ Len(requests'[at]) = Len(requests[at]) + 1
      /\ \A i \in 1 .. Len(requests[at]) : requests'[at][i] = requests[at][i]
      /\ requests'[at][Len(requests[at]) + 1] = o
  BY <1>0, <1>1, SendCounts
<1>3. /\ \A i \in 1 .. Len(requests[at]) : requests[at][i] = "busy"
      /\ Len(requests[at]) <= limits.retries /\ ~Known(at)
      /\ \A s \in Sources : s > at => requests[s] = << >>
  BY <1>0 DEF Accounts, Bills, Turns
<1>4. Typed'
  BY <1>0, <1>1, <1>2 DEF Accounts, Typed
<1>5. Turns'
  <2>1. CASE phase' = "ask" /\ at' = at
    BY <1>0, <1>2, <1>3, <2>1 DEF Turns
  <2>2. CASE phase' = "extract" /\ at' = at + 1
    <3>1. \A s \in Sources : s >= at + 1 => s # at /\ s > at
      BY <1>0
    <3> QED  BY <1>0, <1>2, <1>3, <2>2, <3>1 DEF Turns
  <2> QED  BY <1>0, <1>1, <2>1, <2>2
<1>6. \A s \in Sources : Known(s)' = Known(s)
  BY <1>0 DEF Known
<1>7. \A s \in Sources : /\ \A i \in 1 .. Len(requests'[s]) - 1 : requests'[s][i] = "busy"
                         /\ Len(requests'[s]) <= limits.retries + 1
                         /\ requests'[s] # << >> => ~Known(s)
  <2>1. ASSUME NEW s \in Sources, s # at
        PROVE  /\ \A i \in 1 .. Len(requests'[s]) - 1 : requests'[s][i] = "busy"
               /\ Len(requests'[s]) <= limits.retries + 1
               /\ requests'[s] # << >> => ~Known(s)
    BY <1>2, <2>1 DEF Accounts, Bills
  <2>2. /\ \A i \in 1 .. Len(requests'[at]) - 1 : requests'[at][i] = "busy"
        /\ Len(requests'[at]) <= limits.retries + 1 /\ ~Known(at)
    <3>1. Len(requests'[at]) - 1 = Len(requests[at])
      BY <1>0, <1>2
    <3>2. \A i \in 1 .. Len(requests[at]) : requests'[at][i] = "busy"
      BY <1>2, <1>3
    <3>3. Len(requests[at]) + 1 <= limits.retries + 1
      BY <1>0, <1>3
    <3>4. Len(requests'[at]) <= limits.retries + 1
      BY <1>2, <3>3
    <3> QED  BY <1>3, <3>1, <3>2, <3>4
  <2> QED  BY <2>1, <2>2
<1>8. phase' = "ask" => /\ \A i \in 1 .. Len(requests'[at]) : requests'[at][i] = "busy"
                        /\ Len(requests'[at]) <= limits.retries /\ at' = at
  <2>1. ASSUME phase' = "ask" PROVE o = "busy" /\ Len(requests[at]) < limits.retries /\ at' = at
    BY <1>1, <2>1
  <2>2. 1 .. Len(requests[at]) + 1 = (1 .. Len(requests[at])) \cup {Len(requests[at]) + 1}
    BY <1>0
  <2>3. Len(requests[at]) < limits.retries => Len(requests[at]) + 1 <= limits.retries
    BY <1>0
  <2> QED  BY <1>2, <1>3, <2>1, <2>2, <2>3
<1>9. Bills'
  BY <1>0, <1>3, <1>6, <1>7, <1>8 DEF Bills
<1> QED  BY <1>2, <1>4, <1>5, <1>9 DEF Accounts

LEMMA AccountsStep == ASSUME Accounts, [Next]_vars PROVE Accounts'
<1>1. CASE UNCHANGED vars
  BY <1>1 DEF vars, Accounts, Typed, Turns, Bills, Known, Ledger, SentOnes, Sent
<1> QED  BY <1>1, FreeStep, PaidStep DEF Next, Free

\* A request to the model is paid for again only after 429 or 5xx and within the retries;
\* the reservations bound all of them, and a page whose answer is cached costs nothing
\* (LLMFactExtractionProvider.extract under FactExtractionService).
THEOREM Economical == Spec => []CostIsNeverRepeated
<1>1. Accounts => CostIsNeverRepeated
  BY DEF Accounts, Bills, Known, Ledger, CostIsNeverRepeated
<1> QED  BY <1>1, InitAccounts, AccountsStep, PTL DEF Spec
-----------------------------------------------------------------------------
Changes == {"JS_UNSUPPORTED", "FETCH_FAILED", "BASELINE", "UNCHANGED", "PAGE_CHANGED"}
Snapshots == {p \in [good : BOOLEAN, text : DOMAIN Content \cup {0}, change : Changes] :
                p.good <=> p.text \in DOMAIN Content}
Statuses == {"SUCCEEDED", "NO_FACTS", "PARTIAL_ERROR", "FAILED"}

\* Ranges, and how far the run is: audits are of pages whose turn is over.
Ranges ==
  /\ limits \in Settings /\ at \in 1 .. N + 1 /\ errors \in BOOLEAN
  /\ asks \in 0 .. limits.asks /\ calls \in 0 .. limits.calls
  /\ snapshots \in Seq(Snapshots) /\ Len(snapshots) = IF phase = "fetch" THEN at - 1 ELSE N
  /\ \A s \in Sources : cache[s] \subseteq Cacheable(s)
  /\ phase = "ask" => snapshots[at].good
Progress ==
  /\ DOMAIN audits \subseteq {s \in Sources : s < at}
  /\ \A s \in DOMAIN audits : audits[s].status \in Statuses
  /\ phase = "fetch" => audits = << >>
Replied ==
  /\ DOMAIN replies = Sources
  /\ \A s \in Sources : replies[s] = {} \/
       (s \in DOMAIN audits /\ \E a \in ModelAnswers[snapshots[s].text] : replies[s] = {a})

\* The memory of identities is that of the observations.
Remembered ==
  /\ DOMAIN seen = {Key(o.fact) : o \in observed}
  /\ \A k \in DOMAIN seen : \E o \in observed : Key(o.fact) = k /\ Canonical(o.fact) = seen[k]

\* What an observation rests on.
Backed == \A o \in observed :
  /\ o.source \in DOMAIN audits /\ Within(o.fact.quote, Content[snapshots[o.source].text])
  /\ o.fact \in Stated(o.source) \cup {Clipped(f, AuditCut) : f \in Stated(o.source)}

\* What became of the values a page states.
Settled(s) ==
  /\ \A k \in Disputed(Stated(s)) : /\ Excerpt(k, ProviderCut) \in audits[s].rejected
                                    /\ \A o \in observed : o.source = s => Key(o.fact) # k
  /\ \A f \in Legible(Stated(s)) : Key(f) \in Disputed(Stated(s)) \/
       /\ Key(f) \in DOMAIN seen
       /\ seen[Key(f)] = Canonical(f) \/ Excerpt(Key(f), SourceCut) \in audits[s].clashes

\* A page without an error: the whole answer is supported, and contested nowhere.
Spotless(s) ==
  /\ replies[s] # {} /\ audits[s].rejected = {} /\ audits[s].clashes = {} /\ Disputed(Stated(s)) = {}
  /\ \A a \in replies[s] : \A i \in 1 .. Len(a) : Adapted(a[i]) \in Stated(s)
Unbroken == (~errors /\ phase \in {"extract", "ask", "complete"}) =>
  /\ N <= limits.pages /\ \A s \in Sources : s < at => s \in DOMAIN audits
  /\ \A s \in DOMAIN audits : Spotless(s)

Outcome ==
  /\ phase = "complete" => ~errors /\ at = N + 1 /\ \A s \in Sources : snapshots[s].good
  /\ phase = "partial" => published # {} /\ \A k \in Keys(published) : k \notin Excluded
  /\ published \subseteq {o.fact : o \in observed}

Accounted == Remembered /\ Backed /\ \A s \in DOMAIN audits : Settled(s)
Evidenced == Ranges /\ Progress /\ Replied /\ Accounted /\ Unbroken /\ Outcome

\* A snapshot is successful exactly if it has a text of the site.
LEMMA SnapshotTyped ==
  ASSUME NEW s \in Sources, NEW e \in Fetched[UrlOf[s]]
  PROVE  Snapshot(s, e) \in Snapshots
<1>1. UrlOf[s] \in Urls
  BY IntakeAssumption
<1>2. e \in Pages /\ (e.text = 0 \/ \E a \in Given : e.text = a.text)
  BY <1>1, FetchedTyped
<1>3. \A a \in Given : a.text \in DOMAIN Content \cup {0}
  BY IntakeAssumption DEF Given
<1>4. e.text \in DOMAIN Content \cup {0}
  BY <1>2, <1>3
<1> DEFINE good == e.status = "SUCCESS" /\ e.text # 0
           change == IF ~good THEN IF e.status = "JS_UNSUPPORTED" THEN "JS_UNSUPPORTED" ELSE "FETCH_FAILED"
                     ELSE IF Before[s] = 0 THEN "BASELINE"
                     ELSE IF Before[s] = e.text THEN "UNCHANGED" ELSE "PAGE_CHANGED"
           text == IF good THEN e.text ELSE 0
<1>5. Snapshot(s, e) = [good |-> good, text |-> text, change |-> change]
  BY DEF Snapshot
<1>6. good \in BOOLEAN
  OBVIOUS
<1>7. text \in DOMAIN Content \cup {0} /\ change \in Changes
  BY <1>4 DEF Changes
<1>8. good <=> text \in DOMAIN Content
  BY <1>4, IntakeAssumption
<1> HIDE DEF good, text, change
<1> QED  BY <1>5, <1>6, <1>7, <1>8 DEF Snapshots

\* What Close makes of the facts of a page: the ones it stores, and the conflicts.
Checked(facts) == {f \in facts : Confirmed(f, Text)}
Clashing(facts) == {f \in Checked(facts) : Key(f) \in DOMAIN seen /\ seen[Key(f)] # Canonical(f)}
Stored(facts) == {CHOOSE f \in Checked(facts) : Key(f) = k :
                    k \in {Key(f) : f \in Checked(facts)} \ DOMAIN seen}

\* One fact is stored of each new identity.
LEMMA StoredIs ==
  ASSUME NEW facts
  PROVE  /\ Stored(facts) \subseteq Checked(facts)
         /\ \A f \in Stored(facts) : Key(f) \notin DOMAIN seen
         /\ \A f \in Checked(facts) : Key(f) \in DOMAIN seen \/ \E g \in Stored(facts) : Key(g) = Key(f)
<1> DEFINE pick(k) == CHOOSE f \in Checked(facts) : Key(f) = k
           new == {Key(f) : f \in Checked(facts)} \ DOMAIN seen
<1>1. Stored(facts) = {pick(k) : k \in new}
  BY DEF Stored
<1>2. ASSUME NEW k \in new
      PROVE  pick(k) \in Checked(facts) /\ Key(pick(k)) = k
  BY <1>2
<1>3. \A f \in Checked(facts) : Key(f) \in DOMAIN seen \/ Key(f) \in new
  OBVIOUS
<1>4. \A k \in new : k \notin DOMAIN seen
  OBVIOUS
<1> HIDE DEF pick, new
<1> QED  BY <1>1, <1>2, <1>3, <1>4

LEMMA Closing ==
  ASSUME NEW facts, NEW refused, NEW contested, NEW error, NEW page, at = page,
         Close(facts, refused, contested, error)
  PROVE  /\ at' = page + 1 /\ phase' = "extract" /\ errors' \in BOOLEAN
         /\ DOMAIN audits' = DOMAIN audits \cup {page}
         /\ \A s \in DOMAIN audits \ {page} : audits'[s] = audits[s]
         /\ audits'[page].status \in Statuses
         /\ audits'[page].rejected = {Excerpt(k, ProviderCut) : k \in contested}
         /\ audits'[page].clashes = {Excerpt(Key(f), SourceCut) : f \in Clashing(facts)}
         /\ observed' = observed \cup {[source |-> page, fact |-> f] : f \in Stored(facts)}
         /\ DOMAIN seen' = DOMAIN seen \cup {Key(f) : f \in Stored(facts)}
         /\ \A k \in DOMAIN seen : seen'[k] = seen[k]
         /\ \A f \in Stored(facts) : \E g \in Stored(facts) : Key(g) = Key(f) /\ seen'[Key(f)] = Canonical(g)
         /\ ~errors' => /\ ~errors /\ ~error /\ ~refused /\ contested = {}
                        /\ Checked(facts) = facts /\ Clashing(facts) = {}
<1> DEFINE bad == refused \/ contested # {} \/ Checked(facts) # facts \/ Clashing(facts) # {}
           status == IF bad THEN IF Stored(facts) # {} THEN "PARTIAL_ERROR" ELSE "FAILED"
                     ELSE IF error THEN "FAILED" ELSE IF facts = {} THEN "NO_FACTS" ELSE "SUCCEEDED"
           record == [status |-> status, rejected |-> {Excerpt(k, ProviderCut) : k \in contested},
                      clashes |-> {Excerpt(Key(f), SourceCut) : f \in Clashing(facts)}]
           first(k) == CHOOSE f \in Stored(facts) : Key(f) = k
<1>1. /\ observed' = observed \cup {[source |-> page, fact |-> f] : f \in Stored(facts)}
      /\ seen' = [k \in DOMAIN seen \cup {Key(f) : f \in Stored(facts)} |->
                    IF k \in DOMAIN seen THEN seen[k] ELSE Canonical(first(k))]
      /\ audits' = [s \in DOMAIN audits \cup {page} |-> IF s # page THEN audits[s] ELSE record]
      /\ errors' = (errors \/ error \/ bad) /\ at' = page + 1 /\ phase' = "extract"
  BY DEF Close, Checked, Clashing, Stored
<1>2. status \in Statuses
  <2> HIDE DEF bad
  <2> QED  BY DEF Statuses
<1>3. record.status = status /\ record.rejected = {Excerpt(k, ProviderCut) : k \in contested}
      /\ record.clashes = {Excerpt(Key(f), SourceCut) : f \in Clashing(facts)}
  <2> HIDE DEF status
  <2> QED  OBVIOUS
<1>4. /\ DOMAIN audits' = DOMAIN audits \cup {page} /\ audits'[page] = record
      /\ \A s \in DOMAIN audits \ {page} : audits'[s] = audits[s]
  <2> HIDE DEF record
  <2> QED  BY <1>1
<1>5. ASSUME NEW f \in Stored(facts)
      PROVE  first(Key(f)) \in Stored(facts) /\ Key(first(Key(f))) = Key(f)
  OBVIOUS
<1>6. /\ DOMAIN seen' = DOMAIN seen \cup {Key(f) : f \in Stored(facts)}
      /\ \A k \in DOMAIN seen : seen'[k] = seen[k]
  <2> HIDE DEF first
  <2> QED  BY <1>1
<1>7. ASSUME NEW f \in Stored(facts)
      PROVE  \E g \in Stored(facts) : Key(g) = Key(f) /\ seen'[Key(f)] = Canonical(g)
  <2>1. Key(f) \notin DOMAIN seen
    BY StoredIs
  <2> HIDE DEF first
  <2>2. seen'[Key(f)] = Canonical(first(Key(f)))
    BY <1>1, <2>1
  <2> QED  BY <1>5, <2>2
<1>8. errors' \in BOOLEAN
  <2> HIDE DEF bad
  <2> QED  BY <1>1
<1>9. ~errors' => /\ ~errors /\ ~error /\ ~refused /\ contested = {}
                  /\ Checked(facts) = facts /\ Clashing(facts) = {}
  BY <1>1
<1> HIDE DEF record, status, first, bad
<1> QED  BY <1>1, <1>2, <1>3, <1>4, <1>6, <1>7, <1>8, <1>9

\* A page is settled by Close as long as the facts it is given are what the answer says
\* (FactExtractionService._extract, the loop over the facts of a page).
LEMMA PageClosed ==
  ASSUME Evidenced, phase \in {"extract", "ask"}, NEW page \in Sources, at = page,
         NEW facts, NEW refused, NEW contested, NEW error, Close(facts, refused, contested, error),
         UNCHANGED <<limits, snapshots, cache, published>>,
         NEW answers, answers = {} \/ \E a \in ModelAnswers[snapshots[page].text] : answers = {a},
         DOMAIN replies' = Sources, replies'[page] = answers,
         \A s \in Sources \ {page} : replies'[s] = replies[s],
         NEW said, \A f : f \in said <=> \E a \in answers : f \in Said(a, Text, TypeOf[page]),
         \A f \in facts : f \in said \/ \E g \in said : f = Clipped(g, AuditCut),
         Disputed(said) \subseteq contested, \A f \in facts : Key(f) \notin Disputed(said),
         \A f \in Legible(said) : Key(f) \in Disputed(said) \/
           \E g \in Checked(facts) : /\ Key(g) = Key(f) /\ Canonical(g) = Canonical(f)
                                     /\ \A h \in facts : Key(h) = Key(f) => h = g,
         (~error /\ ~refused /\ contested = {}) =>
           answers # {} /\ \A a \in answers : \A i \in 1 .. Len(a) : Adapted(a[i]) \in said
  PROVE  Progress' /\ Replied' /\ Accounted' /\ Unbroken'
<1>0. Ranges /\ Progress /\ Replied /\ Remembered /\ Backed /\ Unbroken /\ \A s \in DOMAIN audits : Settled(s)
  BY DEF Evidenced, Accounted
<1>1. /\ page \in Nat /\ page \notin DOMAIN audits /\ DOMAIN audits \subseteq Sources
      /\ \A s \in Sources : s \in Nat /\ (s < page + 1 <=> s < page \/ s = page)
  BY <1>0, Bounds DEF Progress, Sources
<1>2. /\ at' = page + 1 /\ phase' = "extract" /\ errors' \in BOOLEAN
      /\ DOMAIN audits' = DOMAIN audits \cup {page}
      /\ \A s \in DOMAIN audits \ {page} : audits'[s] = audits[s]
      /\ audits'[page].status \in Statuses
      /\ audits'[page].rejected = {Excerpt(k, ProviderCut) : k \in contested}
      /\ audits'[page].clashes = {Excerpt(Key(f), SourceCut) : f \in Clashing(facts)}
      /\ observed' = observed \cup {[source |-> page, fact |-> f] : f \in Stored(facts)}
      /\ DOMAIN seen' = DOMAIN seen \cup {Key(f) : f \in Stored(facts)}
      /\ \A k \in DOMAIN seen : seen'[k] = seen[k]
      /\ \A f \in Stored(facts) : \E g \in Stored(facts) : Key(g) = Key(f) /\ seen'[Key(f)] = Canonical(g)
      /\ ~errors' => /\ ~errors /\ ~error /\ ~refused /\ contested = {}
                     /\ Checked(facts) = facts /\ Clashing(facts) = {}
  BY Closing
<1>3. /\ Stored(facts) \subseteq Checked(facts) /\ Checked(facts) \subseteq facts
      /\ \A f \in Stored(facts) : Key(f) \notin DOMAIN seen
      /\ \A f \in Checked(facts) : Key(f) \in DOMAIN seen \/ \E g \in Stored(facts) : Key(g) = Key(f)
  BY StoredIs DEF Checked
<1>4. Stated(page)' = said /\ \A s \in Sources \ {page} : Stated(s)' = Stated(s)
  BY DEF Stated, Text
<1>5. \A o \in observed : o.source # page /\ o.source \in Sources \ {page} /\ o.source \in DOMAIN audits
  BY <1>0, <1>1 DEF Backed
<1>6. \A o \in observed' : o \in observed \/ (o.source = page /\ o.fact \in Stored(facts))
  BY <1>2
<1>7. /\ observed \subseteq observed'
      /\ \A f \in Stored(facts) : \E o \in observed' : o.source = page /\ o.fact = f
  <2>1. ASSUME NEW f \in Stored(facts) PROVE \E o \in observed' : o.source = page /\ o.fact = f
    <3>1. [source |-> page, fact |-> f] \in observed'
      BY <1>2
    <3> QED  BY <3>1
  <2> QED  BY <1>2, <2>1
<1>8. Remembered'
  <2>1. DOMAIN seen' = {Key(o.fact) : o \in observed'}
    BY <1>0, <1>2, <1>6, <1>7 DEF Remembered
  <2>2. ASSUME NEW k \in DOMAIN seen'
        PROVE  \E o \in observed' : Key(o.fact) = k /\ Canonical(o.fact) = seen'[k]
    <3>1. CASE k \in DOMAIN seen
      BY <1>0, <1>2, <1>7, <3>1 DEF Remembered
    <3>2. CASE k \notin DOMAIN seen
      <4>1. PICK f \in Stored(facts) : k = Key(f)
        BY <1>2, <3>2
      <4>2. PICK g \in Stored(facts) : Key(g) = k /\ seen'[k] = Canonical(g)
        BY <1>2, <4>1
      <4> QED  BY <1>7, <4>2
    <3> QED  BY <3>1, <3>2
  <2> QED  BY <2>1, <2>2 DEF Remembered
<1>9. Backed'
  <2>1. ASSUME NEW o \in observed'
        PROVE  /\ o.source \in DOMAIN audits' /\ Within(o.fact.quote, Content[snapshots'[o.source].text])
               /\ o.fact \in Stated(o.source)' \cup {Clipped(f, AuditCut) : f \in Stated(o.source)'}
    <3>1. CASE o \in observed
      BY <1>0, <1>2, <1>4, <1>5, <3>1 DEF Backed
    <3>2. CASE o.source = page /\ o.fact \in Stored(facts)
      <4>1. o.fact \in facts /\ Confirmed(o.fact, Text)
        BY <1>3, <3>2 DEF Checked
      <4>2. Within(o.fact.quote, Text)
        BY <4>1 DEF Confirmed
      <4> QED  BY <1>2, <1>4, <3>2, <4>1, <4>2 DEF Text
    <3> QED  BY <1>6, <2>1, <3>1, <3>2
  <2> QED  BY <2>1 DEF Backed
<1>10. ASSUME NEW s \in DOMAIN audits PROVE Settled(s)'
  <2>1. s \in Sources \ {page} /\ Stated(s)' = Stated(s) /\ audits'[s] = audits[s]
    BY <1>1, <1>2, <1>4
  <2>2. ASSUME NEW k \in Disputed(Stated(s))
        PROVE  /\ Excerpt(k, ProviderCut) \in audits'[s].rejected
               /\ \A o \in observed' : o.source = s => Key(o.fact) # k
    BY <1>0, <1>6, <2>1 DEF Settled
  <2>3. ASSUME NEW f \in Legible(Stated(s)), Key(f) \notin Disputed(Stated(s))
        PROVE  /\ Key(f) \in DOMAIN seen'
               /\ seen'[Key(f)] = Canonical(f) \/ Excerpt(Key(f), SourceCut) \in audits'[s].clashes
    BY <1>0, <1>2, <2>1, <2>3 DEF Settled
  <2> QED  BY <2>1, <2>2, <2>3 DEF Settled
<1>11. Settled(page)'
  <2>1. ASSUME NEW k \in Disputed(said)
        PROVE  /\ Excerpt(k, ProviderCut) \in audits'[page].rejected
               /\ \A o \in observed' : o.source = page => Key(o.fact) # k
    <3>1. k \in contested
      OBVIOUS
    <3>2. Excerpt(k, ProviderCut) \in audits'[page].rejected
      BY <1>2, <3>1
    <3>3. \A f \in Stored(facts) : Key(f) # k
      BY <1>3
    <3> QED  BY <1>5, <1>6, <3>2, <3>3
  <2>2. ASSUME NEW f \in Legible(said), Key(f) \notin Disputed(said)
        PROVE  /\ Key(f) \in DOMAIN seen'
               /\ seen'[Key(f)] = Canonical(f) \/ Excerpt(Key(f), SourceCut) \in audits'[page].clashes
    <3>1. PICK g \in Checked(facts) : /\ Key(g) = Key(f) /\ Canonical(g) = Canonical(f)
                                      /\ \A h \in facts : Key(h) = Key(f) => h = g
      BY <2>2
    <3>2. CASE Key(f) \in DOMAIN seen /\ seen[Key(f)] = Canonical(f)
      BY <1>2, <3>2
    <3>3. CASE Key(f) \in DOMAIN seen /\ seen[Key(f)] # Canonical(f)
      <4>1. g \in Clashing(facts)
        BY <3>1, <3>3 DEF Clashing
      <4> QED  BY <1>2, <3>1, <3>3, <4>1
    <3>4. CASE Key(f) \notin DOMAIN seen
      <4>1. PICK h \in Stored(facts) : Key(h) = Key(f)
        BY <1>3, <3>1, <3>4
      <4>2. PICK i \in Stored(facts) : Key(i) = Key(h) /\ seen'[Key(h)] = Canonical(i)
        BY <1>2
      <4>3. i = g
        BY <1>3, <3>1, <4>1, <4>2
      <4> QED  BY <1>2, <3>1, <4>1, <4>2, <4>3
    <3> QED  BY <3>2, <3>3, <3>4
  <2> QED  BY <1>4, <2>1, <2>2 DEF Settled
<1>12. Unbroken'
  <2> SUFFICES ASSUME ~errors'
               PROVE  /\ N <= limits'.pages /\ \A s \in Sources : s < at' => s \in DOMAIN audits'
                      /\ \A s \in DOMAIN audits' : Spotless(s)'
    BY DEF Unbroken
  <2>1. /\ ~errors /\ ~error /\ ~refused /\ contested = {} /\ Clashing(facts) = {}
        /\ N <= limits.pages /\ \A s \in Sources : s < at => s \in DOMAIN audits
        /\ \A s \in DOMAIN audits : Spotless(s)
    BY <1>0, <1>2 DEF Unbroken
  <2>2. \A s \in Sources : s < at' => s \in DOMAIN audits'
    BY <1>1, <1>2, <2>1
  <2>3. ASSUME NEW s \in DOMAIN audits PROVE Spotless(s)'
    <3>1. Spotless(s) /\ s \in Sources \ {page} /\ Stated(s)' = Stated(s) /\ audits'[s] = audits[s]
          /\ replies'[s] = replies[s]
      BY <1>1, <1>2, <1>4, <2>1
    <3> QED  BY <3>1 DEF Spotless
  <2>4. Spotless(page)'
    <3>1. audits'[page].rejected = {} /\ audits'[page].clashes = {} /\ Disputed(said) = {}
      BY <1>2, <2>1
    <3> QED  BY <1>4, <2>1, <3>1 DEF Spotless
  <2>5. N <= limits'.pages
    BY <2>1
  <2> QED  BY <1>2, <2>2, <2>3, <2>4, <2>5
<1>13. Progress'
  <2>1. \A s \in DOMAIN audits' : s \in Sources /\ s < at' /\ audits'[s].status \in Statuses
    BY <1>0, <1>1, <1>2 DEF Progress
  <2> QED  BY <1>2, <2>1 DEF Progress
<1>14. Replied'
  <2>1. ASSUME NEW s \in Sources
        PROVE  replies'[s] = {} \/
                 (s \in DOMAIN audits' /\ \E a \in ModelAnswers[snapshots'[s].text] : replies'[s] = {a})
    <3>1. CASE s = page
      BY <1>2, <3>1
    <3>2. CASE s # page
      BY <1>0, <1>2, <3>2 DEF Replied
    <3> QED  BY <3>1, <3>2
  <2> QED  BY <2>1 DEF Replied
<1>15. Accounted'
  <2>1. \A s \in DOMAIN audits' : Settled(s)'
    BY <1>2, <1>10, <1>11
  <2> QED  BY <1>8, <1>9, <2>1 DEF Accounted
<1> QED  BY <1>12, <1>13, <1>14, <1>15

\* Every run that is listed has numbers for its limits, and answers are sequences.
LEMMA Numbered ==
  /\ \A l \in Settings : \A x \in Limits : l[x] \in Nat
  /\ \A t \in DOMAIN Content : \A a \in ModelAnswers[t] : Len(a) \in Nat
<1>1. ASSUME NEW t \in DOMAIN Content, NEW a \in ModelAnswers[t] PROVE Len(a) \in Nat
  <2>1. a \in Seq({a[i] : i \in DOMAIN a})
    BY IntakeAssumption
  <2> QED  BY <2>1, LenProperties
<1> QED  BY <1>1, Bounds

LEMMA SaidConfirmed ==
  ASSUME NEW answer, NEW content, NEW type
  PROVE  \A f \in Said(answer, content, type) : Confirmed(f, content)
BY DEF Said, Accepted

\* The turns that settle no page.
LEMMA Unsettled ==
  ASSUME Evidenced, UNCHANGED <<limits, snapshots, cache, replies, audits, seen, observed, published>>,
         phase \in {"extract", "ask"}, phase' \in {"extract", "ask"},
         at' \in 1 .. N + 1, at <= at', errors' \in BOOLEAN, ~errors' => ~errors /\ at' = at,
         phase' = "ask" => snapshots[at'].good,
         asks' \in 0 .. limits.asks, calls' \in 0 .. limits.calls
  PROVE  Evidenced'
<1>0. Ranges /\ Progress /\ Replied /\ Remembered /\ Backed /\ Unbroken /\ Outcome
      /\ \A s \in DOMAIN audits : Settled(s)
  BY DEF Evidenced, Accounted
<1>1. Ranges'
  BY <1>0 DEF Ranges
<1>2. Progress'
  <2>1. \A s \in Sources : s < at => s < at'
    BY <1>0, Bounds DEF Ranges, Sources
  <2> QED  BY <1>0, <2>1 DEF Progress
<1>3. Replied'
  BY <1>0 DEF Replied
<1>4. \A s : Stated(s)' = Stated(s)
  BY DEF Stated
<1>5. Remembered' /\ Backed'
  BY <1>0, <1>4 DEF Remembered, Backed
<1>6. \A s \in DOMAIN audits' : Settled(s)'
  BY <1>0, <1>4 DEF Settled
<1>7. Unbroken'
  <2>1. ASSUME NEW s \in DOMAIN audits, Spotless(s) PROVE Spotless(s)'
    BY <1>4, <2>1 DEF Spotless
  <2> QED  BY <1>0, <2>1 DEF Unbroken
<1>8. Outcome'
  BY <1>0 DEF Outcome
<1> QED  BY <1>1, <1>2, <1>3, <1>5, <1>6, <1>7, <1>8 DEF Evidenced, Accounted

\* The turns that settle one.
LEMMA Settling ==
  ASSUME Evidenced, phase \in {"extract", "ask"}, at \in Sources,
         NEW facts, NEW refused, NEW contested, NEW error, Close(facts, refused, contested, error),
         UNCHANGED <<limits, snapshots, cache, published>>,
         asks' \in 0 .. limits.asks, calls' \in 0 .. limits.calls
  PROVE  Ranges' /\ Outcome'
<1>0. Ranges /\ Outcome /\ N \in Nat
  BY Bounds DEF Evidenced
<1>1. at' = at + 1 /\ phase' = "extract" /\ errors' \in BOOLEAN /\ observed \subseteq observed'
  <2>1. at' = at + 1 /\ phase' = "extract" /\ observed \subseteq observed'
    BY DEF Close
  <2>2. errors' \in BOOLEAN
    BY DEF Close
  <2> QED  BY <2>1, <2>2
<1>2. at' \in 1 .. N + 1
  BY <1>0, <1>1 DEF Sources
<1>3. Ranges'
  BY <1>0, <1>1, <1>2 DEF Ranges
<1>4. Outcome'
  BY <1>0, <1>1 DEF Outcome
<1> QED  BY <1>3, <1>4

\* A page that ends without an answer states nothing.
LEMMA Unanswered ==
  ASSUME Evidenced, phase = "ask", at \in Sources, Close({}, FALSE, {}, TRUE),
         UNCHANGED <<limits, snapshots, cache, published, replies, asks>>, calls' \in 0 .. limits.calls
  PROVE  Evidenced'
<1>1. Ranges /\ Progress /\ Replied /\ asks \in 0 .. limits.asks
  BY DEF Evidenced, Ranges
<1>2. PICK page \in Sources : page = at
  OBVIOUS
<1>3. page \notin DOMAIN audits
  BY <1>1, <1>2, Bounds DEF Progress, Sources
<1>4. replies[page] = {} /\ DOMAIN replies = Sources
  BY <1>1, <1>3 DEF Replied
<1>5. Disputed({}) = {} /\ Legible({}) = {}
  BY DEF Disputed, Legible
<1>6. \A f : f \in {} <=> \E a \in {} : f \in Said(a, Text, TypeOf[page])
  OBVIOUS
<1>7. Ranges' /\ Outcome'
  BY <1>1, Settling
<1>8. Progress' /\ Replied' /\ Accounted' /\ Unbroken'
  BY <1>2, <1>4, <1>5, <1>6, PageClosed
<1> QED  BY <1>7, <1>8 DEF Evidenced

\* An answer of this run: what it says is on record whichever way it is ordered.
LEMMA AnsweredStep == ASSUME Evidenced, Accounts, Answered PROVE Evidenced'
<1>1. /\ phase = "ask" /\ at \in Sources /\ calls < limits.calls /\ calls' = calls + 1
      /\ UNCHANGED <<limits, snapshots, cache, published, asks>>
  BY DEF Answered, Send, MayCall, Accounts, Turns
<1>2. /\ Ranges /\ Replied /\ asks \in 0 .. limits.asks /\ calls \in 0 .. limits.calls
      /\ limits \in Settings /\ snapshots[at].good
  BY <1>1 DEF Evidenced, Ranges
<1>3. limits.calls \in Nat
  BY <1>2, Numbered DEF Limits
<1>4. calls' \in 0 .. limits.calls
  BY <1>1, <1>2, <1>3
<1>5. PICK page \in Sources : page = at
  BY <1>1
<1>6. snapshots[page].text \in DOMAIN Content
  <2>1. snapshots \in Seq(Snapshots) /\ Len(snapshots) = N
    BY <1>1, <1>2 DEF Ranges
  <2>2. snapshots[page] \in Snapshots
    BY <2>1, Bounds, ElementOfSeq DEF Sources
  <2> QED  BY <1>2, <1>5, <2>2 DEF Snapshots
<1>7. PICK a \in ModelAnswers[snapshots[page].text] :
        IF Len(a) > limits.facts THEN Close({}, FALSE, {}, TRUE) /\ UNCHANGED replies
        ELSE /\ Close(Kept(a, Scan(a, Text, TypeOf[page])), Scan(a, Text, TypeOf[page]).refused # {},
                      Scan(a, Text, TypeOf[page]).contested,
                      Scan(a, Text, TypeOf[page]).refused # {} \/ Scan(a, Text, TypeOf[page]).contested # {})
             /\ replies' = [replies EXCEPT ![page] = {a}]
  BY <1>5 DEF Answered
<1>8. CASE Len(a) > limits.facts
  BY <1>1, <1>4, <1>7, <1>8, Unanswered
<1>9. CASE ~(Len(a) > limits.facts)
  <2> DEFINE scan == Scan(a, Text, TypeOf[page])
             said == Said(a, Text, TypeOf[page])
             kept == Kept(a, scan)
  <2>1. /\ Close(kept, scan.refused # {}, scan.contested, scan.refused # {} \/ scan.contested # {})
        /\ replies' = [replies EXCEPT ![page] = {a}]
    BY <1>7, <1>9
  <2>2. Len(a) \in Nat
    BY <1>6, Numbered
  <2>3. /\ scan.contested = Disputed(said)
        /\ scan.refused = {j \in 1 .. Len(a) : ~Accepted(a[j], Text, TypeOf[page])}
        /\ kept \subseteq said /\ \A f \in kept : Key(f) \notin Disputed(said)
        /\ \A f, g \in kept : Key(f) = Key(g) => f = g
        /\ \A f \in said : \/ Key(f) \in Disputed(said)
                           \/ \E g \in kept : Key(g) = Key(f) /\ Canonical(g) = Canonical(f)
    BY <2>2, ScanCorrect
  <2>4. Checked(kept) = kept
    BY <2>3, SaidConfirmed DEF Checked
  <2>5. \A f : f \in said <=> \E b \in {a} : f \in Said(b, Text, TypeOf[page])
    OBVIOUS
  <2>6. scan.refused = {} => \A i \in 1 .. Len(a) : Adapted(a[i]) \in said
    <3> HIDE DEF scan
    <3> QED  BY <2>3 DEF Said
  <2>7. /\ DOMAIN replies' = Sources /\ replies'[page] = {a}
        /\ \A s \in Sources \ {page} : replies'[s] = replies[s]
    BY <1>2, <2>1 DEF Replied
  <2>8. \A f \in Legible(said) : Key(f) \in Disputed(said) \/
          \E g \in Checked(kept) : /\ Key(g) = Key(f) /\ Canonical(g) = Canonical(f)
                                   /\ \A h \in kept : Key(h) = Key(f) => h = g
    <3>1. Legible(said) \subseteq said
      BY DEF Legible
    <3> HIDE DEF scan, said, kept
    <3> QED  BY <2>3, <2>4, <3>1
  <2> HIDE DEF scan, said, kept
  <2>13. PICK refused, error : /\ Close(kept, refused, scan.contested, error)
                               /\ refused <=> (scan.refused # {})
                               /\ error <=> (scan.refused # {} \/ scan.contested # {})
    BY <2>1, Zenon
  <2>9. (~error /\ ~refused /\ scan.contested = {}) =>
          {a} # {} /\ \A b \in {a} : \A i \in 1 .. Len(b) : Adapted(b[i]) \in said
    BY <2>6, <2>13
  <2>10. (\A f \in kept : f \in said \/ \E g \in said : f = Clipped(g, AuditCut)) /\ Disputed(said) \subseteq scan.contested
    BY <2>3
  <2>11. Progress' /\ Replied' /\ Accounted' /\ Unbroken'
    BY <1>1, <1>5, <2>13, <2>3, <2>5, <2>7, <2>8, <2>9, <2>10, PageClosed
  <2>12. Ranges' /\ Outcome'
    BY <1>1, <1>2, <1>4, <2>13, Settling
  <2> QED  BY <2>11, <2>12 DEF Evidenced
<1> QED  BY <1>8, <1>9

\* An answer of an earlier run: its audit cut the facts, but not those that are legible.
LEMMA ReuseStep == ASSUME Evidenced, Reuse PROVE Evidenced'
<1>1. /\ phase = "extract" /\ at \in Sources /\ snapshots[at].good /\ asks < limits.asks /\ asks' = asks + 1
      /\ UNCHANGED <<limits, snapshots, cache, published, calls>>
  <2>1. Ranges
    BY DEF Evidenced
  <2>2. phase = "extract" /\ at \in Sources /\ snapshots[at].good /\ ~AtLimit /\ asks' = asks + 1
    BY DEF Reuse, Open, Turn, Processed
  <2>3. asks \in Nat /\ limits.asks \in Nat
    BY <2>1, Numbered DEF Ranges, Limits
  <2> QED  BY <2>2, <2>3 DEF AtLimit, Reuse
<1>2. /\ Ranges /\ Replied /\ asks \in 0 .. limits.asks /\ calls \in 0 .. limits.calls
      /\ limits \in Settings
  BY <1>1 DEF Evidenced, Ranges
<1>3. limits.asks \in Nat
  BY <1>2, Numbered DEF Limits
<1>4. asks' \in 0 .. limits.asks /\ calls' \in 0 .. limits.calls
  BY <1>1, <1>2, <1>3
<1>5. PICK page \in Sources : page = at
  BY <1>1
<1>6. snapshots[page].text \in DOMAIN Content
  <2>1. snapshots \in Seq(Snapshots) /\ Len(snapshots) = N
    BY <1>1, <1>2 DEF Ranges
  <2>2. snapshots[page] \in Snapshots
    BY <2>1, Bounds, ElementOfSeq DEF Sources
  <2> QED  BY <1>1, <1>5, <2>2 DEF Snapshots
<1>7. PICK p \in Cached :
        /\ Close({Clipped(f, AuditCut) : f \in Kept(p.answer, Scan(p.answer, Text, TypeOf[page]))},
                 FALSE, {}, FALSE)
        /\ replies' = [replies EXCEPT ![page] = {p.answer}]
  BY <1>5 DEF Reuse
<1> DEFINE a == p.answer
           scan == Scan(a, Text, TypeOf[page])
           said == Said(a, Text, TypeOf[page])
           kept == Kept(a, scan)
           facts == {Clipped(f, AuditCut) : f \in kept}
<1>8. p \in Cacheable(page) /\ p.text = snapshots[page].text
  BY <1>2, <1>5 DEF Cached, Ranges
<1>9. a \in ModelAnswers[snapshots[page].text] /\ Whole(a, page, snapshots[page].text)
  BY <1>8 DEF Cacheable
<1>10. Len(a) \in Nat
  BY <1>6, <1>9, Numbered
<1>11. scan.refused = {} /\ scan.contested = {}
  BY <1>5, <1>9 DEF Whole, Text
<1>12. /\ scan.contested = Disputed(said)
       /\ scan.refused = {j \in 1 .. Len(a) : ~Accepted(a[j], Text, TypeOf[page])}
       /\ kept \subseteq said /\ \A f \in kept : Key(f) \notin Disputed(said)
       /\ \A f, g \in kept : Key(f) = Key(g) => f = g
       /\ \A f \in said : \/ Key(f) \in Disputed(said)
                          \/ \E g \in kept : Key(g) = Key(f) /\ Canonical(g) = Canonical(f)
  BY <1>10, ScanCorrect
<1>13. Disputed(said) = {}
  BY <1>11, <1>12
<1>14. \A f \in said : Confirmed(f, Text)
  BY SaidConfirmed
<1>15. \A i \in 1 .. Len(a) : Adapted(a[i]) \in said
  <2> HIDE DEF scan
  <2> QED  BY <1>11, <1>12 DEF Said
<1>16. /\ DOMAIN replies' = Sources /\ replies'[page] = {a}
       /\ \A s \in Sources \ {page} : replies'[s] = replies[s]
  BY <1>2, <1>7 DEF Replied
<1>17. \A h \in facts : \E g \in kept : h = Clipped(g, AuditCut)
  OBVIOUS
<1>18. \A g \in kept : Clipped(g, AuditCut) \in facts
  OBVIOUS
<1>19. Close(facts, FALSE, {}, FALSE)
  BY <1>7
<1> HIDE DEF a, scan, said, kept, facts
<1>25. PICK answers : answers = {a}
  OBVIOUS
<1>20. ASSUME NEW f \in Legible(said)
       PROVE  \E g \in Checked(facts) : /\ Key(g) = Key(f) /\ Canonical(g) = Canonical(f)
                                        /\ \A h \in facts : Key(h) = Key(f) => h = g
  <2>1. /\ f \in said
        /\ \A g \in said : Key(f) = Key(g) \/ Key(f) = Key(Clipped(g, AuditCut)) => Clipped(g, AuditCut) = g
    BY DEF Legible, Fits
  <2>2. PICK g \in kept : Key(g) = Key(f) /\ Canonical(g) = Canonical(f)
    BY <1>12, <1>13, <2>1
  <2>3. Clipped(g, AuditCut) = g
    BY <1>12, <2>1, <2>2
  <2>4. g \in Checked(facts)
    BY <1>12, <1>14, <1>18, <2>2, <2>3 DEF Checked
  <2>5. ASSUME NEW h \in facts, Key(h) = Key(f) PROVE h = g
    <3>1. PICK i \in kept : h = Clipped(i, AuditCut)
      BY <1>17
    <3>2. Clipped(i, AuditCut) = i
      BY <1>12, <2>1, <2>5, <3>1
    <3> QED  BY <1>12, <2>2, <2>5, <3>1, <3>2
  <2> QED  BY <2>2, <2>4, <2>5
<1>21. \A f : f \in said <=> \E b \in {a} : f \in Said(b, Text, TypeOf[page])
  BY DEF said
<1>22. \A f \in facts : f \in said \/ \E g \in said : f = Clipped(g, AuditCut)
  BY <1>12, <1>17
<1>23. Progress' /\ Replied' /\ Accounted' /\ Unbroken'
  <2>1. answers = {} \/ \E b \in ModelAnswers[snapshots[page].text] : answers = {b}
    BY <1>9, <1>25
  <2>2. \A f \in Legible(said) : Key(f) \in Disputed(said) \/
           \E g \in Checked(facts) : /\ Key(g) = Key(f) /\ Canonical(g) = Canonical(f)
                                     /\ \A h \in facts : Key(h) = Key(f) => h = g
    BY <1>20
  <2>3. Disputed(said) \subseteq {} /\ \A f \in facts : Key(f) \notin Disputed(said)
    BY <1>13
  <2>4. answers # {} /\ \A b \in answers : \A i \in 1 .. Len(b) : Adapted(b[i]) \in said
    BY <1>15, <1>25
  <2>5. replies'[page] = answers /\ \A f : f \in said <=> \E b \in answers : f \in Said(b, Text, TypeOf[page])
    BY <1>16, <1>21, <1>25
  <2>6. PICK no : Close(facts, no, {}, no) /\ ~no
    BY <1>19, Zenon
  <2> QED  BY <1>1, <1>5, <1>16, <2>6, <2>5, <1>22, <2>1, <2>2, <2>3, <2>4, PageClosed
<1>24. Ranges' /\ Outcome'
  BY <1>1, <1>4, <1>19, Settling
<1> QED  BY <1>23, <1>24 DEF Evidenced

\* Before a page is extracted nothing is stored.
LEMMA FetchStep == ASSUME Evidenced, Accounts, FetchPage \/ EndFetch PROVE Evidenced'
<1>0. Ranges /\ Progress /\ Replied /\ Remembered /\ Backed /\ Outcome /\ N \in Nat
  BY Bounds DEF Evidenced, Accounted
<1>1. /\ phase = "fetch" /\ phase' \in {"fetch", "extract", "failed"}
      /\ UNCHANGED <<limits, cache, replies, audits, seen, observed, asks, calls, published>>
  BY DEF FetchPage, EndFetch
<1>2. DOMAIN audits = {} /\ observed = {} /\ \A s \in Sources : replies[s] = {}
  BY <1>0, <1>1 DEF Progress, Backed, Replied
<1>3. at' \in 1 .. N + 1 /\ errors' \in BOOLEAN /\ snapshots' \in Seq(Snapshots)
      /\ Len(snapshots') = IF phase' = "fetch" THEN at' - 1 ELSE N
  <2>1. CASE FetchPage
    <3>1. at \in Sources /\ Len(snapshots) = at - 1 /\ snapshots \in Seq(Snapshots)
      BY <1>0, <1>1, <2>1 DEF FetchPage, Ranges, Sources
    <3>2. PICK e \in Fetched[UrlOf[at]] : snapshots' = Append(snapshots, Snapshot(at, e))
      BY <2>1 DEF FetchPage
    <3>3. Snapshot(at, e) \in Snapshots
      <4>1. PICK s \in Sources : s = at
        BY <3>1
      <4> QED  BY <3>2, <4>1, SnapshotTyped
    <3>4. snapshots' \in Seq(Snapshots) /\ Len(snapshots') = at
      BY <1>0, <3>1, <3>2, <3>3, AppendProperties DEF Sources
    <3>5. at' = at + 1 /\ phase' = "fetch" /\ errors' = errors
      BY <2>1 DEF FetchPage
    <3>6. errors' \in BOOLEAN
      BY <1>0, <3>5 DEF Ranges
    <3>7. at' \in 1 .. N + 1 /\ at = at' - 1
      BY <1>0, <3>1, <3>5 DEF Sources
    <3> QED  BY <3>4, <3>5, <3>6, <3>7
  <2>2. CASE EndFetch
    <3>1. at' = 1 /\ snapshots' = snapshots /\ phase' # "fetch" /\ at > N
      BY <2>2 DEF EndFetch
    <3>2. errors' \in BOOLEAN
      <4>1. errors' = (N > limits.pages)
        BY <2>2, Zenon DEF EndFetch
      <4>2. CASE N > limits.pages
        BY <4>1, <4>2
      <4>3. CASE ~(N > limits.pages)
        BY <4>1, <4>3
      <4> QED  BY <4>2, <4>3
    <3>3. at = N + 1
      BY <1>0, <3>1 DEF Ranges
    <3> QED  BY <1>0, <1>1, <3>1, <3>2, <3>3 DEF Ranges
  <2> QED  BY <2>1, <2>2
<1>4. Ranges'
  BY <1>0, <1>1, <1>3 DEF Ranges
<1>5. Progress' /\ Replied' /\ Remembered' /\ Backed' /\ \A s \in DOMAIN audits' : Settled(s)'
  BY <1>0, <1>1, <1>2 DEF Progress, Replied, Remembered, Backed
<1>6. Unbroken'
  <2>1. CASE phase' # "extract"
    BY <1>1, <2>1 DEF Unbroken
  <2>2. CASE phase' = "extract"
    <3>1. EndFetch /\ at' = 1 /\ errors' = (N > limits.pages) /\ limits' = limits
      BY <1>1, <2>2 DEF FetchPage, EndFetch
    <3>2. limits.pages \in Nat
      BY <1>0, Numbered DEF Ranges, Limits
    <3>3. ~errors' => N <= limits.pages
      <4>1. ~errors' => ~(N > limits.pages)
        BY <3>1, Zenon
      <4> QED  BY <1>0, <3>2, <4>1
    <3>4. \A s \in Sources : ~(s < 1)
      BY DEF Sources
    <3> QED  BY <1>1, <1>2, <3>1, <3>3, <3>4 DEF Unbroken
  <2> QED  BY <2>1, <2>2
<1>7. Outcome'
  BY <1>0, <1>1 DEF Outcome
<1> QED  BY <1>4, <1>5, <1>6, <1>7 DEF Evidenced, Accounted

LEMMA QuietStep ==
  ASSUME Evidenced, Accounts, SkipPage \/ StopAtLimit \/ TooLong \/ Ask \/ Denied \/ Retry
  PROVE  Evidenced'
<1>1. /\ limits \in Settings /\ at \in 1 .. N + 1 /\ errors \in BOOLEAN /\ N \in Nat
      /\ asks \in 0 .. limits.asks /\ calls \in 0 .. limits.calls
      /\ phase = "ask" => snapshots[at].good /\ at \in Sources
  BY Bounds DEF Evidenced, Ranges, Accounts, Turns
<1>2. limits.asks \in Nat /\ limits.calls \in Nat
  BY <1>1, Numbered DEF Limits
<1>3. Processed \subseteq Sources /\ \A s \in Sources : s + 1 \in 1 .. N + 1
  BY <1>1 DEF Processed, Sources
<1>4. N + 1 \in 1 .. N + 1 /\ at <= N + 1 /\ at <= at + 1 /\ at <= at
  BY <1>1
<1>5. UNCHANGED <<limits, snapshots, cache, replies, audits, seen, observed, published>>
  BY DEF SkipPage, StopAtLimit, TooLong, Ask, Denied, Retry, Open, Send
<1>6. CASE SkipPage \/ StopAtLimit
  <2>1. /\ phase = "extract" /\ phase' = phase /\ at \in Sources /\ at' \in {at + 1, N + 1}
        /\ errors' = TRUE /\ asks' = asks /\ calls' = calls
    BY <1>3, <1>6 DEF SkipPage, StopAtLimit, Turn
  <2> QED  BY <1>1, <1>3, <1>4, <1>5, <2>1, Unsettled
<1>7. CASE TooLong
  <2>1. /\ phase = "extract" /\ phase' = phase /\ at \in Sources /\ at' = at + 1
        /\ errors' = TRUE /\ asks' = asks + 1 /\ asks < limits.asks /\ calls' = calls
    BY <1>1, <1>2, <1>3, <1>7 DEF TooLong, Open, Turn, AtLimit
  <2>2. asks' \in 0 .. limits.asks
    BY <1>1, <1>2, <2>1
  <2> QED  BY <1>1, <1>3, <1>4, <1>5, <2>1, <2>2, Unsettled
<1>8. CASE Ask
  <2>1. /\ phase = "extract" /\ phase' = "ask" /\ at' = at /\ snapshots[at].good
        /\ errors' = errors /\ asks' = asks + 1 /\ asks < limits.asks /\ calls' = calls
    BY <1>1, <1>2, <1>8 DEF Ask, Open, Turn, AtLimit
  <2>2. asks' \in 0 .. limits.asks
    BY <1>1, <1>2, <2>1
  <2> QED  BY <1>1, <1>4, <1>5, <2>1, <2>2, Unsettled
<1>9. CASE Denied
  <2>1. /\ phase = "ask" /\ phase' = "extract" /\ at' = at + 1 /\ errors' = TRUE
        /\ asks' = asks /\ calls' = calls + 1 /\ calls < limits.calls
    BY <1>9 DEF Denied, MayCall
  <2>2. calls' \in 0 .. limits.calls
    BY <1>1, <1>2, <2>1
  <2> QED  BY <1>1, <1>3, <1>4, <1>5, <2>1, <2>2, Unsettled
<1>10. CASE Retry
  <2>1. /\ phase = "ask" /\ phase' = phase /\ at' = at /\ errors' = errors
        /\ asks' = asks /\ calls' = calls + 1 /\ calls < limits.calls
    BY <1>10 DEF Retry, Send, MayCall
  <2>2. calls' \in 0 .. limits.calls
    BY <1>1, <1>2, <2>1
  <2> QED  BY <1>1, <1>4, <1>5, <2>1, <2>2, Unsettled
<1> QED  BY <1>6, <1>7, <1>8, <1>9, <1>10

LEMMA FailStep == ASSUME Evidenced, Accounts, CallLimit \/ GiveUp PROVE Evidenced'
<1>1. /\ phase = "ask" /\ at \in Sources /\ Close({}, FALSE, {}, TRUE)
      /\ UNCHANGED <<limits, snapshots, cache, published, replies, asks>>
      /\ calls' = calls \/ (calls' = calls + 1 /\ calls < limits.calls)
  BY DEF CallLimit, GiveUp, Send, MayCall, Accounts, Turns
<1>2. calls \in 0 .. limits.calls /\ limits.calls \in Nat
  BY Numbered DEF Evidenced, Ranges, Limits
<1>3. calls' \in 0 .. limits.calls
  BY <1>1, <1>2
<1> QED  BY <1>1, <1>3, Unanswered

\* Nothing is left to do: the outcome is drawn from what is stored.
LEMMA EndStep == ASSUME Evidenced, Complete \/ Publish PROVE Evidenced'
<1>0. Ranges /\ Progress /\ Replied /\ Remembered /\ Backed /\ Unbroken /\ Outcome /\ N \in Nat
      /\ \A s \in DOMAIN audits : Settled(s)
  BY Bounds DEF Evidenced, Accounted
<1>1. /\ phase = "extract" /\ phase' \in {"complete", "partial", "failed"} /\ at \notin Processed
      /\ UNCHANGED <<limits, at, snapshots, cache, asks, calls, replies, audits, seen, observed, errors>>
      /\ phase' = "complete" => Complete
  BY DEF Complete, Publish, Extracted
<1>2. \A s : Stated(s)' = Stated(s)
  BY <1>1 DEF Stated
<1>3. Ranges' /\ Progress' /\ Replied' /\ Remembered' /\ Backed'
  BY <1>0, <1>1, <1>2 DEF Ranges, Progress, Replied, Remembered, Backed
<1>4. \A s \in DOMAIN audits' : Settled(s)'
  BY <1>0, <1>1, <1>2 DEF Settled
<1>5. Unbroken'
  <2>1. ASSUME NEW s \in DOMAIN audits, Spotless(s) PROVE Spotless(s)'
    BY <1>1, <1>2, <2>1 DEF Spotless
  <2> QED  BY <1>0, <1>1, <2>1 DEF Unbroken
<1>6. Outcome'
  <2>1. CASE Complete
    <3>1. ~errors /\ published' = published /\ phase' # "partial" /\ \A s \in Sources : snapshots[s].good
      BY <2>1 DEF Complete, NeedsPartial
    <3>2. N <= limits.pages /\ at \in 1 .. N + 1 /\ limits.pages \in Nat
      BY <1>0, <1>1, <3>1, Numbered DEF Unbroken, Ranges, Limits
    <3>3. at = N + 1
      BY <1>0, <1>1, <3>2 DEF Processed, Sources
    <3> QED  BY <1>0, <1>1, <3>1, <3>3 DEF Outcome
  <2>2. CASE Publish
    <3>1. phase' # "complete" /\ published \subseteq {o.fact : o \in observed}
      BY <1>0, <2>2 DEF Publish, Outcome
    <3>2. phase' = "partial" =>
            published' = {o.fact : o \in {p \in observed : Key(p.fact) \notin Excluded}} /\ published' # {}
      BY <2>2 DEF Publish
    <3>3. phase' # "partial" => published' = published
      BY <2>2 DEF Publish
    <3>4. Excluded' = Excluded
      BY <1>1 DEF Excluded
    <3>5. phase' = "partial" => \A k \in Keys(published') : k \notin Excluded
      BY <3>2 DEF Keys
    <3>6. published' \subseteq {o.fact : o \in observed}
      BY <1>1, <3>1, <3>2, <3>3
    <3> QED  BY <1>1, <3>1, <3>2, <3>4, <3>5, <3>6 DEF Outcome
  <2> QED  BY <2>1, <2>2
<1> QED  BY <1>3, <1>4, <1>5, <1>6 DEF Evidenced, Accounted

LEMMA EvidencedStep == ASSUME Evidenced, Accounts, [Next]_vars PROVE Evidenced'
<1>1. CASE UNCHANGED vars
  <2>1. UNCHANGED <<limits, phase, at, snapshots, cache, asks, calls, replies, audits, seen, observed,
                    errors, published>>
    BY <1>1 DEF vars
  <2>2. \A s : Stated(s)' = Stated(s)
    BY <2>1 DEF Stated
  <2>3. Ranges' /\ Progress' /\ Replied'
    BY <2>1 DEF Evidenced, Ranges, Progress, Replied
  <2>4. Remembered' /\ Backed'
    BY <2>1, <2>2 DEF Evidenced, Accounted, Remembered, Backed
  <2>5. \A s \in DOMAIN audits' : Settled(s)'
    BY <2>1, <2>2 DEF Evidenced, Accounted, Settled
  <2>6. Unbroken'
    <3>1. ASSUME NEW s \in DOMAIN audits, Spotless(s) PROVE Spotless(s)'
      BY <2>1, <2>2, <3>1 DEF Spotless
    <3> QED  BY <2>1, <3>1 DEF Evidenced, Unbroken
  <2>7. Outcome'
    BY <2>1 DEF Evidenced, Outcome, Excluded
  <2>8. Accounted'
    BY <2>4, <2>5 DEF Accounted
  <2> QED  BY <2>3, <2>6, <2>7, <2>8 DEF Evidenced
<1>2. CASE Rest
  BY <1>1, <1>2 DEF Rest
<1> QED
  BY <1>1, <1>2, FetchStep, QuietStep, ReuseStep, FailStep, AnsweredStep, EndStep DEF Next

LEMMA InitEvidenced == Init => Evidenced
<1> SUFFICES ASSUME Init PROVE Evidenced
  OBVIOUS
<1>1. /\ limits \in Settings /\ phase = "fetch" /\ at = 1 /\ asks = 0 /\ calls = 0 /\ errors = FALSE
      /\ snapshots = << >> /\ audits = << >> /\ seen = << >> /\ observed = {} /\ published = {}
      /\ replies = [s \in Sources |-> {}] /\ \A s \in Sources : cache[s] \subseteq Cacheable(s)
  BY DEF Init, Caches
<1>2. limits.asks \in Nat /\ limits.calls \in Nat /\ N \in Nat
  BY <1>1, Bounds, Numbered DEF Limits
<1>3. << >> \in Seq(Snapshots) /\ Len(<< >>) = 0 /\ DOMAIN << >> = {}
  OBVIOUS
<1>4. Ranges
  <2>1. limits \in Settings /\ at \in 1 .. N + 1 /\ asks \in 0 .. limits.asks /\ calls \in 0 .. limits.calls
    BY <1>1, <1>2
  <2>2. errors \in BOOLEAN
    BY <1>1
  <2>3. snapshots \in Seq(Snapshots) /\ Len(snapshots) = 0
    BY <1>1, <1>3
  <2> QED  BY <1>1, <2>1, <2>2, <2>3 DEF Ranges
<1>5. Progress /\ Replied /\ Accounted
  BY <1>1, <1>3 DEF Progress, Replied, Accounted, Remembered, Backed
<1>6. Unbroken /\ Outcome
  BY <1>1 DEF Unbroken, Outcome
<1> QED  BY <1>4, <1>5, <1>6 DEF Evidenced

LEMMA Held == Spec => [](Accounts /\ Evidenced)
<1>1. Accounts /\ Evidenced /\ [Next]_vars => Accounts' /\ Evidenced'
  BY AccountsStep, EvidencedStep
<1> QED  BY <1>1, InitAccounts, InitEvidenced, PTL DEF Spec

\* Every variable keeps its range, whatever the pages and the model answer.
THEOREM TypeCorrect == Spec => []TypeOK
<1>1. ASSUME Accounts, Evidenced PROVE TypeOK
  <2>1. Ranges /\ Progress /\ Replied /\ Remembered /\ Outcome /\ Typed /\ N \in Nat
    BY <1>1, Bounds DEF Accounts, Evidenced, Accounted
  <2>2. \A i \in 1 .. Len(snapshots) : snapshots[i].good <=> snapshots[i].text \in DOMAIN Content
    <3>1. ASSUME NEW i \in 1 .. Len(snapshots) PROVE snapshots[i] \in Snapshots
      <4>1. snapshots \in Seq(Snapshots)
        BY <2>1 DEF Ranges
      <4> QED  BY <4>1, ElementOfSeq
    <3> QED  BY <3>1 DEF Snapshots
  <2>3. Len(snapshots) <= N
    BY <2>1 DEF Ranges
  <2>4. \A s \in Sources : Cardinality(replies[s]) <= 1
    <3>1. ASSUME NEW s \in Sources PROVE Cardinality(replies[s]) <= 1
      <4>1. replies[s] = {} \/ \E a : replies[s] = {a}
        BY <2>1 DEF Replied
      <4>2. CASE replies[s] = {}
        BY <4>2, FS_EmptySet
      <4>3. ASSUME NEW a, replies[s] = {a} PROVE Cardinality(replies[s]) <= 1
        <5>1. Cardinality({a}) = 1
          BY FS_Singleton
        <5> QED  BY <4>3, <5>1
      <4> QED  BY <4>1, <4>2, <4>3
    <3> QED  BY <3>1
  <2>5. \A s \in Sources : requests[s] \in Seq(Failures \cup {"answered"})
    BY <2>1 DEF Typed, Outcomes
  <2> QED  BY <2>1, <2>2, <2>3, <2>4, <2>5 DEF TypeOK, Ranges, Progress, Remembered, Outcome, Statuses, Typed
<1> QED  BY <1>1, Held, PTL

\* Every value that an answer gives and its page supports is stored or on record as contested,
\* in whatever order facts, pages and runs come; of an identity with two values a page stores
\* none, and what is stored is in the text this run fetched
\* (FactExtractionService._extract over LLMFactExtractionProvider.extract).
THEOREM FactsAccounted == Spec => []FactsAreAccountedFor
<1>1. ASSUME Evidenced PROVE FactsAreAccountedFor
  <2>0. Remembered /\ Backed /\ \A s \in DOMAIN audits : Settled(s)
    BY <1>1 DEF Evidenced, Accounted
  <2>1. ASSUME NEW s \in DOMAIN audits, NEW f \in Legible(Stated(s)), Key(f) \notin Disputed(Stated(s))
        PROVE  \E o \in observed : /\ Key(o.fact) = Key(f)
                                   /\ \/ Canonical(o.fact) = Canonical(f)
                                      \/ Excerpt(Key(f), SourceCut) \in audits[s].clashes
    BY <2>0, <2>1 DEF Settled, Remembered
  <2>2. \A s \in DOMAIN audits : \A k \in Disputed(Stated(s)) :
          /\ Excerpt(k, ProviderCut) \in audits[s].rejected
          /\ \A o \in observed : o.source = s => Key(o.fact) # k
    BY <2>0 DEF Settled
  <2> QED  BY <2>0, <2>1, <2>2 DEF FactsAreAccountedFor, Backed
<1> QED  BY <1>1, Held, PTL

\* A complete run fetched every source, and every answer is supported and stored without a
\* contradiction; a partial report shows no identity that answers dispute
\* (AgentRunner.run, PartialResultService.complete).
THEOREM OutcomeHonest == Spec => []OutcomeIsHonest
<1>1. ASSUME Evidenced PROVE OutcomeIsHonest
  <2> DEFINE stated == UNION {Legible(Stated(s)) : s \in Sources}
  <2>0. Ranges /\ Progress /\ Replied /\ Remembered /\ Unbroken /\ Outcome
        /\ \A s \in DOMAIN audits : Settled(s)
    BY <1>1 DEF Evidenced, Accounted
  <2>1. ASSUME NEW s \in Sources, NEW f \in Legible(Stated(s)), Key(f) \notin Excluded,
               \A c \in {ProviderCut, SourceCut} : Length(Key(f)) <= c
        PROVE  Key(f) \in DOMAIN seen /\ seen[Key(f)] = Canonical(f)
    <3>1. s \in DOMAIN audits
      <4>1. replies[s] # {}
        BY DEF Legible, Stated
      <4> QED  BY <2>0, <4>1 DEF Replied
    <3>2. audits[s].rejected \cup audits[s].clashes \subseteq Excluded
      BY <3>1 DEF Excluded
    <3>3. Excerpt(Key(f), ProviderCut) = Key(f) /\ Excerpt(Key(f), SourceCut) = Key(f)
      BY <2>1 DEF Excerpt
    <3> QED  BY <2>0, <2>1, <3>1, <3>2, <3>3 DEF Settled
  <2>2. CASE phase = "complete"
    <3>1. /\ at = N + 1 /\ \A s \in Sources : snapshots[s].good
          /\ \A s \in Sources : s < at => s \in DOMAIN audits
          /\ \A s \in DOMAIN audits : Spotless(s)
      BY <2>0, <2>2 DEF Outcome, Unbroken
    <3>2. \A s \in Sources : s \in DOMAIN audits
      BY <3>1, Bounds DEF Sources
    <3>3. /\ \A s \in Sources : replies[s] # {} /\ audits[s].clashes = {} /\ Disputed(Stated(s)) = {}
          /\ \A s \in Sources : \A a \in replies[s] : \A i \in 1 .. Len(a) : Adapted(a[i]) \in Stated(s)
      BY <3>1, <3>2 DEF Spotless
    <3>4. ASSUME NEW f \in stated PROVE Key(f) \in DOMAIN seen /\ seen[Key(f)] = Canonical(f)
      <4>1. PICK s \in Sources : f \in Legible(Stated(s))
        OBVIOUS
      <4> QED  BY <2>0, <3>2, <3>3, <4>1 DEF Settled
    <3>5. Disputed(stated) = {}
      <4> HIDE DEF stated
      <4> QED  BY <3>4 DEF Disputed
    <3>6. \A f \in stated : \E o \in observed : Key(o.fact) = Key(f) /\ Canonical(o.fact) = Canonical(f)
      <4> HIDE DEF stated
      <4> QED  BY <2>0, <3>4 DEF Remembered
    <3> QED  BY <2>2, <3>1, <3>3, <3>5, <3>6 DEF OutcomeIsHonest
  <2>3. CASE phase = "partial"
    <3>1. published # {} /\ \A k \in Keys(published) : k \notin Excluded
      BY <2>0, <2>3 DEF Outcome
    <3>2. ASSUME NEW k \in Disputed(stated), \A c \in {ProviderCut, SourceCut} : Length(k) <= c
          PROVE  k \notin Keys(published)
      <4> SUFFICES ASSUME k \in Keys(published) PROVE FALSE
        OBVIOUS
      <4>1. k \notin Excluded
        BY <3>1
      <4>2. PICK f \in stated, g \in stated : Key(f) = k /\ Key(g) = k /\ Canonical(f) # Canonical(g)
        <5> HIDE DEF stated
        <5> QED  BY DEF Disputed
      <4>3. PICK s \in Sources, t \in Sources : f \in Legible(Stated(s)) /\ g \in Legible(Stated(t))
        BY <4>2
      <4>4. seen[k] = Canonical(f) /\ seen[k] = Canonical(g)
        BY <2>1, <3>2, <4>1, <4>2, <4>3
      <4> QED  BY <4>2, <4>4
    <3> QED  BY <2>3, <3>1, <3>2 DEF OutcomeIsHonest
  <2>4. CASE phase # "complete" /\ phase # "partial"
    BY <2>4 DEF OutcomeIsHonest
  <2> QED  BY <2>2, <2>3, <2>4
<1> QED  BY <1>1, Held, PTL
=============================================================================

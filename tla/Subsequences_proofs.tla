------------------------ MODULE Subsequences_proofs -------------------------
EXTENDS Subsequences, WellFoundedInduction, TLAPS

LEMMA LeastElement ==
    ASSUME NEW T, T \subseteq Nat, T # {}
    PROVE  \E x \in T : \A y \in T : x <= y
<1>1. PICK x \in T : \A y \in T : ~(<<y, x>> \in OpToRel(<, Nat))
  BY NatLessThanWellFounded, WFMin
<1>2. \A y \in T : y < x => <<y, x>> \in OpToRel(<, Nat)
  BY DEF OpToRel
<1>3. x \in Nat /\ \A y \in T : y \in Nat
  OBVIOUS
<1>4. \A y \in T : ~(y < x)
  BY <1>1, <1>2
<1> HIDE DEF OpToRel
<1>5. \A y \in T : x <= y
  <2> TAKE y \in T
  <2>1. ~(y < x)
    BY <1>4
  <2>2. x \in Int /\ y \in Int
    BY <1>3
  <2> QED  BY <2>1, <2>2
<1> QED  BY <1>5

(* Prefixes of a sequence of length m, by their length *)
IsKept(kept, s, Keep, m) ==
    kept = [n \in 0..m |->
              IF n = 0 THEN << >>
              ELSE IF s[n] \in Keep THEN Append(kept[n - 1], s[n]) ELSE kept[n - 1]]

LEMMA KeptExists ==
    ASSUME NEW s, NEW Keep, NEW m \in Nat
    PROVE  \E kept : IsKept(kept, s, Keep, m)
<1> DEFINE T == {n \in Nat : ~\E kept : IsKept(kept, s, Keep, n)}
<1>1. SUFFICES ASSUME T # {} PROVE FALSE
  OBVIOUS
<1>2. PICK n \in T : \A k \in T : n <= k
  <2>1. T \subseteq Nat
    OBVIOUS
  <2> HIDE DEF T
  <2> QED  BY <1>1, <2>1, LeastElement
<1>3. CASE n = 0
  <2> DEFINE g == [i \in 0..0 |-> << >>]
  <2>1. IsKept(g, s, Keep, 0)
    BY DEF IsKept
  <2> QED  BY <2>1, <1>2, <1>3
<1>4. CASE n # 0
  <2>1. n - 1 \in Nat /\ n \in Nat /\ ~(n <= n - 1)
    BY <1>4
  <2>2. n - 1 \notin T
    BY <2>1, <1>2
  <2>3. PICK g : IsKept(g, s, Keep, n - 1)
    BY <2>1, <2>2
  <2> DEFINE last == IF s[n] \in Keep THEN Append(g[n - 1], s[n]) ELSE g[n - 1]
             h == [i \in 0..n |-> IF i = n THEN last ELSE g[i]]
  <2>4. IsKept(h, s, Keep, n)
    <3>1. \A i \in 0..n - 1 : i # n /\ i \in 0..n /\ h[i] = g[i]
      BY <2>1
    <3>2. g[0] = << >>
      BY <2>1, <2>3 DEF IsKept
    <3>3. ASSUME NEW i \in 0..n - 1, i # 0
          PROVE  g[i] = IF s[i] \in Keep THEN Append(g[i - 1], s[i]) ELSE g[i - 1]
      BY <2>1, <2>3, <3>3 DEF IsKept
    <3>4. ASSUME NEW i \in 0..n
          PROVE  h[i] = IF i = 0 THEN << >>
                        ELSE IF s[i] \in Keep THEN Append(h[i - 1], s[i]) ELSE h[i - 1]
      <4>1. CASE i = n
        <5>1. i # 0 /\ n - 1 \in 0..n - 1 /\ h[n - 1] = g[n - 1]
          BY <2>1, <3>1, <4>1
        <5>2. h[i] = last
          BY <4>1
        <5> QED  BY <5>1, <5>2, <4>1
      <4>2. CASE i # n /\ i = 0
        BY <3>1, <3>2, <4>2, <2>1
      <4>3. CASE i # n /\ i # 0
        <5>1. i \in 0..n - 1 /\ i - 1 \in 0..n - 1
          BY <2>1, <4>3
        <5>2. h[i] = g[i] /\ h[i - 1] = g[i - 1]
          BY <5>1, <3>1
        <5> HIDE DEF h
        <5> QED  BY <5>1, <5>2, <3>3, <4>3
      <4> QED  BY <4>1, <4>2, <4>3
    <3> QED  BY <3>4 DEF IsKept
  <2> HIDE DEF h
  <2> QED  BY <2>4, <1>2
<1> QED  BY <1>3, <1>4
(* r has the elements of Keep among the first m of s: h says whence. *)
Takes(h, r, s, Keep, m) ==
    /\ h \in [1..Len(r) -> 1..m]
    /\ \A i, j \in 1..Len(r) : i < j => h[i] < h[j]
    /\ \A k \in 1..Len(r) : k <= h[k] /\ r[k] = s[h[k]] /\ r[k] \in Keep
    /\ \A i \in 1..m : s[i] \in Keep => \E k \in 1..Len(r) : h[k] = i

IsFiltered(r, s, Keep, m) == Len(r) <= m /\ \E h : Takes(h, r, s, Keep, m)

LEMMA FilteredNext ==
    ASSUME NEW E, NEW s \in Seq(E), NEW Keep, NEW n \in 1..Len(s),
           NEW r \in Seq(E), IsFiltered(r, s, Keep, n - 1),
           NEW q, q = IF s[n] \in Keep THEN Append(r, s[n]) ELSE r
    PROVE  q \in Seq(E) /\ IsFiltered(q, s, Keep, n)
<1>1. PICK h : Takes(h, r, s, Keep, n - 1)
  BY DEF IsFiltered
<1>2. Len(r) \in Nat /\ Len(r) <= n - 1 /\ n \in Nat /\ n - 1 \in Nat
  BY DEF IsFiltered
<1>3. CASE s[n] \notin Keep
  <2>1. q = r
    BY <1>3
  <2>2. Takes(h, r, s, Keep, n)
    <3>1. h \in [1..Len(r) -> 1..n]
      BY <1>1, <1>2 DEF Takes
    <3>2. \A i \in 1..n : s[i] \in Keep => i \in 1..n - 1
      BY <1>2, <1>3
    <3> QED  BY <1>1, <3>1, <3>2 DEF Takes
  <2> QED  BY <2>1, <2>2, <1>2 DEF IsFiltered
<1>4. CASE s[n] \in Keep
  <2> DEFINE g == [k \in 1..Len(r) + 1 |-> IF k = Len(r) + 1 THEN n ELSE h[k]]
  <2>1. q = Append(r, s[n]) /\ q \in Seq(E) /\ Len(q) = Len(r) + 1
    BY <1>4
  <2>2. q[Len(q)] = s[n] /\ \A k \in 1..Len(r) : q[k] = r[k]
    BY <2>1, <1>2
  <2>3. \A k \in 1..Len(r) : g[k] = h[k] /\ h[k] \in 1..n - 1 /\ k <= h[k]
    BY <1>1, <1>2 DEF Takes
  <2>4. g[Len(q)] = n
    BY <2>1, <1>2
  <2>5. g \in [1..Len(q) -> 1..n]
    <3>1. g \in [1..Len(q) -> 1..n] <=> \A k \in 1..Len(q) : g[k] \in 1..n
      BY <2>1
    <3>2. \A k \in 1..Len(q) : k \in 1..Len(r) \/ k = Len(q)
      BY <2>1, <1>2
    <3> HIDE DEF g
    <3> QED  BY <3>1, <3>2, <2>3, <2>4, <1>2
  <2> HIDE DEF g
  <2>6. \A k \in 1..Len(q) : k \in 1..Len(r) \/ k = Len(q)
    BY <2>1, <1>2
  <2>7. ASSUME NEW i \in 1..Len(q), NEW j \in 1..Len(q), i < j
        PROVE  g[i] < g[j]
    <3>1. i \in 1..Len(r)
      BY <2>7, <2>6, <2>1, <1>2
    <3>2. CASE j = Len(q)
      BY <3>1, <3>2, <2>3, <2>4, <1>2
    <3>3. CASE j \in 1..Len(r)
      <4>1. h[i] < h[j]
        BY <3>1, <3>3, <2>7, <1>1 DEF Takes
      <4> QED  BY <3>1, <3>3, <4>1, <2>3
    <3> QED  BY <3>2, <3>3, <2>6
  <2>8. ASSUME NEW k \in 1..Len(q)
        PROVE  k <= g[k] /\ q[k] = s[g[k]] /\ q[k] \in Keep
    <3>1. CASE k = Len(q)
      BY <3>1, <2>1, <2>2, <2>4, <1>2, <1>4
    <3>2. CASE k \in 1..Len(r)
      <4>1. r[k] = s[h[k]] /\ r[k] \in Keep
        BY <3>2, <1>1 DEF Takes
      <4> QED  BY <3>2, <4>1, <2>2, <2>3
    <3> QED  BY <3>1, <3>2, <2>6
  <2>9. ASSUME NEW i \in 1..n, s[i] \in Keep
        PROVE  \E k \in 1..Len(q) : g[k] = i
    <3>1. CASE i = n
      BY <3>1, <2>1, <2>4, <1>2
    <3>2. CASE i # n
      <4>1. i \in 1..n - 1
        BY <3>2, <1>2
      <4>2. PICK k \in 1..Len(r) : h[k] = i
        BY <4>1, <2>9, <1>1 DEF Takes
      <4>3. k \in 1..Len(q)
        BY <2>1, <1>2
      <4> QED  BY <4>2, <4>3, <2>3
    <3> QED  BY <3>1, <3>2
  <2>10. Takes(g, q, s, Keep, n)
    BY <2>5, <2>7, <2>8, <2>9 DEF Takes
  <2> QED  BY <2>1, <2>10, <1>2 DEF IsFiltered
<1> QED  BY <1>3, <1>4

LEMMA Filtered ==
    ASSUME NEW E, NEW s \in Seq(E), NEW Keep
    PROVE  Filter(s, Keep) \in Seq(E) /\ IsFiltered(Filter(s, Keep), s, Keep, Len(s))
<1> DEFINE kept == CHOOSE kept : IsKept(kept, s, Keep, Len(s))
<1>1. Filter(s, Keep) = kept[Len(s)]
  BY DEF Filter, IsKept
<1>2. IsKept(kept, s, Keep, Len(s))
  BY KeptExists
<1> HIDE DEF kept
<1> DEFINE Good(n) == kept[n] \in Seq(E) /\ IsFiltered(kept[n], s, Keep, n)
           T == {n \in 0..Len(s) : ~Good(n)}
<1>3. Len(s) \in Nat /\ Len(s) \in 0..Len(s)
  OBVIOUS
<1>4. SUFFICES ASSUME T # {} PROVE FALSE
  BY <1>1, <1>3
<1>5. PICK n \in T : \A k \in T : n <= k
  <2>1. T \subseteq Nat
    BY <1>3
  <2> HIDE DEF T
  <2> QED  BY <1>4, <2>1, LeastElement
<1>6. n \in 0..Len(s) /\ ~Good(n)
  OBVIOUS
<1>7. kept[n] = IF n = 0 THEN << >>
                ELSE IF s[n] \in Keep THEN Append(kept[n - 1], s[n]) ELSE kept[n - 1]
  <2> HIDE DEF T, Good
  <2> QED  BY <1>2, <1>6 DEF IsKept
<1>8. CASE n = 0
  <2>1. Takes(<< >>, << >>, s, Keep, 0)
    BY DEF Takes
  <2>2. kept[n] = << >>
    BY <1>7, <1>8
  <2>3. << >> \in Seq(E) /\ Len(<< >>) = 0
    OBVIOUS
  <2> QED  BY <2>1, <2>2, <2>3, <1>8, <1>6 DEF IsFiltered
<1>9. CASE n # 0
  <2>1. n \in 1..Len(s) /\ n - 1 \in 0..Len(s) /\ ~(n <= n - 1)
    BY <1>6, <1>9, <1>3
  <2>2. Good(n - 1)
    BY <2>1, <1>5
  <2> QED  BY <2>1, <2>2, <1>6, <1>7, <1>9, FilteredNext
<1> QED  BY <1>8, <1>9

=============================================================================

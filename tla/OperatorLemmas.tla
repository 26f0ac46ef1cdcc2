--------------------------- MODULE OperatorLemmas ---------------------------
(***************************************************************************)
(* What the operators the models share return, preserve and bound: those   *)
(* on the program's lists (Lists, and what it takes from SequencesExt) and *)
(* the replay of cached updates on a snapshot (SyncReplay).                *)
(*                                                                         *)
(* The library's induction takes a predicate as an operator; here it takes *)
(* a set, so what Without, FlattenSeq and Replayed compute is proved for   *)
(* every list and every sequence of updates.                               *)
(***************************************************************************)
EXTENDS Lists, SyncReplay, FiniteSetTheorems, WellFoundedInduction, TLAPS

(* Every set of numbers that is not empty has a least one.                 *)
LEMMA NatLeast ==
  ASSUME NEW T, T \subseteq Nat, T # {}
  PROVE  \E x \in T : \A y \in T : x <= y
<1>1. IsWellFoundedOn(OpToRel(<, Nat), Nat)
  BY NatLessThanWellFounded
<1>2. PICK x \in T : \A y \in T : ~ (<<y, x>> \in OpToRel(<, Nat))
  BY <1>1, WFMin
<1>3. \A y \in T : ~ (y < x)
  BY <1>2 DEF OpToRel
<1>4. QED BY <1>3

(* Induction, with a set for the predicate.                                *)
LEMMA NatSet ==
  ASSUME NEW T, 0 \in T, \A n \in Nat : n \in T => n + 1 \in T
  PROVE  \A n \in Nat : n \in T
<1>1. SUFFICES ASSUME Nat \ T # {} PROVE FALSE
  OBVIOUS
<1>2. PICK x \in Nat \ T : \A y \in Nat \ T : x <= y
  BY <1>1, NatLeast
<1>3. x # 0 /\ x - 1 \in Nat
  BY <1>2
<1>4. x - 1 \in T
  BY <1>2, <1>3
<1>5. (x - 1) + 1 \in T
  BY <1>3, <1>4
<1>6. QED BY <1>2, <1>3, <1>5

(* The recursion in Without defines a function.                            *)
LEMMA WithoutRecursion ==
  ASSUME NEW s, Len(s) \in Nat, NEW G
  PROVE  \E f : /\ f = [n \in 0..Len(s) |->
                          IF n = 0 THEN <<>>
                            ELSE IF s[n] \in G THEN f[n - 1]
                                               ELSE Append(f[n - 1], s[n])]
                /\ Without(s, G) = f[Len(s)]
<1> DEFINE Step(f, n) == IF n = 0 THEN <<>>
                           ELSE IF s[n] \in G THEN f[n - 1]
                                              ELSE Append(f[n - 1], s[n])
           T == {k \in Nat : \E f : f = [n \in 0..k |-> Step(f, n)]}
<1>1. 0 \in T
  <2>1. [n \in 0..0 |-> <<>>] = [n \in 0..0 |-> Step([m \in 0..0 |-> <<>>], n)]
    OBVIOUS
  <2>2. QED BY <2>1
<1>2. ASSUME NEW k \in Nat, k \in T PROVE k + 1 \in T
  <2>1. PICK f : f = [n \in 0..k |-> Step(f, n)]
    BY <1>2
  <2>0. \A n \in 0..k : f[n] = Step(f, n)
    <3> HIDE DEF Step
    <3> QED BY <2>1
  <2> DEFINE g == [n \in 0..(k + 1) |-> IF n <= k THEN f[n] ELSE Step(f, n)]
  <2>2. ASSUME NEW n \in 0..(k + 1) PROVE g[n] = Step(g, n)
    <3>1. CASE n = 0
      BY <2>0, <3>1
    <3>2. CASE n # 0
      <4>1. n - 1 \in 0..(k + 1) /\ n - 1 <= k
        BY <3>2
      <4>2. g[n - 1] = f[n - 1]
        BY <4>1
      <4>3. Step(g, n) = Step(f, n)
        BY <3>2, <4>2
      <4>4. n <= k => f[n] = Step(f, n)
        BY <2>0
      <4> QED BY <4>3, <4>4
    <3> QED BY <3>1, <3>2
  <2>3. g = [n \in 0..(k + 1) |-> Step(g, n)]
    BY <2>2
  <2>4. \E h : h = [n \in 0..(k + 1) |-> Step(h, n)]
    <3> HIDE DEF g, Step
    <3> QED BY <2>3
  <2> QED BY <2>4
<1>3. Len(s) \in T
  <2> HIDE DEF T
  <2> QED BY <1>1, <1>2, NatSet
<1>4. (CHOOSE f : f = [n \in 0..Len(s) |-> Step(f, n)])
        = [n \in 0..Len(s) |-> Step(CHOOSE f : f = [m \in 0..Len(s) |-> Step(f, m)], n)]
  BY <1>3
<1>5. QED BY <1>4 DEF Without

(* What is left of a list: the entries not erased, in their old order, and *)
(* none farther behind than it was, by as much as the list lost in front.  *)
LEMMA WithoutFacts ==
  ASSUME NEW S, NEW s \in Seq(S), NEW G
  PROVE  /\ Without(s, G) \in Seq(S)
         /\ \A j \in 1..Len(Without(s, G)) : \E i \in 1..Len(s) :
              j <= i /\ Without(s, G)[j] = s[i] /\ s[i] \notin G
         /\ \A j, k \in 1..Len(Without(s, G)) : j < k =>
              \E i, h \in 1..Len(s) :
                i < h /\ Without(s, G)[j] = s[i] /\ Without(s, G)[k] = s[h]
         /\ \A m \in 0..Len(s) : (\A h \in 1..m : s[h] \in G) =>
              \A i \in 1..Len(s) : s[i] \notin G =>
                \E j \in 1..Len(Without(s, G)) :
                  j + m <= i /\ Without(s, G)[j] = s[i]
<1>0. Len(s) \in Nat
  OBVIOUS
<1>1. PICK f : /\ f = [n \in 0..Len(s) |->
                        IF n = 0 THEN <<>>
                          ELSE IF s[n] \in G THEN f[n - 1]
                                             ELSE Append(f[n - 1], s[n])]
               /\ Without(s, G) = f[Len(s)]
  BY <1>0, WithoutRecursion
<1> DEFINE A(n) == f[n] \in Seq(S)
           B(n) == \A j \in 1..Len(f[n]) : \E i \in 1..n :
                     j <= i /\ f[n][j] = s[i] /\ s[i] \notin G
           C(n) == \A j, k \in 1..Len(f[n]) : j < k =>
                     \E i, h \in 1..n : i < h /\ f[n][j] = s[i] /\ f[n][k] = s[h]
           D(n) == \A m \in 0..Len(s) : (\A h \in 1..m : s[h] \in G) =>
                     \A i \in 1..n : s[i] \notin G =>
                       \E j \in 1..Len(f[n]) : j + m <= i /\ f[n][j] = s[i]
           E(n) == \A m \in 0..Len(s) : (\A h \in 1..m : s[h] \in G) =>
                     Len(f[n]) + m <= n \/ Len(f[n]) = 0
           T == {n \in Nat : n <= Len(s) => A(n) /\ B(n) /\ C(n) /\ D(n) /\ E(n)}
<1>2. f[0] = <<>>
  BY <1>0, <1>1
<1>3. 0 \in T
  <2>1. Len(f[0]) = 0 /\ f[0] \in Seq(S)
    BY <1>2
  <2>2. A(0) /\ B(0) /\ C(0)
    BY <2>1
  <2>3. D(0) /\ E(0)
    BY <2>1
  <2> QED BY <2>2, <2>3
<1>4. ASSUME NEW n \in Nat, n \in T PROVE n + 1 \in T
  <2>1. SUFFICES ASSUME n + 1 <= Len(s)
                 PROVE  A(n + 1) /\ B(n + 1) /\ C(n + 1) /\ D(n + 1) /\ E(n + 1)
    <3> HIDE DEF A, B, C, D, E
    <3> QED OBVIOUS
  <2>2. A(n) /\ B(n) /\ C(n) /\ D(n) /\ E(n)
    BY <1>0, <1>4, <2>1
  <2>3. n + 1 \in 0..Len(s) /\ n + 1 # 0 /\ (n + 1) - 1 = n
    BY <1>0, <2>1
  <2>4. f[n + 1] = IF s[n + 1] \in G THEN f[n] ELSE Append(f[n], s[n + 1])
    BY <1>1, <2>3
  <2>5. s[n + 1] \in S
    BY <2>3
  <2>6. CASE s[n + 1] \in G
    <3>1. f[n + 1] = f[n]
      BY <2>4, <2>6
    <3>2. A(n + 1)
      BY <2>2, <3>1
    <3>3. B(n + 1)
      BY <2>2, <3>1, <1>0, <2>1
    <3>4. C(n + 1)
      BY <2>2, <3>1
    <3>5. D(n + 1)
      <4>1. ASSUME NEW m \in 0..Len(s), \A h \in 1..m : s[h] \in G,
                   NEW i \in 1..(n + 1), s[i] \notin G
            PROVE  \E j \in 1..Len(f[n]) : j + m <= i /\ f[n][j] = s[i]
        <5>1. i \in 1..n
          BY <4>1, <2>6
        <5> QED BY <5>1, <4>1, <2>2
      <4> QED BY <4>1, <3>1
    <3>6. E(n + 1)
      BY <2>2, <3>1, <1>0
    <3> QED BY <3>2, <3>3, <3>4, <3>5, <3>6
  <2>7. CASE s[n + 1] \notin G
    <3> DEFINE g == Append(f[n], s[n + 1])
    <3>1. f[n + 1] = g
      BY <2>4, <2>7
    <3>2. /\ g \in Seq(S) /\ Len(g) = Len(f[n]) + 1 /\ Len(f[n]) \in Nat
          /\ g[Len(f[n]) + 1] = s[n + 1]
          /\ \A j \in 1..Len(f[n]) : g[j] = f[n][j]
      BY <2>2, <2>5
    <3> HIDE DEF g
    <3>3. \A m \in 0..Len(s) : (\A h \in 1..m : s[h] \in G) => m <= n
      BY <2>3, <2>7, <1>0
    <3>4. E(n + 1)
      BY <2>2, <3>1, <3>2, <3>3, <1>0
    <3>5. A(n + 1)
      BY <3>1, <3>2
    <3>6. \A j \in 1..Len(g) : j \in 1..Len(f[n]) \/ j = Len(f[n]) + 1
      BY <3>2
    <3>7. Len(f[n]) <= n
      <4>1. 0 \in 0..Len(s) /\ \A h \in 1..0 : s[h] \in G
        BY <1>0
      <4> QED BY <2>2, <4>1, <3>2
    <3>8. B(n + 1)
      BY <2>2, <3>1, <3>2, <3>6, <3>7, <2>7
    <3>9. C(n + 1)
      <4>1. SUFFICES ASSUME NEW j \in 1..Len(g), NEW k \in 1..Len(g), j < k
                     PROVE  \E i, h \in 1..(n + 1) : i < h /\ g[j] = s[i] /\ g[k] = s[h]
        BY <3>1
      <4>2. j \in 1..Len(f[n])
        BY <4>1, <3>2
      <4>3. CASE k \in 1..Len(f[n])
        BY <4>1, <4>2, <4>3, <2>2, <3>2
      <4>4. CASE k = Len(f[n]) + 1
        BY <4>2, <4>4, <2>2, <3>2
      <4> QED BY <4>3, <4>4, <3>6
    <3>10. D(n + 1)
      <4>1. SUFFICES ASSUME NEW m \in 0..Len(s), \A h \in 1..m : s[h] \in G,
                            NEW i \in 1..(n + 1), s[i] \notin G
                     PROVE  \E j \in 1..Len(g) : j + m <= i /\ g[j] = s[i]
        BY <3>1
      <4>2. CASE i \in 1..n
        <5>1. PICK j \in 1..Len(f[n]) : j + m <= i /\ f[n][j] = s[i]
          BY <4>1, <4>2, <2>2
        <5> QED BY <5>1, <3>2
      <4>3. CASE i = n + 1
        <5>1. Len(f[n]) + m <= n
          BY <2>2, <4>1, <3>3
        <5> QED BY <5>1, <4>3, <3>2
      <4> QED BY <4>2, <4>3
    <3> QED BY <3>4, <3>5, <3>8, <3>9, <3>10
  <2> QED BY <2>6, <2>7
<1>5. Len(s) \in T
  <2> HIDE DEF T
  <2> QED BY <1>0, <1>3, <1>4, NatSet
<1>6. A(Len(s)) /\ B(Len(s)) /\ C(Len(s)) /\ D(Len(s))
  <2> HIDE DEF A, B, C, D, E
  <2> QED BY <1>0, <1>5
<1>7. Without(s, G) = f[Len(s)]
  BY <1>1
<1> HIDE DEF E
<1> QED BY <1>6, <1>7

(* Nothing to erase.                                                       *)
LEMMA WithoutNothing ==
  ASSUME NEW S, NEW s \in Seq(S)
  PROVE  Without(s, {}) = s
<1>1. Len(s) \in Nat
  OBVIOUS
<1>2. PICK f : /\ f = [n \in 0..Len(s) |->
                        IF n = 0 THEN <<>>
                          ELSE IF s[n] \in {} THEN f[n - 1]
                                              ELSE Append(f[n - 1], s[n])]
               /\ Without(s, {}) = f[Len(s)]
  BY <1>1, WithoutRecursion
<1> DEFINE T == {n \in Nat : n <= Len(s) => f[n] = SubSeq(s, 1, n)}
<1>3. 0 \in T
  BY <1>1, <1>2
<1>4. ASSUME NEW n \in Nat, n \in T PROVE n + 1 \in T
  <2>1. SUFFICES ASSUME n + 1 <= Len(s) PROVE f[n + 1] = SubSeq(s, 1, n + 1)
    OBVIOUS
  <2>5. n + 1 \in 0..Len(s) /\ n + 1 # 0 /\ (n + 1) - 1 = n
    BY <1>1, <2>1
  <2>2. f[n + 1] = Append(f[n], s[n + 1])
    BY <1>2, <2>5
  <2>3. f[n] = SubSeq(s, 1, n)
    BY <1>1, <1>4, <2>1
  <2>4. SubSeq(s, 1, n + 1) = Append(SubSeq(s, 1, n), s[n + 1])
    BY <1>1, <2>1
  <2> QED BY <2>2, <2>3, <2>4
<1>5. Len(s) \in T
  <2> HIDE DEF T
  <2> QED BY <1>1, <1>3, <1>4, NatSet
<1>6. SubSeq(s, 1, Len(s)) = s
  OBVIOUS
<1>7. f[Len(s)] = SubSeq(s, 1, Len(s))
  BY <1>1, <1>5
<1>8. Without(s, {}) = f[Len(s)]
  BY <1>2
<1>9. QED BY <1>6, <1>7, <1>8

(* What a list holds.                                                      *)
LEMMA ListSet ==
  ASSUME NEW S, NEW s \in Seq(S)
  PROVE  /\ Len(s) \in Nat
         /\ ToSet(s) \subseteq S
         /\ \A i \in 1..Len(s) : s[i] \in ToSet(s)
         /\ \A x \in ToSet(s) : \E i \in 1..Len(s) : x = s[i]
<1>1. Len(s) \in Nat /\ DOMAIN s = 1..Len(s) /\ \A i \in 1..Len(s) : s[i] \in S
  OBVIOUS
<1>2. QED BY <1>1 DEF ToSet

(* What is left of a list, ...                                             *)
LEMMA WithoutList ==
  ASSUME NEW S, NEW s \in Seq(S), NEW G
  PROVE  Without(s, G) \in Seq(S) /\ ToSet(Without(s, G)) = ToSet(s) \ G
<1> DEFINE w == Without(s, G)
<1>1. /\ w \in Seq(S)
      /\ \A j \in 1..Len(w) : \E i \in 1..Len(s) : j <= i /\ w[j] = s[i] /\ s[i] \notin G
  BY WithoutFacts
<1>2. \A i \in 1..Len(s) : s[i] \notin G => \E j \in 1..Len(w) : w[j] = s[i]
  <2>1. 0 \in 0..Len(s) /\ \A h \in 1..0 : s[h] \in G
    OBVIOUS
  <2>2. \A i \in 1..Len(s) : s[i] \notin G => \E j \in 1..Len(w) : j + 0 <= i /\ w[j] = s[i]
    BY <2>1, WithoutFacts
  <2> QED BY <2>2
<1> HIDE DEF w
<1>3. DOMAIN w = 1..Len(w) /\ DOMAIN s = 1..Len(s)
  BY <1>1
<1>4. ToSet(w) = ToSet(s) \ G
  <2>1. \A j \in 1..Len(w) : w[j] \in ToSet(s) \ G
    BY <1>1, <1>3 DEF ToSet
  <2>2. \A i \in 1..Len(s) : s[i] \notin G => s[i] \in ToSet(w)
    BY <1>2, <1>3 DEF ToSet
  <2> QED BY <2>1, <2>2, <1>3 DEF ToSet
<1>5. QED BY <1>1, <1>4 DEF w

(* ... and that it has no key twice if the list had none.                  *)
LEMMA WithoutDistinct ==
  ASSUME NEW S, NEW s \in Seq(S), NEW G, NEW key,
         \A i, h \in 1..Len(s) : key[s[i]] = key[s[h]] => i = h
  PROVE  \A j, k \in 1..Len(Without(s, G)) :
           key[Without(s, G)[j]] = key[Without(s, G)[k]] => j = k
<1> DEFINE w == Without(s, G)
<1>1. /\ w \in Seq(S)
      /\ \A j, k \in 1..Len(w) : j < k =>
           \E i, h \in 1..Len(s) : i < h /\ w[j] = s[i] /\ w[k] = s[h]
  BY WithoutFacts
<1> HIDE DEF w
<1>2. Len(w) \in Nat
  BY <1>1
<1>3. ASSUME NEW j \in 1..Len(w), NEW k \in 1..Len(w), j < k, key[w[j]] = key[w[k]]
      PROVE  FALSE
  <2>1. PICK i \in 1..Len(s), h \in 1..Len(s) : i < h /\ w[j] = s[i] /\ w[k] = s[h]
    BY <1>1, <1>3
  <2>2. i = h
    BY <1>3, <2>1
  <2> QED BY <2>1, <2>2
<1>4. \A j, k \in 1..Len(w) : key[w[j]] = key[w[k]] => j = k
  BY <1>2, <1>3
<1> QED BY <1>4 DEF w

(* Two lists, one behind the other.                                        *)
LEMMA ConcatList ==
  ASSUME NEW S, NEW s \in Seq(S), NEW t \in Seq(S)
  PROVE  /\ s \o t \in Seq(S)
         /\ ToSet(s \o t) = ToSet(s) \cup ToSet(t)
         /\ Len(s \o t) = Len(s) + Len(t)
         /\ \A i \in 1..Len(s) : (s \o t)[i] = s[i]
         /\ \A i \in 1..Len(t) : (s \o t)[Len(s) + i] = t[i]
         /\ \A k \in 1..Len(s \o t) :
              k \in 1..Len(s) \/ \E i \in 1..Len(t) : k = Len(s) + i
<1>1. /\ s \o t \in Seq(S) /\ Len(s) \in Nat /\ Len(t) \in Nat
      /\ Len(s \o t) = Len(s) + Len(t)
      /\ DOMAIN s = 1..Len(s) /\ DOMAIN t = 1..Len(t)
      /\ DOMAIN (s \o t) = 1..Len(s \o t)
  OBVIOUS
<1>2. \A i \in 1..Len(s) : (s \o t)[i] = s[i]
  OBVIOUS
<1>3. \A i \in 1..Len(t) : (s \o t)[Len(s) + i] = t[i]
  OBVIOUS
<1>4. \A i \in 1..Len(s) : i \in 1..Len(s \o t)
  BY <1>1
<1>5. \A i \in 1..Len(t) : Len(s) + i \in 1..Len(s \o t)
  BY <1>1
<1>6. ASSUME NEW k \in 1..Len(s \o t)
      PROVE  k \in 1..Len(s) \/ \E i \in 1..Len(t) : k = Len(s) + i
  <2>1. CASE k <= Len(s)
    BY <1>1, <2>1
  <2>2. CASE k > Len(s)
    <3>1. k - Len(s) \in 1..Len(t) /\ k = Len(s) + (k - Len(s))
      BY <1>1, <2>2
    <3> QED BY <3>1
  <2> QED BY <1>1, <2>1, <2>2
<1>7. ToSet(s \o t) = ToSet(s) \cup ToSet(t)
  <2> DEFINE c == s \o t
  <2>1. DOMAIN c = 1..Len(c) /\ DOMAIN s = 1..Len(s) /\ DOMAIN t = 1..Len(t)
    BY <1>1
  <2>2. /\ \A i \in 1..Len(s) : i \in 1..Len(c) /\ c[i] = s[i]
        /\ \A i \in 1..Len(t) : Len(s) + i \in 1..Len(c) /\ c[Len(s) + i] = t[i]
        /\ \A k \in 1..Len(c) : k \in 1..Len(s) \/ \E i \in 1..Len(t) : k = Len(s) + i
    BY <1>2, <1>3, <1>4, <1>5, <1>6
  <2> HIDE DEF c
  <2>3. ToSet(c) = ToSet(s) \cup ToSet(t)
    <3>1. \A x : x \in ToSet(c) <=> \E k \in 1..Len(c) : x = c[k]
      BY <2>1 DEF ToSet
    <3>2. \A x : x \in ToSet(s) <=> \E k \in 1..Len(s) : x = s[k]
      BY <2>1 DEF ToSet
    <3>3. \A x : x \in ToSet(t) <=> \E k \in 1..Len(t) : x = t[k]
      BY <2>1 DEF ToSet
    <3>4. ASSUME NEW x \in ToSet(c) PROVE x \in ToSet(s) \/ x \in ToSet(t)
      <4>1. PICK k \in 1..Len(c) : x = c[k]
        BY <3>1
      <4>2. CASE k \in 1..Len(s)
        BY <2>2, <3>2, <4>1, <4>2
      <4>3. ASSUME NEW i \in 1..Len(t), k = Len(s) + i PROVE x \in ToSet(t)
        BY <2>2, <3>3, <4>1, <4>3
      <4> QED BY <2>2, <4>2, <4>3
    <3>5. ASSUME NEW x, x \in ToSet(s) \/ x \in ToSet(t) PROVE x \in ToSet(c)
      <4>1. CASE x \in ToSet(s)
        <5>1. PICK i \in 1..Len(s) : x = s[i]
          BY <3>2, <4>1
        <5>2. i \in 1..Len(c) /\ c[i] = x
          BY <2>2, <5>1
        <5> QED BY <3>1, <5>2
      <4>2. CASE x \in ToSet(t)
        <5>1. PICK i \in 1..Len(t) : x = t[i]
          BY <3>3, <4>2
        <5>2. Len(s) + i \in 1..Len(c) /\ c[Len(s) + i] = x
          BY <2>2, <5>1
        <5> QED BY <3>1, <5>2
      <4> QED BY <3>5, <4>1, <4>2
    <3> HIDE DEF ToSet
    <3> QED BY <3>4, <3>5
  <2> QED BY <2>3 DEF c
<1>8. QED BY <1>1, <1>2, <1>3, <1>6, <1>7

(* A list with one item more, with one less, and the start of one.           *)
LEMMA AppendList ==
  ASSUME NEW T, NEW s \in Seq(T), NEW x \in T
  PROVE  /\ Append(s, x) \in Seq(T)
         /\ Len(Append(s, x)) = Len(s) + 1
         /\ ToSet(Append(s, x)) = ToSet(s) \cup {x}
         /\ \A i \in 1..Len(s) : Append(s, x)[i] = s[i]
         /\ Append(s, x)[Len(s) + 1] = x
<1> DEFINE a == Append(s, x)
<1>1. /\ a \in Seq(T) /\ Len(a) = Len(s) + 1 /\ Len(s) \in Nat
      /\ DOMAIN a = 1..Len(a) /\ DOMAIN s = 1..Len(s)
      /\ \A i \in 1..Len(s) : a[i] = s[i]
      /\ a[Len(s) + 1] = x
  OBVIOUS
<1> HIDE DEF a
<1>2. \A k \in 1..Len(a) : k \in 1..Len(s) \/ k = Len(s) + 1
  BY <1>1
<1>3. \A k \in 1..Len(s) : k \in 1..Len(a)
  BY <1>1
<1>4. Len(s) + 1 \in 1..Len(a)
  BY <1>1
<1>5. ToSet(a) = ToSet(s) \cup {x}
  BY <1>1, <1>2, <1>3, <1>4 DEF ToSet
<1>6. QED BY <1>1, <1>5 DEF a

LEMMA TailList ==
  ASSUME NEW T, NEW s \in Seq(T), s # <<>>
  PROVE  /\ Tail(s) \in Seq(T) /\ Head(s) \in ToSet(s) /\ Head(s) \in T
         /\ Len(s) >= 1 /\ Len(Tail(s)) = Len(s) - 1
         /\ Head(s) = s[1] /\ \A i \in 1..Len(Tail(s)) : i + 1 \in 1..Len(s) /\ Tail(s)[i] = s[i + 1]
         /\ ToSet(s) = {Head(s)} \cup ToSet(Tail(s))
<1> DEFINE t == Tail(s)
           h == Head(s)
<1>1. /\ t \in Seq(T) /\ Len(s) \in Nat /\ Len(s) >= 1 /\ Len(t) = Len(s) - 1 /\ h = s[1] /\ h \in T
      /\ DOMAIN t = 1..Len(t) /\ DOMAIN s = 1..Len(s)
      /\ \A i \in 1..Len(t) : t[i] = s[i + 1]
  OBVIOUS
<1> HIDE DEF t, h
<1>2. \A i \in 1..Len(t) : i + 1 \in 1..Len(s)
  BY <1>1
<1>3. \A i \in 1..Len(s) : i = 1 \/ (i - 1 \in 1..Len(t) /\ s[i] = t[i - 1])
  <2>1. ASSUME NEW i \in 1..Len(s), i # 1 PROVE i - 1 \in 1..Len(t) /\ s[i] = t[i - 1]
    <3>1. i - 1 \in 1..Len(t) /\ (i - 1) + 1 = i
      BY <1>1, <2>1
    <3> QED BY <1>1, <3>1
  <2> QED BY <2>1
<1>4. 1 \in 1..Len(s)
  BY <1>1
<1>5. \A q : q \in ToSet(s) <=> q = h \/ q \in ToSet(t)
  <2>1. /\ \A q : q \in ToSet(s) <=> \E i \in 1..Len(s) : q = s[i]
        /\ \A q : q \in ToSet(t) <=> \E i \in 1..Len(t) : q = t[i]
    BY <1>1 DEF ToSet
  <2>2. ASSUME NEW q \in ToSet(s) PROVE q = h \/ q \in ToSet(t)
    BY <1>1, <1>3, <2>1, <2>2
  <2>3. \A q \in ToSet(t) : q \in ToSet(s)
    BY <1>1, <1>2, <2>1
  <2>4. h \in ToSet(s)
    BY <1>1, <1>4, <2>1
  <2> HIDE DEF ToSet
  <2> QED BY <2>2, <2>3, <2>4
<1>6. QED BY <1>1, <1>2, <1>5 DEF t, h

LEMMA PartList ==
  ASSUME NEW T, NEW s \in Seq(T), NEW m \in 1..(Len(s) + 1), NEW n \in 0..Len(s), n >= m - 1
  PROVE  /\ SubSeq(s, m, n) \in Seq(T) /\ Len(SubSeq(s, m, n)) = n - m + 1
         /\ \A i \in 1..Len(SubSeq(s, m, n)) :
              i + m - 1 \in 1..Len(s) /\ SubSeq(s, m, n)[i] = s[i + m - 1]
         /\ ToSet(SubSeq(s, m, n)) \subseteq ToSet(s)
<1> DEFINE t == SubSeq(s, m, n)
<1>1. Len(s) \in Nat /\ DOMAIN s = 1..Len(s)
  OBVIOUS
<1>2. Len(t) = n - m + 1 /\ \A i \in 1..(n - m + 1) : t[i] = s[i + m - 1]
  BY <1>1
<1>3. \A i \in 1..(n - m + 1) : i + m - 1 \in 1..Len(s) /\ s[i + m - 1] \in T
  <2>1. \A i \in 1..(n - m + 1) : i + m - 1 \in 1..Len(s)
    BY <1>1
  <2> QED BY <2>1
<1>4. t \in Seq(T)
  BY <1>1, <1>3
<1>5. DOMAIN t = 1..Len(t)
  BY <1>4
<1> HIDE DEF t
<1>6. ToSet(t) \subseteq ToSet(s)
  BY <1>1, <1>2, <1>3, <1>5 DEF ToSet
<1>7. QED BY <1>2, <1>3, <1>4, <1>6 DEF t

(* q1 has some of the elements of q, in their order.                       *)
Thins(q1, q) ==
  \E f :
    /\ \A i \in 1..Len(q1) : f[i] \in 1..Len(q) /\ q1[i] = q[f[i]]
    /\ \A i, j \in 1..Len(q1) : i < j => f[i] < f[j]

(* What arrives over a connection that breaks is in order.                 *)
LEMMA TornThins ==
  ASSUME NEW S, NEW s \in Seq(S), NEW u \in Torn(s)
  PROVE  u \in Seq(S) /\ Len(u) \in Nat /\ Len(u) <= Len(s) /\ Thins(u, s)
<1>1. PICK i \in 0..Len(s) : \E j \in (i + 1)..(Len(s) + 1) :
        u = SubSeq(s, 1, i) \o SubSeq(s, j, Len(s))
  BY DEF Torn
<1>2. PICK j \in (i + 1)..(Len(s) + 1) : u = SubSeq(s, 1, i) \o SubSeq(s, j, Len(s))
  BY <1>1
<1> DEFINE a == SubSeq(s, 1, i)
           b == SubSeq(s, j, Len(s))
           n == Len(s)
<1>3. n \in Nat /\ i \in 0..n /\ j \in (i + 1)..(n + 1)
  BY <1>1, <1>2
<1>4. /\ a \in Seq(S) /\ Len(a) = i - 1 + 1
      /\ \A k \in 1..Len(a) : k + 1 - 1 \in 1..n /\ a[k] = s[k + 1 - 1]
  <2>1. 1 \in 1..(Len(s) + 1) /\ i \in 0..Len(s) /\ i >= 1 - 1
    BY <1>3
  <2> QED BY <2>1, PartList
<1>5. /\ b \in Seq(S) /\ Len(b) = n - j + 1
      /\ \A k \in 1..Len(b) : k + j - 1 \in 1..n /\ b[k] = s[k + j - 1]
  <2>1. j \in 1..(Len(s) + 1) /\ Len(s) \in 0..Len(s) /\ Len(s) >= j - 1
    BY <1>3
  <2> QED BY <2>1, PartList
<1>6. /\ a \o b \in Seq(S) /\ Len(a \o b) = Len(a) + Len(b)
      /\ \A k \in 1..Len(a) : (a \o b)[k] = a[k]
      /\ \A k \in 1..Len(b) : (a \o b)[Len(a) + k] = b[k]
  BY <1>4, <1>5, ConcatList
<1>7. u = a \o b
  BY <1>2
<1> HIDE DEF a, b, n
<1>8. Len(a) = i /\ \A k \in 1..i : k \in 1..n /\ a[k] = s[k]
  <2>1. Len(a) = i /\ \A k \in 1..i : k + 1 - 1 = k
    BY <1>3, <1>4
  <2> QED BY <1>4, <2>1
<1>9. /\ u \in Seq(S) /\ Len(u) = i + (n - j + 1)
      /\ \A k \in 1..i : u[k] = s[k]
      /\ \A k \in 1..(n - j + 1) : u[i + k] = s[k + j - 1]
  BY <1>5, <1>6, <1>7, <1>8
<1> DEFINE f == [k \in 1..Len(u) |-> IF k <= i THEN k ELSE k - i + j - 1]
<1>10. ASSUME NEW k \in 1..Len(u) PROVE f[k] \in 1..n /\ u[k] = s[f[k]]
  <2>1. f[k] = IF k <= i THEN k ELSE k - i + j - 1
    OBVIOUS
  <2> HIDE DEF f
  <2>2. CASE k <= i
    <3>1. k \in 1..i /\ k \in 1..n
      BY <1>3, <1>9, <2>2
    <3> QED BY <1>9, <2>1, <2>2, <3>1
  <2>3. CASE ~ k <= i
    <3>1. k - i \in 1..(n - j + 1) /\ i + (k - i) = k /\ (k - i) + j - 1 \in 1..n
      BY <1>3, <1>9, <2>3
    <3>2. u[i + (k - i)] = s[(k - i) + j - 1]
      BY <1>9, <3>1
    <3> QED BY <2>1, <2>3, <3>1, <3>2
  <2> QED BY <2>2, <2>3
<1>11. ASSUME NEW k \in 1..Len(u), NEW l \in 1..Len(u), k < l PROVE f[k] < f[l]
  <2>1. /\ f[k] = IF k <= i THEN k ELSE k - i + j - 1
        /\ f[l] = IF l <= i THEN l ELSE l - i + j - 1
    OBVIOUS
  <2> HIDE DEF f
  <2> QED BY <1>3, <1>9, <1>11, <2>1
<1>12. Len(u) \in Nat /\ Len(u) <= n
  BY <1>3, <1>9
<1> HIDE DEF f
<1>13. Thins(u, s)
  BY <1>10, <1>11 DEF Thins, n
<1> QED BY <1>9, <1>12, <1>13 DEF n


(* Nothing to erase from.                                                  *)
LEMMA WithoutEmpty == \A B : Without(<<>>, B) = <<>>
<1>0. SUFFICES ASSUME NEW e, e = <<>>, NEW B PROVE Without(e, B) = <<>>
  OBVIOUS
<1>1. Len(e) = 0 /\ Len(e) \in Nat
  BY <1>0
<1>2. PICK h : /\ h = [n \in 0..Len(e) |->
                        IF n = 0 THEN <<>>
                          ELSE IF e[n] \in B THEN h[n - 1]
                                             ELSE Append(h[n - 1], e[n])]
               /\ Without(e, B) = h[Len(e)]
  BY <1>1, WithoutRecursion
<1>3. 0 \in 0..Len(e)
  BY <1>1
<1>4. h[0] = <<>>
  BY <1>2, <1>3
<1> QED BY <1>1, <1>2, <1>4

(* Erasing goes through the list from the front.                           *)
LEMMA WithoutAppend ==
  ASSUME NEW S, NEW s \in Seq(S), NEW x \in S, NEW G
  PROVE  Without(Append(s, x), G) =
           IF x \in G THEN Without(s, G) ELSE Append(Without(s, G), x)
<1> DEFINE t == Append(s, x)
<1>0. /\ Len(s) \in Nat /\ Len(t) = Len(s) + 1 /\ Len(t) \in Nat /\ t[Len(s) + 1] = x
      /\ \A i \in 1..Len(s) : t[i] = s[i]
  OBVIOUS
<1> HIDE DEF t
<1>1. PICK f : /\ f = [n \in 0..Len(s) |->
                        IF n = 0 THEN <<>>
                          ELSE IF s[n] \in G THEN f[n - 1]
                                             ELSE Append(f[n - 1], s[n])]
               /\ Without(s, G) = f[Len(s)]
  BY <1>0, WithoutRecursion
<1>2. PICK g : /\ g = [n \in 0..Len(t) |->
                        IF n = 0 THEN <<>>
                          ELSE IF t[n] \in G THEN g[n - 1]
                                             ELSE Append(g[n - 1], t[n])]
               /\ Without(t, G) = g[Len(t)]
  BY <1>0, WithoutRecursion
<1> DEFINE T == {n \in Nat : n <= Len(s) => f[n] = g[n]}
<1>3. 0 \in T
  BY <1>0, <1>1, <1>2
<1>4. ASSUME NEW n \in Nat, n \in T PROVE n + 1 \in T
  <2>1. SUFFICES ASSUME n + 1 <= Len(s) PROVE f[n + 1] = g[n + 1]
    OBVIOUS
  <2>2. /\ n + 1 \in 0..Len(s) /\ n + 1 \in 0..Len(t) /\ n + 1 # 0 /\ (n + 1) - 1 = n
        /\ t[n + 1] = s[n + 1]
    BY <1>0, <2>1
  <2>3. f[n] = g[n]
    BY <1>0, <1>4, <2>1
  <2>4. f[n + 1] = IF s[n + 1] \in G THEN f[n] ELSE Append(f[n], s[n + 1])
    BY <1>1, <2>2
  <2>5. g[n + 1] = IF t[n + 1] \in G THEN g[n] ELSE Append(g[n], t[n + 1])
    BY <1>2, <2>2
  <2> QED BY <2>2, <2>3, <2>4, <2>5
<1>5. Len(s) \in T
  <2> HIDE DEF T
  <2> QED BY <1>0, <1>3, <1>4, NatSet
<1>6. f[Len(s)] = g[Len(s)]
  BY <1>0, <1>5
<1>7. Len(t) \in 0..Len(t) /\ Len(t) # 0 /\ Len(t) - 1 = Len(s) /\ t[Len(t)] = x
  BY <1>0
<1>8. g[Len(t)] = IF x \in G THEN g[Len(s)] ELSE Append(g[Len(s)], x)
  BY <1>2, <1>7
<1>9. Without(t, G) = IF x \in G THEN Without(s, G) ELSE Append(Without(s, G), x)
  BY <1>1, <1>2, <1>6, <1>8
<1> QED BY <1>9 DEF t

(* Erasing in two rounds.                                                  *)
LEMMA WithoutTwice ==
  ASSUME NEW S, NEW s \in Seq(S), NEW A, NEW B
  PROVE  Without(Without(s, A), B) = Without(s, A \cup B)
<1>0. Len(s) \in Nat
  OBVIOUS
<1> DEFINE C == A \cup B
<1>1. PICK f : /\ f = [n \in 0..Len(s) |->
                        IF n = 0 THEN <<>>
                          ELSE IF s[n] \in A THEN f[n - 1]
                                             ELSE Append(f[n - 1], s[n])]
               /\ Without(s, A) = f[Len(s)]
  BY <1>0, WithoutRecursion
<1>9. \A y : y \in C <=> y \in A \/ y \in B
  OBVIOUS
<1> HIDE DEF C
<1>2. PICK g : /\ g = [n \in 0..Len(s) |->
                        IF n = 0 THEN <<>>
                          ELSE IF s[n] \in C THEN g[n - 1]
                                             ELSE Append(g[n - 1], s[n])]
               /\ Without(s, C) = g[Len(s)]
  BY <1>0, WithoutRecursion
<1> DEFINE T == {n \in Nat : n <= Len(s) => f[n] \in Seq(S) /\ Without(f[n], B) = g[n]}
<1>3. 0 \in T
  <2>1. f[0] = <<>> /\ g[0] = <<>>
    BY <1>0, <1>1, <1>2
  <2>2. Without(<<>>, B) = <<>>
    BY WithoutEmpty
  <2>3. <<>> \in Seq(S)
    OBVIOUS
  <2>4. f[0] \in Seq(S) /\ Without(f[0], B) = g[0]
    BY <2>1, <2>2, <2>3
  <2> QED BY <2>4
<1>4. ASSUME NEW n \in Nat, n \in T PROVE n + 1 \in T
  <2>1. SUFFICES ASSUME n + 1 <= Len(s)
                 PROVE  f[n + 1] \in Seq(S) /\ Without(f[n + 1], B) = g[n + 1]
    OBVIOUS
  <2>2. n + 1 \in 0..Len(s) /\ n + 1 # 0 /\ (n + 1) - 1 = n /\ s[n + 1] \in S
    BY <1>0, <2>1
  <2>3. f[n] \in Seq(S) /\ Without(f[n], B) = g[n]
    BY <1>0, <1>4, <2>1
  <2>4. f[n + 1] = IF s[n + 1] \in A THEN f[n] ELSE Append(f[n], s[n + 1])
    BY <1>1, <2>2
  <2>5. g[n + 1] = IF s[n + 1] \in C THEN g[n] ELSE Append(g[n], s[n + 1])
    BY <1>2, <2>2
  <2>6. Without(Append(f[n], s[n + 1]), B) =
          IF s[n + 1] \in B THEN Without(f[n], B) ELSE Append(Without(f[n], B), s[n + 1])
    <3>1. \A t \in Seq(S) : \A x \in S :
            Without(Append(t, x), B) =
              IF x \in B THEN Without(t, B) ELSE Append(Without(t, B), x)
      BY WithoutAppend
    <3> QED BY <2>2, <2>3, <3>1
  <2> QED BY <1>9, <2>2, <2>3, <2>4, <2>5, <2>6
<1>5. Len(s) \in T
  <2> HIDE DEF T
  <2> QED BY <1>0, <1>3, <1>4, NatSet
<1>6. Without(f[Len(s)], B) = g[Len(s)]
  BY <1>0, <1>5
<1>7. Without(Without(s, A), B) = Without(s, C)
  BY <1>1, <1>2, <1>6
<1> QED BY <1>7 DEF C

(* A list with entries erased is no longer.                                *)
LEMMA WithoutShorter ==
  ASSUME NEW S, NEW s \in Seq(S), NEW G
  PROVE  Len(Without(s, G)) <= Len(s)
<1> DEFINE w == Without(s, G)
<1>1. w \in Seq(S) /\ \A j \in 1..Len(w) : \E i \in 1..Len(s) : j <= i
  BY WithoutFacts
<1> HIDE DEF w
<1>2. Len(w) \in Nat /\ Len(s) \in Nat
  BY <1>1
<1>3. Len(w) = 0 => Len(w) <= Len(s)
  BY <1>2
<1>4. ASSUME Len(w) # 0 PROVE Len(w) <= Len(s)
  <2>1. Len(w) \in 1..Len(w)
    BY <1>2, <1>4
  <2>2. PICK i \in 1..Len(s) : Len(w) <= i
    BY <1>1, <2>1
  <2> QED BY <1>2, <2>2
<1> QED BY <1>3, <1>4 DEF w

(* A list whose entries have different keys is no longer than there are    *)
(* keys.                                                                   *)
LEMMA DistinctLength ==
  ASSUME NEW K, IsFiniteSet(K), NEW s, Len(s) \in Nat, NEW key,
         \A i \in 1..Len(s) : key[i] \in K,
         \A i, j \in 1..Len(s) : key[i] = key[j] => i = j
  PROVE  Len(s) <= Cardinality(K)
<1> DEFINE f == [i \in 1..Len(s) |-> key[i]]
<1>1. f \in Injection(1..Len(s), K)
  BY DEF Injection, IsInjective
<1>2. Cardinality(1..Len(s)) = Len(s)
  <2>1. Cardinality(1..Len(s)) = IF 1 > Len(s) THEN 0 ELSE Len(s) - 1 + 1
    BY FS_Interval
  <2> QED BY <2>1
<1>3. Cardinality(1..Len(s)) <= Cardinality(K)
  BY <1>1, FS_Injection
<1> QED BY <1>2, <1>3


(* A list of lists is flattened one after the other.                       *)
LEMMA FlattenSteps ==
  ASSUME NEW S, NEW s \in Seq(Seq(S)), Len(s) # 0
  PROVE  \E f : /\ FlattenSeq(s) = f[Len(s)]
                /\ \A n \in 1..Len(s) : f[n] = IF n = 1 THEN s[n] ELSE f[n - 1] \o s[n]
<1>0. Len(s) \in Nat /\ \A i \in 1..Len(s) : s[i] \in Seq(S)
  OBVIOUS
<1> DEFINE Step(f, n) == IF n = 1 THEN s[n] ELSE f[n - 1] \o s[n]
           T == {k \in Nat : k # 0 => \E f : f = [n \in 1..k |-> Step(f, n)]}
<1>1. 0 \in T
  OBVIOUS
<1>2. ASSUME NEW k \in Nat, k \in T PROVE k + 1 \in T
  <2>1. CASE k = 0
    <3>1. [n \in 1..1 |-> s[1]] = [n \in 1..1 |-> Step([m \in 1..1 |-> s[1]], n)]
      OBVIOUS
    <3> HIDE DEF Step
    <3>2. \E f : f = [n \in 1..1 |-> Step(f, n)]
      BY <3>1
    <3>3. k + 1 = 1
      BY <2>1
    <3>4. 1 \in T
      BY <3>2
    <3> HIDE DEF T
    <3> QED BY <3>3, <3>4
  <2>2. CASE k # 0
    <3>1. PICK f : f = [n \in 1..k |-> Step(f, n)]
      BY <1>2, <2>2
    <3>2. \A n \in 1..k : f[n] = Step(f, n)
      <4> HIDE DEF Step
      <4> QED BY <3>1
    <3> DEFINE g == [n \in 1..(k + 1) |-> IF n <= k THEN f[n] ELSE Step(f, n)]
    <3>3. ASSUME NEW n \in 1..(k + 1) PROVE g[n] = Step(g, n)
      <4>1. CASE n = 1
        BY <2>2, <3>2, <4>1
      <4>2. CASE n # 1
        <5>1. n - 1 \in 1..(k + 1) /\ n - 1 <= k
          BY <4>2
        <5>2. g[n - 1] = f[n - 1]
          BY <5>1
        <5>3. Step(g, n) = Step(f, n)
          <6> HIDE DEF g
          <6> QED BY <4>2, <5>2
        <5>4. n <= k => f[n] = Step(f, n)
          BY <3>2
        <5> QED BY <5>3, <5>4
      <4> QED BY <4>1, <4>2
    <3>4. g = [n \in 1..(k + 1) |-> Step(g, n)]
      BY <3>3
    <3>5. \E h : h = [n \in 1..(k + 1) |-> Step(h, n)]
      <4> HIDE DEF g, Step
      <4> QED BY <3>4
    <3> HIDE DEF Step
    <3> QED BY <3>5
  <2> QED BY <2>1, <2>2
<1>3. Len(s) \in T
  <2> HIDE DEF T
  <2> QED BY <1>0, <1>1, <1>2, NatSet
<1> DEFINE f == CHOOSE f : f = [n \in 1..Len(s) |-> Step(f, n)]
<1>4. f = [n \in 1..Len(s) |-> Step(f, n)]
  BY <1>2, <1>3
<1>5. FlattenSeq(s) = f[Len(s)]
  BY <1>2 DEF FlattenSeq
<1>6. \A n \in 1..Len(s) : f[n] = Step(f, n)
  <2> HIDE DEF f, Step
  <2> QED BY <1>4
<1>7. \A n \in 1..Len(s) : f[n] = IF n = 1 THEN s[n] ELSE f[n - 1] \o s[n]
  <2> HIDE DEF f
  <2> QED BY <1>6
<1> HIDE DEF f, Step
<1> QED BY <1>5, <1>7

(* What a flattened list of lists holds, when it is not empty.             *)
LEMMA FlattenSome ==
  ASSUME NEW S, NEW s \in Seq(Seq(S)), Len(s) # 0
  PROVE  /\ FlattenSeq(s) \in Seq(S)
         /\ \A x : x \in ToSet(FlattenSeq(s)) <=> \E i \in 1..Len(s) : x \in ToSet(s[i])
<1>0. Len(s) \in Nat /\ \A i \in 1..Len(s) : s[i] \in Seq(S)
  OBVIOUS
<1> DEFINE Step(g, n) == IF n = 1 THEN s[n] ELSE g[n - 1] \o s[n]
<1>5. PICK f : /\ FlattenSeq(s) = f[Len(s)]
               /\ \A n \in 1..Len(s) : f[n] = Step(f, n)
  BY FlattenSteps
<1>6. \A n \in 1..Len(s) : f[n] = Step(f, n)
  BY <1>5
<1>2. Len(s) # 0
  OBVIOUS
<1> DEFINE Good(n) == /\ f[n] \in Seq(S)
                      /\ \A x : x \in ToSet(f[n]) <=> \E i \in 1..n : x \in ToSet(s[i])
           U == {k \in Nat : k + 1 <= Len(s) => Good(k + 1)}
<1>7. 0 \in U
  <2>1. f[1] = s[1] /\ s[1] \in Seq(S)
    BY <1>0, <1>2, <1>6
  <2>2. \A i \in 1..1 : i = 1
    OBVIOUS
  <2>3. 1 \in 1..1
    OBVIOUS
  <2>4. Good(1)
    BY <2>1, <2>2, <2>3
  <2> HIDE DEF Good
  <2> QED BY <2>4
<1>8. ASSUME NEW k \in Nat, k \in U PROVE k + 1 \in U
  <2>1. SUFFICES ASSUME (k + 1) + 1 <= Len(s) PROVE Good((k + 1) + 1)
    <3> HIDE DEF Good
    <3> QED OBVIOUS
  <2>2. Good(k + 1)
    <3> HIDE DEF Good
    <3> QED BY <1>0, <1>8, <2>1
  <2> DEFINE n == k + 1
  <2>3. /\ n \in 1..Len(s) /\ n + 1 \in 1..Len(s) /\ n + 1 # 1 /\ (n + 1) - 1 = n
        /\ n \in Nat
    BY <1>0, <2>1
  <2> HIDE DEF n
  <2>4. f[n + 1] = f[n] \o s[n + 1] /\ s[n + 1] \in Seq(S)
    BY <1>0, <1>6, <2>3
  <2>5. f[n] \in Seq(S) /\ \A x : x \in ToSet(f[n]) <=> \E i \in 1..n : x \in ToSet(s[i])
    BY <2>2 DEF n
  <2>6. f[n + 1] \in Seq(S) /\ ToSet(f[n + 1]) = ToSet(f[n]) \cup ToSet(s[n + 1])
    BY <2>4, <2>5, ConcatList
  <2>7. \A i : i \in 1..(n + 1) <=> i \in 1..n \/ i = n + 1
    BY <2>3
  <2>8. \A x : x \in ToSet(f[n + 1]) <=> \E i \in 1..(n + 1) : x \in ToSet(s[i])
    BY <2>5, <2>6, <2>7
  <2> QED BY <2>6, <2>8 DEF n
<1>9. Len(s) - 1 \in Nat /\ (Len(s) - 1) + 1 = Len(s)
  BY <1>0, <1>2
<1>10. Len(s) - 1 \in U
  <2> HIDE DEF U
  <2> QED BY <1>7, <1>8, <1>9, NatSet
<1>11. Good(Len(s))
  <2> HIDE DEF Good
  <2> QED BY <1>9, <1>10
<1> QED BY <1>5, <1>11

(* What a flattened list of lists holds.                                   *)
LEMMA FlattenMembers ==
  ASSUME NEW S, NEW s \in Seq(Seq(S))
  PROVE  /\ FlattenSeq(s) \in Seq(S)
         /\ \A x : x \in ToSet(FlattenSeq(s)) <=> \E i \in 1..Len(s) : x \in ToSet(s[i])
<1> DEFINE Goal == /\ FlattenSeq(s) \in Seq(S)
                   /\ \A x : x \in ToSet(FlattenSeq(s)) <=> \E i \in 1..Len(s) : x \in ToSet(s[i])
<1>1. ASSUME Len(s) = 0 PROVE Goal
  <2>1. FlattenSeq(s) = s
    BY <1>1 DEF FlattenSeq
  <2>2. s = <<>>
    BY <1>1
  <2>3. <<>> \in Seq(S) /\ ToSet(<<>>) = {}
    BY DEF ToSet
  <2> QED BY <1>1, <2>1, <2>2, <2>3
<1>2. ASSUME Len(s) # 0 PROVE Goal
  BY <1>2, FlattenSome
<1> HIDE DEF Goal
<1>3. Goal
  BY <1>1, <1>2
<1> QED BY <1>3 DEF Goal

(* Where the lists stand in the list they are flattened to.                *)
LEMMA FlattenLayout ==
  ASSUME NEW S, NEW s \in Seq(Seq(S))
  PROVE  \E off \in [0..Len(s) -> Nat] :
           /\ off[0] = 0 /\ Len(FlattenSeq(s)) = off[Len(s)]
           /\ \A i \in 1..Len(s) :
                /\ off[i] = off[i - 1] + Len(s[i])
                /\ \A k \in 1..Len(s[i]) : /\ off[i - 1] + k <= Len(FlattenSeq(s))
                                           /\ FlattenSeq(s)[off[i - 1] + k] = s[i][k]
<1>0. Len(s) \in Nat /\ \A i \in 1..Len(s) : s[i] \in Seq(S) /\ Len(s[i]) \in Nat
  OBVIOUS
<1>1. CASE Len(s) = 0
  <2>1. FlattenSeq(s) = s
    BY <1>1 DEF FlattenSeq
  <2> DEFINE off == [n \in 0..Len(s) |-> 0]
  <2>2. off \in [0..Len(s) -> Nat] /\ off[0] = 0 /\ off[Len(s)] = 0 /\ 1..Len(s) = {}
    BY <1>1
  <2> HIDE DEF off
  <2> QED BY <1>1, <2>1, <2>2
<1>2. CASE Len(s) # 0
  <2>1. PICK f : /\ FlattenSeq(s) = f[Len(s)]
                 /\ \A n \in 1..Len(s) : f[n] = IF n = 1 THEN s[n] ELSE f[n - 1] \o s[n]
    BY <1>2, FlattenSteps
  <2> DEFINE off == [n \in 0..Len(s) |-> IF n = 0 THEN 0 ELSE Len(f[n])]
             Placed(n) == \A i \in 1..n : \A k \in 1..Len(s[i]) :
                            off[i - 1] + k \in 1..Len(f[n]) /\ f[n][off[i - 1] + k] = s[i][k]
             Good(n) == f[n] \in Seq(S) /\ off[n] = off[n - 1] + Len(s[n]) /\ Placed(n)
             T == {k \in Nat : k + 1 <= Len(s) => Good(k + 1)}
  <2>2. off[0] = 0 /\ \A n \in 1..Len(s) : off[n] = Len(f[n])
    BY <1>0
  <2> HIDE DEF off
  <2>3. 0 \in T
    <3>1. f[1] = s[1] /\ s[1] \in Seq(S) /\ off[1] = Len(s[1]) /\ Len(s[1]) \in Nat /\ off[0] = 0
      BY <1>0, <1>2, <2>1, <2>2
    <3>2. Placed(1)
      <4>1. SUFFICES ASSUME NEW i \in 1..1, NEW k \in 1..Len(s[i])
                     PROVE  off[i - 1] + k \in 1..Len(f[1]) /\ f[1][off[i - 1] + k] = s[i][k]
        OBVIOUS
      <4>2. i = 1 /\ off[i - 1] = 0 /\ 0 + k = k
        BY <3>1
      <4> QED BY <3>1, <4>2
    <3>3. off[1] = off[1 - 1] + Len(s[1])
      BY <3>1
    <3> HIDE DEF Placed
    <3>4. Good(1)
      BY <3>1, <3>2, <3>3
    <3> HIDE DEF Good
    <3> QED BY <3>4
  <2>4. ASSUME NEW k \in Nat, k \in T PROVE k + 1 \in T
    <3>1. SUFFICES ASSUME (k + 1) + 1 <= Len(s) PROVE Good((k + 1) + 1)
      <4> HIDE DEF Good
      <4> QED OBVIOUS
    <3>2. Good(k + 1)
      <4> HIDE DEF Good
      <4> QED BY <1>0, <2>4, <3>1
    <3> DEFINE n == k + 1
    <3>3. /\ n \in 1..Len(s) /\ n + 1 \in 1..Len(s) /\ n + 1 # 1 /\ (n + 1) - 1 = n
          /\ n \in Nat
      BY <1>0, <3>1
    <3>4. f[n] \in Seq(S) /\ Placed(n)
      <4> HIDE DEF Placed
      <4> QED BY <3>2
    <3> HIDE DEF n
    <3>5. f[n + 1] = f[n] \o s[n + 1] /\ s[n + 1] \in Seq(S)
      BY <1>0, <2>1, <3>3
    <3>6. /\ f[n + 1] \in Seq(S) /\ Len(f[n + 1]) = Len(f[n]) + Len(s[n + 1])
          /\ \A j \in 1..Len(f[n]) : f[n + 1][j] = f[n][j]
          /\ \A j \in 1..Len(s[n + 1]) : f[n + 1][Len(f[n]) + j] = s[n + 1][j]
      <4> HIDE DEF Placed
      <4>1. f[n] \in Seq(S) /\ s[n + 1] \in Seq(S)
        BY <3>4, <3>5
      <4> DEFINE a == f[n]
                 b == s[n + 1]
      <4>2. a \in Seq(S) /\ b \in Seq(S) /\ f[n + 1] = a \o b
        BY <4>1, <3>5
      <4> HIDE DEF a, b
      <4>3. /\ a \o b \in Seq(S) /\ Len(a \o b) = Len(a) + Len(b)
            /\ \A j \in 1..Len(a) : (a \o b)[j] = a[j]
            /\ \A j \in 1..Len(b) : (a \o b)[Len(a) + j] = b[j]
        BY <4>2, ConcatList
      <4> QED BY <4>2, <4>3 DEF a, b
    <3>7. off[n] = Len(f[n]) /\ off[n + 1] = Len(f[n + 1]) /\ Len(f[n]) \in Nat /\ Len(f[n + 1]) \in Nat
          /\ Len(s[n + 1]) \in Nat
      <4> HIDE DEF Placed
      <4>1. Len(f[n]) \in Nat /\ Len(f[n + 1]) \in Nat /\ Len(s[n + 1]) \in Nat
        <5>1. \A l \in Seq(S) : Len(l) \in Nat
          OBVIOUS
        <5>2. f[n] \in Seq(S) /\ f[n + 1] \in Seq(S) /\ s[n + 1] \in Seq(S)
          BY <3>4, <3>5, <3>6
        <5> QED BY <5>1, <5>2
      <4> QED BY <2>2, <3>3, <4>1
    <3>8. Placed(n + 1)
      <4>1. SUFFICES ASSUME NEW i \in 1..(n + 1), NEW j \in 1..Len(s[i])
                     PROVE  off[i - 1] + j \in 1..Len(f[n + 1]) /\ f[n + 1][off[i - 1] + j] = s[i][j]
        OBVIOUS
      <4>2. CASE i = n + 1
        <5>1. i - 1 = n
          BY <3>3, <4>2
        <5>2. j \in 1..Len(s[n + 1]) /\ off[i - 1] = Len(f[n]) /\ s[i] = s[n + 1]
          BY <3>7, <4>2, <5>1
        <5>3. f[n + 1][Len(f[n]) + j] = s[n + 1][j]
          BY <3>6, <5>2
        <5>4. Len(f[n]) + j \in 1..Len(f[n + 1])
          <6>1. \A x, y \in Nat : \A z : z \in 1..y => x + z \in 1..(x + y)
            OBVIOUS
          <6> HIDE DEF Placed
          <6>2. Len(f[n + 1]) = Len(f[n]) + Len(s[n + 1])
            BY <3>6
          <6> QED BY <3>7, <5>2, <6>1, <6>2
        <5> QED BY <5>2, <5>3, <5>4
      <4>3. CASE i # n + 1
        <5>1. i \in 1..n
          BY <3>3, <4>3
        <5>2. off[i - 1] + j \in 1..Len(f[n]) /\ f[n][off[i - 1] + j] = s[i][j]
          BY <3>4, <5>1
        <5>3. f[n + 1][off[i - 1] + j] = f[n][off[i - 1] + j]
          BY <3>6, <5>2
        <5>4. off[i - 1] + j \in 1..Len(f[n + 1])
          <6>1. \A x, y \in Nat : \A z : z \in 1..x => z \in 1..(x + y)
            OBVIOUS
          <6> HIDE DEF Placed
          <6>2. Len(f[n + 1]) = Len(f[n]) + Len(s[n + 1])
            BY <3>6
          <6> QED BY <3>7, <5>2, <6>1, <6>2
        <5> QED BY <5>2, <5>3, <5>4
      <4> QED BY <4>2, <4>3
    <3> HIDE DEF Placed
    <3>9. Good(n + 1)
      BY <3>3, <3>6, <3>7, <3>8
    <3> HIDE DEF Good
    <3> QED BY <3>9 DEF n
  <2>5. \A n \in 1..Len(s) : Good(n)
    <3> HIDE DEF Good
    <3>1. \A k \in Nat : k \in T
      <4> HIDE DEF T
      <4> QED BY <2>3, <2>4, NatSet
    <3>2. ASSUME NEW n \in 1..Len(s) PROVE n - 1 \in Nat /\ (n - 1) + 1 = n /\ n <= Len(s)
      BY <1>0
    <3> QED BY <3>1, <3>2
  <2>6. off \in [0..Len(s) -> Nat]
    <3>1. \A n \in 1..Len(s) : Len(f[n]) \in Nat
      BY <2>5
    <3> QED BY <1>0, <3>1 DEF off
  <2>7. Len(s) \in 1..Len(s)
    BY <1>0, <1>2
  <2>8. /\ FlattenSeq(s) = f[Len(s)] /\ Len(FlattenSeq(s)) = off[Len(s)] /\ f[Len(s)] \in Seq(S)
        /\ Placed(Len(s))
    <3> HIDE DEF Placed
    <3> QED BY <2>1, <2>2, <2>5, <2>7
  <2>9. ASSUME NEW i \in 1..Len(s)
        PROVE  /\ off[i] = off[i - 1] + Len(s[i])
               /\ \A k \in 1..Len(s[i]) : /\ off[i - 1] + k <= Len(FlattenSeq(s))
                                          /\ FlattenSeq(s)[off[i - 1] + k] = s[i][k]
    <3>1. off[i] = off[i - 1] + Len(s[i])
      BY <2>5
    <3> QED BY <2>8, <3>1
  <2> QED BY <2>2, <2>6, <2>8, <2>9
<1> QED BY <1>1, <1>2

(* A list of one entry.                                                    *)
LEMMA OneItem ==
  ASSUME NEW x
  PROVE  ToSet(<<x>>) = {x} /\ \A S : x \in S => <<x>> \in Seq(S)
BY DEF ToSet

(* A list of items, one for each entry of another list.                    *)
LEMMA ItemList ==
  ASSUME NEW E, NEW l \in Seq(E), NEW f
  PROVE  LET m == [i \in 1..Len(l) |-> f[l[i]]] IN
         m \in Seq({f[e] : e \in ToSet(l)}) /\ ToSet(m) = {f[e] : e \in ToSet(l)}
<1> DEFINE m == [i \in 1..Len(l) |-> f[l[i]]]
           F == {f[e] : e \in ToSet(l)}
<1>1. Len(l) \in Nat /\ \A i \in 1..Len(l) : l[i] \in ToSet(l)
  BY ListSet
<1>2. \A i \in 1..Len(l) : m[i] \in F
  BY <1>1
<1>3. m \in Seq(F) /\ Len(m) = Len(l)
  <2> HIDE DEF F
  <2> QED BY <1>1, <1>2
<1>4. \A i \in 1..Len(l) : m[i] = f[l[i]]
  OBVIOUS
<1> HIDE DEF m
<1>5. \A y \in F : y \in ToSet(m)
  <2>1. SUFFICES ASSUME NEW e \in ToSet(l) PROVE f[e] \in ToSet(m)
    OBVIOUS
  <2>2. PICK i \in 1..Len(l) : e = l[i]
    BY ListSet
  <2>3. m[i] \in ToSet(m)
    BY <1>3, ListSet
  <2> QED BY <1>4, <2>2, <2>3
<1>6. ToSet(m) \subseteq F
  <2> HIDE DEF F
  <2> QED BY <1>3, ListSet
<1> HIDE DEF F
<1>7. ToSet(m) = F
  BY <1>5, <1>6
<1> QED BY <1>3, <1>7 DEF m, F

-----------------------------------------------------------------------------
(* Replaying updates.                                                      *)

(* Replaying nothing changes nothing.                                      *)
LEMMA ReplayNothing ==
  ASSUME NEW c, NEW u, NEW i \in Nat
  PROVE  Replayed(c, u, i, i) = c
BY DEF Replayed

(* An update adds its item or removes it, never both.                      *)
LEMMA AddsOrRemoves ==
  ASSUME NEW m, NEW x
  PROVE  ~ (Adds(m, x) /\ Removes(m, x))
BY DEF Adds, Removes, AddKinds, RmKinds

(* The closed form follows the loop of present(): one more update replayed *)
(* is one more application.                                                *)
LEMMA ReplayStep ==
  ASSUME NEW c, NEW u, NEW i \in Nat, NEW n \in Nat, i <= n
  PROVE  Replayed(c, u, i, n + 1) = Apply(Replayed(c, u, i, n), u[n + 1])
<1> DEFINE m == u[n + 1]
           old == Replayed(c, u, i, n)
           new == Replayed(c, u, i, n + 1)
<1>1. (i+1)..(n+1) = ((i+1)..n) \cup {n+1}
  OBVIOUS
<1>2. \A k \in (i+1)..n : (k+1)..(n+1) = ((k+1)..n) \cup {n+1}
  OBVIOUS
<1>3. ((n+1)+1)..(n+1) = {}
  OBVIOUS
<1>4. \A x : x \in old <=>
         \/ x \in c /\ \A k \in (i+1)..n : ~ Removes(u[k], x)
         \/ \E k \in (i+1)..n : /\ Adds(u[k], x)
                                /\ \A j \in (k+1)..n : ~ Removes(u[j], x)
  BY DEF Replayed, Adds
<1>5. \A x : x \in new <=>
         \/ x \in c /\ \A k \in (i+1)..(n+1) : ~ Removes(u[k], x)
         \/ \E k \in (i+1)..(n+1) : /\ Adds(u[k], x)
                                    /\ \A j \in (k+1)..(n+1) : ~ Removes(u[j], x)
  BY DEF Replayed, Adds
<1> HIDE DEF old, new
<1>6. \A x : x \in new <=> Adds(m, x) \/ (x \in old /\ ~ Removes(m, x))
  <2> TAKE x
  <2>1. ASSUME x \in new PROVE Adds(m, x) \/ (x \in old /\ ~ Removes(m, x))
    <3>1. CASE x \in c /\ \A k \in (i+1)..(n+1) : ~ Removes(u[k], x)
      BY <3>1, <1>1, <1>4
    <3>2. CASE \E k \in (i+1)..(n+1) : /\ Adds(u[k], x)
                                       /\ \A j \in (k+1)..(n+1) : ~ Removes(u[j], x)
      <4>1. PICK k \in (i+1)..(n+1) : /\ Adds(u[k], x)
                                      /\ \A j \in (k+1)..(n+1) : ~ Removes(u[j], x)
        BY <3>2
      <4>2. CASE k = n + 1
        BY <4>1, <4>2
      <4>3. CASE k \in (i+1)..n
        BY <4>1, <4>3, <1>2, <1>4
      <4> QED BY <4>1, <4>2, <4>3, <1>1
    <3> QED BY <2>1, <3>1, <3>2, <1>5
  <2>2. ASSUME Adds(m, x) PROVE x \in new
    <3>1. n + 1 \in (i+1)..(n+1)
      OBVIOUS
    <3> QED BY <2>2, <3>1, <1>3, <1>5
  <2>3. ASSUME x \in old, ~ Removes(m, x) PROVE x \in new
    <3>1. CASE x \in c /\ \A k \in (i+1)..n : ~ Removes(u[k], x)
      BY <2>3, <3>1, <1>1, <1>5
    <3>2. CASE \E k \in (i+1)..n : /\ Adds(u[k], x)
                                   /\ \A j \in (k+1)..n : ~ Removes(u[j], x)
      <4>1. PICK k \in (i+1)..n : /\ Adds(u[k], x)
                                  /\ \A j \in (k+1)..n : ~ Removes(u[j], x)
        BY <3>2
      <4>2. \A j \in (k+1)..(n+1) : ~ Removes(u[j], x)
        BY <4>1, <1>2, <2>3
      <4> QED BY <4>1, <4>2, <1>1, <1>5
    <3> QED BY <2>3, <3>1, <3>2, <1>4
  <2> QED BY <2>1, <2>2, <2>3
<1>7. \A x : x \in Apply(old, m) <=> Adds(m, x) \/ (x \in old /\ ~ Removes(m, x))
  BY DEF Apply, Adds, Removes, AddKinds, RmKinds
<1>8. new = Apply(old, m)
  <2>1. \A x : x \in new <=> x \in Apply(old, m)
    BY <1>6, <1>7
  <2> QED BY <2>1
<1> QED BY <1>8 DEF old, new

(* If every update turns the content before it into the content after it,  *)
(* then replaying the updates on the first content yields the last one:    *)
(* the product of a sync is a state the region was in.                     *)
THEOREM ReplayExact ==
  ASSUME NEW u, NEW h, NEW i \in Nat, NEW n \in Nat, i <= n,
         \A k \in (i+1)..n : h[k] = Apply(h[k - 1], u[k])
  PROVE  Replayed(h[i], u, i, n) = h[n]
<1> DEFINE S == {d \in Nat : i + d <= n => Replayed(h[i], u, i, i + d) = h[i + d]}
<1>1. 0 \in S
  BY ReplayNothing
<1>2. ASSUME NEW d \in S PROVE d + 1 \in S
  <2>1. SUFFICES ASSUME i + (d + 1) <= n
                 PROVE  Replayed(h[i], u, i, i + (d + 1)) = h[i + (d + 1)]
    OBVIOUS
  <2>2. /\ i + d \in Nat /\ i <= i + d /\ i + d <= n
        /\ (i + d) + 1 = i + (d + 1)
        /\ i + (d + 1) \in (i+1)..n
        /\ (i + (d + 1)) - 1 = i + d
    BY <2>1
  <2>3. Replayed(h[i], u, i, i + d) = h[i + d]
    BY <2>2
  <2>4. Replayed(h[i], u, i, (i + d) + 1) = Apply(h[i + d], u[(i + d) + 1])
    <3> DEFINE e == i + d
    <3>1. e \in Nat /\ i <= e
      BY <2>2
    <3> HIDE DEF e
    <3>2. Replayed(h[i], u, i, e + 1) = Apply(Replayed(h[i], u, i, e), u[e + 1])
      BY <3>1, ReplayStep
    <3> QED BY <3>2, <2>3 DEF e
  <2>5. h[i + (d + 1)] = Apply(h[i + d], u[i + (d + 1)])
    BY <2>2
  <2> QED BY <2>2, <2>4, <2>5
<1>3. S = Nat
  <2>1. S \subseteq Nat
    OBVIOUS
  <2> HIDE DEF S
  <2>2. \A d \in Nat : d \in S => d + 1 \in S
    BY <1>2
  <2>3. \A d \in Nat : d \in S
    BY <1>1, <2>2, NatSet
  <2> QED BY <2>1, <2>3
<1>4. n - i \in Nat /\ i + (n - i) = n
  OBVIOUS
<1>5. n - i \in S
  BY <1>3, <1>4
<1> QED BY <1>4, <1>5

(* A replayed content holds only what was in the snapshot or was added.    *)
LEMMA ReplayOrigin ==
  ASSUME NEW c, NEW u, NEW i, NEW n, NEW x \in Replayed(c, u, i, n)
  PROVE  x \in c \/ \E k \in (i+1)..n : Adds(u[k], x)
BY DEF Replayed
=============================================================================

--------------------------- MODULE SubCacherProofs ---------------------------
(***************************************************************************)
(* The loop of RegionSubCacher::present computes the closed forms of       *)
(* SyncReplay, for every snapshot and every cache, and leaves the lists of *)
(* the product in the order of the last publication.                       *)
(*                                                                         *)
(* The invariant follows the loop: what is taken is a prefix of what was   *)
(* cached; before the match no update has the snapshot's version; behind   *)
(* it the product is the snapshot with the updates taken so far replayed,  *)
(* and each of its lists is ordered by them.                               *)
(***************************************************************************)
EXTENDS SubCacher, OperatorLemmas

(* The lists of a product.                                                 *)
Listed(prod) == prod.services \in Orders(Services) /\ prod.payloads \in Orders(Payloads)

(* How many updates present() has taken.                                   *)
Taken == Len(cached) - Len(m_updates)

Typed ==
  /\ version \in 0..MaxVersion
  /\ snapshot \subseteq Services \cup Payloads
  /\ cached \in Seq(Updates)
  /\ m_updates \in Seq(Updates)
  /\ Len(m_updates) <= Len(cached)
  /\ product.version \in 0..MaxVersion
  /\ Listed(product)
  /\ expect \in 0..(MaxVersion + 1)
  /\ stage \in {"find", "replay", "presented", "failed"}

(* What is left is the end of what was cached; one that fails drops it.    *)
Suffix ==
  stage # "failed" =>
    \A k \in 1..Len(m_updates) : m_updates[k] = cached[Taken + k]

(* The first loop has seen nothing with the snapshot's version, and the    *)
(* product is what the snapshot made it.                                   *)
Searching ==
  stage = "find" =>
    /\ \A k \in 1..Taken : cached[k].ver # version
    /\ Content(product) = snapshot
    /\ product.version = version

(* The second loop, behind the match i: n updates are taken.               *)
Behind(i, n) ==
  /\ FirstMatch(cached, version, i)
  /\ i <= n
  /\ \A k \in (i+1)..n : cached[k].ver = version + (k - i)
  /\ expect = version + (n - i) + 1
  /\ product.version = version + (n - i)
  /\ Content(product) = Replayed(snapshot, cached, i, n)

(* In list, what the updates u[i+1], ..., u[n] add stands in the order of  *)
(* the last of them: behind an entry stand only those added after it.      *)
Ordered(u, list, i, n) ==
  \A j, k \in 1..Len(list) : j < k =>
    \A a \in (i+1)..n : Adds(u[a], list[j]) =>
      \E b \in (i+1)..n : a < b /\ Adds(u[b], list[k])

Replaying ==
  stage \in {"replay", "presented"} =>
    \E i \in 1..Len(cached) :
      /\ Behind(i, Taken)
      /\ Ordered(cached, product.services, i, Taken)
      /\ Ordered(cached, product.payloads, i, Taken)

Returned ==
  /\ stage = "presented" => m_updates = <<>>
  /\ stage = "failed" => ~ Presents(cached, version)

SubInv == Typed /\ Suffix /\ Searching /\ Replaying /\ Returned

-----------------------------------------------------------------------------
(* Lists without a name twice.                                             *)
Once(list) == \A j, k \in 1..Len(list) : list[j] = list[k] => j = k

LEMMA OrdersAreLists ==
  ASSUME NEW S, IsFiniteSet(S), NEW list \in Orders(S)
  PROVE  list \in Seq(S) /\ Once(list)
<1>1. PICK T \in SUBSET S : list \in SetToSeqs(T)
  BY DEF Orders
<1>2. /\ list \in [1..Cardinality(T) -> T]
      /\ \A i, j \in 1..Cardinality(T) : i # j => list[i] # list[j]
  BY <1>1 DEF SetToSeqs
<1>3. Cardinality(T) \in Nat
  BY FS_Subset, FS_CardinalityType
<1>4. list \in Seq(T) /\ Len(list) = Cardinality(T)
  BY <1>2, <1>3
<1>5. list \in Seq(S)
  BY <1>4
<1> QED BY <1>2, <1>4, <1>5 DEF Once

LEMMA ListsAreOrders ==
  ASSUME NEW S, IsFiniteSet(S), NEW list \in Seq(S), Once(list)
  PROVE  list \in Orders(S)
<1> DEFINE T == ToSet(list)
           D == 1..Len(list)
<1>1. /\ Len(list) \in Nat /\ T \subseteq S
      /\ \A i \in D : list[i] \in T
      /\ \A x \in T : \E i \in D : x = list[i]
  BY ListSet
<1>2. list \in [D -> T]
  BY <1>1
<1>3. IsFiniteSet(T)
  BY <1>1, FS_Subset
<1> HIDE DEF T
<1>4. list \in Injection(D, T)
  BY <1>2 DEF Injection, IsInjective, Once
<1>5. list \in Surjection(D, T)
  BY <1>1, <1>2 DEF Surjection
<1>6. Cardinality(D) = Cardinality(T)
  BY <1>3, <1>4, <1>5, FS_Injection
<1>7. Cardinality(D) = Len(list)
  <2>1. Cardinality(1..Len(list)) = IF 1 > Len(list) THEN 0 ELSE Len(list) - 1 + 1
    BY <1>1, FS_Interval
  <2> QED BY <1>1, <2>1
<1>8. Cardinality(T) = Len(list)
  BY <1>6, <1>7
<1>9. list \in SetToSeqs(T)
  BY <1>2, <1>8 DEF SetToSeqs, Once
<1> QED BY <1>1, <1>9 DEF Orders

(* A name erased, ...                                                      *)
LEMMA ErasedList ==
  ASSUME NEW S, IsFiniteSet(S), NEW list \in Orders(S), NEW x
  PROVE  /\ Without(list, {x}) \in Orders(S)
         /\ Elements(Without(list, {x})) = Elements(list) \ {x}
<1> DEFINE w == Without(list, {x})
           key == [y \in S |-> y]
<1>1. list \in Seq(S) /\ Once(list)
  BY OrdersAreLists
<1>2. w \in Seq(S) /\ ToSet(w) = ToSet(list) \ {x}
  BY <1>1, WithoutList
<1>3. \A i, h \in 1..Len(list) : key[list[i]] = key[list[h]] => i = h
  BY <1>1 DEF Once
<1>4. \A j, k \in 1..Len(w) : key[w[j]] = key[w[k]] => j = k
  <2> HIDE DEF key
  <2> QED BY <1>1, <1>3, WithoutDistinct
<1> HIDE DEF w
<1>5. Once(w)
  BY <1>2, <1>4 DEF Once
<1>6. w \in Orders(S)
  BY <1>2, <1>5, ListsAreOrders
<1>7. ToSet(w) = Elements(w) /\ ToSet(list) = Elements(list)
  BY <1>1, <1>2 DEF ToSet, Elements
<1> QED BY <1>2, <1>6, <1>7 DEF w

(* ... and a name published.                                               *)
LEMMA TouchedList ==
  ASSUME NEW S, IsFiniteSet(S), NEW list \in Orders(S), NEW x \in S
  PROVE  /\ Touched(list, x) \in Orders(S)
         /\ Elements(Touched(list, x)) = Elements(list) \cup {x}
<1> DEFINE w == Without(list, {x})
           t == Append(w, x)
<1>1. w \in Orders(S) /\ Elements(w) = Elements(list) \ {x}
  BY ErasedList
<1> HIDE DEF w
<1>2. w \in Seq(S) /\ Once(w)
  BY <1>1, OrdersAreLists
<1>3. /\ t \in Seq(S) /\ Len(t) = Len(w) + 1 /\ Len(w) \in Nat
      /\ \A i \in 1..Len(w) : t[i] = w[i]
      /\ t[Len(w) + 1] = x
  BY <1>2, AppendList, ListSet
<1> HIDE DEF t
<1>4. \A i \in 1..Len(w) : w[i] # x
  BY <1>1 DEF Elements
<1>5. \A i \in 1..Len(t) : i \in 1..Len(w) \/ i = Len(w) + 1
  BY <1>3
<1>6. Once(t)
  <2>1. SUFFICES ASSUME NEW i \in 1..Len(t), NEW j \in 1..Len(t), t[i] = t[j]
                 PROVE  i = j
    BY DEF Once
  <2>2. CASE i \in 1..Len(w) /\ j \in 1..Len(w)
    BY <1>2, <1>3, <2>1, <2>2 DEF Once
  <2>3. CASE i = Len(w) + 1 \/ j = Len(w) + 1
    BY <1>3, <1>4, <1>5, <2>1, <2>3
  <2> QED BY <1>5, <2>2, <2>3
<1>7. \A y : y \in Elements(t) <=> y \in Elements(w) \/ y = x
  BY <1>3, <1>5 DEF Elements
<1>8. Elements(t) = Elements(list) \cup {x}
  <2>1. \A y : y \in Elements(t) <=> y \in Elements(list) \cup {x}
    BY <1>1, <1>7
  <2> QED BY <2>1
<1> QED BY <1>2, <1>3, <1>6, <1>8, ListsAreOrders DEF t, w, Touched
-----------------------------------------------------------------------------
(* Erasing a name keeps the order, ...                                     *)
LEMMA OrderedErased ==
  ASSUME NEW S, NEW list \in Seq(S), NEW u, NEW i \in Nat, NEW n \in Nat,
         Ordered(u, list, i, n), NEW x
  PROVE  Ordered(u, Without(list, {x}), i, n)
<1> DEFINE w == Without(list, {x})
<1>1. \A j, k \in 1..Len(w) : j < k =>
        \E f, h \in 1..Len(list) : f < h /\ w[j] = list[f] /\ w[k] = list[h]
  BY WithoutFacts
<1> HIDE DEF w
<1>2. ASSUME NEW j \in 1..Len(w), NEW k \in 1..Len(w), j < k,
             NEW a \in (i+1)..n, Adds(u[a], w[j])
      PROVE  \E b \in (i+1)..n : a < b /\ Adds(u[b], w[k])
  <2>1. PICK f \in 1..Len(list), h \in 1..Len(list) : f < h /\ w[j] = list[f] /\ w[k] = list[h]
    BY <1>1, <1>2
  <2>2. Adds(u[a], list[f])
    BY <1>2, <2>1
  <2>3. \E b \in (i+1)..n : a < b /\ Adds(u[b], list[h])
    BY <2>1, <2>2 DEF Ordered
  <2> QED BY <2>1, <2>3
<1>3. Ordered(u, w, i, n)
  BY <1>2 DEF Ordered
<1> QED BY <1>3 DEF w

(* ... so does an update that adds none of the names, ...                  *)
LEMMA OrderedLonger ==
  ASSUME NEW list, NEW u, NEW i \in Nat, NEW n \in Nat,
         Ordered(u, list, i, n), \A j \in 1..Len(list) : ~ Adds(u[n + 1], list[j])
  PROVE  Ordered(u, list, i, n + 1)
<1>1. \A a \in (i+1)..(n+1) : a \in (i+1)..n \/ a = n + 1
  OBVIOUS
<1>2. \A b \in (i+1)..n : b \in (i+1)..(n+1)
  OBVIOUS
<1>3. ASSUME NEW j \in 1..Len(list), NEW k \in 1..Len(list), j < k,
             NEW a \in (i+1)..(n+1), Adds(u[a], list[j])
      PROVE  \E b \in (i+1)..(n+1) : a < b /\ Adds(u[b], list[k])
  <2>1. a \in (i+1)..n
    BY <1>1, <1>3
  <2>2. \E b \in (i+1)..n : a < b /\ Adds(u[b], list[k])
    BY <1>3, <2>1 DEF Ordered
  <2> QED BY <1>2, <2>2
<1> QED BY <1>3 DEF Ordered

(* ... and one that adds a name puts it behind all the others.             *)
LEMMA OrderedTouched ==
  ASSUME NEW S, IsFiniteSet(S), NEW list \in Orders(S), NEW u, NEW i \in Nat, NEW n \in Nat,
         i <= n, Ordered(u, list, i, n), NEW x \in S, Adds(u[n + 1], x)
  PROVE  Ordered(u, Touched(list, x), i, n + 1)
<1> DEFINE w == Without(list, {x})
           t == Append(w, x)
<1>1. list \in Seq(S) /\ Ordered(u, w, i, n)
  BY OrdersAreLists, OrderedErased
<1>2. w \in Seq(S) /\ Elements(w) = Elements(list) \ {x}
  BY ErasedList, OrdersAreLists
<1> HIDE DEF w
<1>3. \A j \in 1..Len(w) : w[j] # x
  BY <1>2 DEF Elements
<1>4. \A j \in 1..Len(w) : ~ Adds(u[n + 1], w[j])
  BY <1>3 DEF Adds
<1>5. Ordered(u, w, i, n + 1)
  BY <1>1, <1>4, OrderedLonger
<1>6. /\ Len(t) = Len(w) + 1 /\ Len(w) \in Nat
      /\ \A j \in 1..Len(w) : t[j] = w[j]
      /\ t[Len(w) + 1] = x
  BY <1>2, AppendList, ListSet
<1> HIDE DEF t
<1>7. n + 1 \in (i+1)..(n+1) /\ \A a \in (i+1)..(n+1) : a = n + 1 \/ a < n + 1
  OBVIOUS
<1>8. ASSUME NEW j \in 1..Len(t), NEW k \in 1..Len(t), j < k,
             NEW a \in (i+1)..(n+1), Adds(u[a], t[j])
      PROVE  \E b \in (i+1)..(n+1) : a < b /\ Adds(u[b], t[k])
  <2>1. j \in 1..Len(w) /\ (k \in 1..Len(w) \/ k = Len(w) + 1)
    BY <1>6, <1>8
  <2>2. Adds(u[a], w[j])
    BY <1>6, <1>8, <2>1
  <2>3. CASE k \in 1..Len(w)
    BY <1>5, <1>6, <1>8, <2>1, <2>2, <2>3 DEF Ordered
  <2>4. CASE k = Len(w) + 1
    <3>1. a # n + 1
      BY <1>4, <2>1, <2>2
    <3>2. a < n + 1
      BY <1>7, <3>1
    <3> QED BY <1>6, <1>7, <2>4, <3>2
  <2> QED BY <2>1, <2>3, <2>4
<1>9. Ordered(u, t, i, n + 1)
  BY <1>8 DEF Ordered
<1> QED BY <1>9 DEF t, w, Touched

-----------------------------------------------------------------------------
LEMMA UpdateCases ==
  ASSUME NEW m \in Updates
  PROVE  /\ m.ver \in 0..MaxVersion
         /\ \/ m.kind = "region"
            \/ m.kind = "service" /\ m.item \in Services
            \/ m.kind = "rmservice" /\ m.item \in Services
            \/ m.kind = "payload" /\ m.item \in Payloads
            \/ m.kind = "rmpayload" /\ m.item \in Payloads
BY DEF Updates

(* What a product holds are names of the two sorts.                        *)
LEMMA ElementsTyped ==
  ASSUME NEW S, IsFiniteSet(S), NEW list \in Orders(S)
  PROVE  Elements(list) \subseteq S
<1>1. list \in Seq(S)
  BY OrdersAreLists
<1>2. \A k \in 1..Len(list) : list[k] \in S
  BY <1>1
<1> QED BY <1>2 DEF Elements

(* The handlers of RegionProduct apply an update to its content.           *)
LEMMA ObservedApplies ==
  ASSUME NEW prod, Listed(prod), NEW m \in Updates
  PROVE  /\ Observed(prod, m).version = m.ver
         /\ Listed(Observed(prod, m))
         /\ Content(Observed(prod, m)) = Apply(Content(prod), m)
<1> DEFINE o == Observed(prod, m)
           A == Elements(prod.services)
           B == Elements(prod.payloads)
           x == m.item
<1>0. IsFiniteSet(Services) /\ IsFiniteSet(Payloads) /\ Services \cap Payloads = {}
  BY BoundsAssumption
<1>1. A \subseteq Services /\ B \subseteq Payloads
  BY <1>0, ElementsTyped DEF Listed
<1>2. /\ o.version = m.ver
      /\ o.services = CASE m.kind = "service"   -> Touched(prod.services, x)
                        [] m.kind = "rmservice" -> Without(prod.services, {x})
                        [] OTHER                -> prod.services
      /\ o.payloads = CASE m.kind = "payload"   -> Touched(prod.payloads, x)
                        [] m.kind = "rmpayload" -> Without(prod.payloads, {x})
                        [] OTHER                -> prod.payloads
  BY DEF Observed
<1>3. Content(prod) = A \cup B /\ Content(o) = Elements(o.services) \cup Elements(o.payloads)
  BY DEF Content
<1>4. Apply(A \cup B, m) = IF m.kind \in {"service", "payload"} THEN A \cup B \cup {x}
                             ELSE IF m.kind \in {"rmservice", "rmpayload"} THEN (A \cup B) \ {x}
                             ELSE A \cup B
  BY DEF Apply, AddKinds, RmKinds
<1> HIDE DEF o
<1>5. CASE m.kind = "region"
  BY <1>2, <1>3, <1>4, <1>5 DEF Listed, o
<1>6. CASE m.kind = "service" /\ m.item \in Services
  <2>1. /\ o.services = Touched(prod.services, x) /\ o.payloads = prod.payloads
    BY <1>2, <1>6
  <2>2. o.services \in Orders(Services) /\ Elements(o.services) = A \cup {x}
    BY <1>0, <1>6, <2>1, TouchedList DEF Listed
  <2>3. Content(o) = (A \cup {x}) \cup B
    BY <1>3, <2>1, <2>2
  <2>4. (A \cup {x}) \cup B = (A \cup B) \cup {x}
    OBVIOUS
  <2> QED BY <1>2, <1>3, <1>4, <1>6, <2>1, <2>2, <2>3, <2>4 DEF Listed, o
<1>7. CASE m.kind = "rmservice" /\ m.item \in Services
  <2>1. /\ o.services = Without(prod.services, {x}) /\ o.payloads = prod.payloads
    BY <1>2, <1>7
  <2>2. o.services \in Orders(Services) /\ Elements(o.services) = A \ {x}
    <3>1. prod.services \in Orders(Services)
      BY DEF Listed
    <3>2. /\ Without(prod.services, {x}) \in Orders(Services)
          /\ Elements(Without(prod.services, {x})) = A \ {x}
      BY <1>0, <3>1, ErasedList
    <3> QED BY <2>1, <3>2
  <2>3. Content(o) = (A \ {x}) \cup B
    BY <1>3, <2>1, <2>2
  <2>4. x \notin B
    BY <1>0, <1>1, <1>7
  <2>5. (A \ {x}) \cup B = (A \cup B) \ {x}
    BY <2>4
  <2> QED BY <1>2, <1>3, <1>4, <1>7, <2>1, <2>2, <2>3, <2>5 DEF Listed, o
<1>8. CASE m.kind = "payload" /\ m.item \in Payloads
  <2>1. /\ o.payloads = Touched(prod.payloads, x) /\ o.services = prod.services
    BY <1>2, <1>8
  <2>2. o.payloads \in Orders(Payloads) /\ Elements(o.payloads) = B \cup {x}
    BY <1>0, <1>8, <2>1, TouchedList DEF Listed
  <2>3. Content(o) = A \cup (B \cup {x})
    BY <1>3, <2>1, <2>2
  <2>4. A \cup (B \cup {x}) = (A \cup B) \cup {x}
    OBVIOUS
  <2> QED BY <1>2, <1>3, <1>4, <1>8, <2>1, <2>2, <2>3, <2>4 DEF Listed, o
<1>9. CASE m.kind = "rmpayload" /\ m.item \in Payloads
  <2>1. /\ o.payloads = Without(prod.payloads, {x}) /\ o.services = prod.services
    BY <1>2, <1>9
  <2>2. o.payloads \in Orders(Payloads) /\ Elements(o.payloads) = B \ {x}
    <3>1. prod.payloads \in Orders(Payloads)
      BY DEF Listed
    <3>2. /\ Without(prod.payloads, {x}) \in Orders(Payloads)
          /\ Elements(Without(prod.payloads, {x})) = B \ {x}
      BY <1>0, <3>1, ErasedList
    <3> QED BY <2>1, <3>2
  <2>3. Content(o) = A \cup (B \ {x})
    BY <1>3, <2>1, <2>2
  <2>4. x \notin A
    BY <1>0, <1>1, <1>9
  <2>5. A \cup (B \ {x}) = (A \cup B) \ {x}
    BY <2>4
  <2> QED BY <1>2, <1>3, <1>4, <1>9, <2>1, <2>2, <2>3, <2>5 DEF Listed, o
<1> QED BY <1>5, <1>6, <1>7, <1>8, <1>9, UpdateCases DEF o

(* They keep the order of both lists.                                      *)
LEMMA ObservedOrdered ==
  ASSUME NEW prod, Listed(prod), NEW u, NEW i \in Nat, NEW n \in Nat, i <= n,
         u[n + 1] \in Updates,
         Ordered(u, prod.services, i, n), Ordered(u, prod.payloads, i, n)
  PROVE  /\ Ordered(u, Observed(prod, u[n + 1]).services, i, n + 1)
         /\ Ordered(u, Observed(prod, u[n + 1]).payloads, i, n + 1)
<1> DEFINE m == u[n + 1]
           o == Observed(prod, m)
           x == m.item
<1>0. IsFiniteSet(Services) /\ IsFiniteSet(Payloads) /\ Services \cap Payloads = {}
  BY BoundsAssumption
<1>1. /\ prod.services \in Orders(Services) /\ prod.payloads \in Orders(Payloads)
      /\ prod.services \in Seq(Services) /\ prod.payloads \in Seq(Payloads)
  BY <1>0, OrdersAreLists DEF Listed
<1>2. /\ o.services = CASE m.kind = "service"   -> Touched(prod.services, x)
                        [] m.kind = "rmservice" -> Without(prod.services, {x})
                        [] OTHER                -> prod.services
      /\ o.payloads = CASE m.kind = "payload"   -> Touched(prod.payloads, x)
                        [] m.kind = "rmpayload" -> Without(prod.payloads, {x})
                        [] OTHER                -> prod.payloads
  BY DEF Observed
<1>3. /\ \A y : Adds(m, y) => m.kind \in {"service", "payload"} /\ y = x
      /\ m.kind \in {"service", "payload"} => Adds(m, x)
  BY DEF Adds, AddKinds
<1>4. /\ Ordered(u, Without(prod.services, {x}), i, n)
      /\ Ordered(u, Without(prod.payloads, {x}), i, n)
  BY <1>1, OrderedErased
<1> HIDE DEF o
<1>5. ASSUME NEW list, Ordered(u, list, i, n), \A j \in 1..Len(list) : ~ Adds(m, list[j])
      PROVE  Ordered(u, list, i, n + 1)
  BY <1>5, OrderedLonger
<1>6. CASE m.kind \in {"region", "rmservice", "rmpayload"}
  <2>1. \A y : ~ Adds(m, y)
    BY <1>3, <1>6
  <2>2. \A list : Ordered(u, list, i, n) => Ordered(u, list, i, n + 1)
    BY <1>5, <2>1
  <2>3. /\ o.services = prod.services \/ o.services = Without(prod.services, {x})
        /\ o.payloads = prod.payloads \/ o.payloads = Without(prod.payloads, {x})
    BY <1>2, <1>6
  <2>4. Ordered(u, o.services, i, n + 1) /\ Ordered(u, o.payloads, i, n + 1)
    BY <1>4, <2>2, <2>3
  <2> QED BY <2>4 DEF o
<1>7. CASE m.kind = "service" /\ x \in Services
  <2>1. o.services = Touched(prod.services, x) /\ o.payloads = prod.payloads
    BY <1>2, <1>7
  <2>2. Ordered(u, Touched(prod.services, x), i, n + 1)
    BY <1>0, <1>1, <1>3, <1>7, OrderedTouched
  <2>3. \A j \in 1..Len(prod.payloads) : prod.payloads[j] # x
    BY <1>0, <1>1, <1>7
  <2>4. Ordered(u, prod.payloads, i, n + 1)
    BY <1>3, <1>5, <2>3
  <2> QED BY <2>1, <2>2, <2>4 DEF o
<1>8. CASE m.kind = "payload" /\ x \in Payloads
  <2>1. o.payloads = Touched(prod.payloads, x) /\ o.services = prod.services
    BY <1>2, <1>8
  <2>2. Ordered(u, Touched(prod.payloads, x), i, n + 1)
    BY <1>0, <1>1, <1>3, <1>8, OrderedTouched
  <2>3. \A j \in 1..Len(prod.services) : prod.services[j] # x
    BY <1>0, <1>1, <1>8
  <2>4. Ordered(u, prod.services, i, n + 1)
    BY <1>3, <1>5, <2>3
  <2> QED BY <2>1, <2>2, <2>4 DEF o
<1> QED BY <1>6, <1>7, <1>8, UpdateCases DEF o

-----------------------------------------------------------------------------
(* One update taken off the front.                                         *)
LEMMA TakeOne ==
  ASSUME Typed, Suffix, stage # "failed", m_updates # <<>>,
         m_updates' = Tail(m_updates), cached' = cached
  PROVE  /\ m_updates' \in Seq(Updates) /\ Len(m_updates') <= Len(cached)
         /\ Taken \in Nat /\ Taken' = Taken + 1 /\ Taken + 1 \in 1..Len(cached)
         /\ Head(m_updates) = cached[Taken + 1] /\ Head(m_updates) \in Updates
         /\ \A k \in 1..Len(m_updates') : m_updates'[k] = cached[Taken' + k]
<1>1. /\ m_updates \in Seq(Updates) /\ Len(m_updates) <= Len(cached)
      /\ Len(m_updates) \in Nat /\ Len(cached) \in Nat
  BY DEF Typed
<1>2. /\ m_updates' \in Seq(Updates) /\ Len(m_updates) >= 1
      /\ Len(m_updates') = Len(m_updates) - 1
      /\ Head(m_updates) = m_updates[1] /\ Head(m_updates) \in Updates
      /\ \A k \in 1..Len(m_updates') : k + 1 \in 1..Len(m_updates) /\ m_updates'[k] = m_updates[k + 1]
  BY <1>1, TailList
<1>3. Taken \in Nat /\ Taken' = Taken + 1 /\ Taken + 1 \in 1..Len(cached)
  BY <1>1, <1>2 DEF Taken
<1>4. \A k \in 1..Len(m_updates) : m_updates[k] = cached[Taken + k]
  BY DEF Suffix
<1>5. Head(m_updates) = cached[Taken + 1]
  BY <1>1, <1>2, <1>4
<1>6. ASSUME NEW k \in 1..Len(m_updates')
      PROVE  m_updates'[k] = cached[Taken' + k]
  <2>1. k + 1 \in 1..Len(m_updates) /\ m_updates'[k] = m_updates[k + 1]
    BY <1>2
  <2>2. m_updates[k + 1] = cached[Taken + (k + 1)]
    BY <1>4, <2>1
  <2>3. Taken + (k + 1) = Taken' + k
    BY <1>3
  <2> QED BY <2>1, <2>2, <2>3
<1> QED BY <1>1, <1>2, <1>3, <1>5, <1>6

LEMMA InitInv ==
  ASSUME Init PROVE SubInv
<1>0. MaxVersion \in Nat
  BY BoundsAssumption
<1>1. PICK services \in Orders(Services), payloads \in Orders(Payloads) :
        product = [version |-> version, services |-> services, payloads |-> payloads]
  BY DEF Init
<1>2. Listed(product) /\ product.version = version
  BY <1>1 DEF Listed
<1>3. PICK n \in 0..(MaxUpdates - 1), v \in 0..MaxVersion : \E rest \in [1..n -> Updates] :
        cached = <<[kind |-> "region", ver |-> v, item |-> NoItem]>> \o rest
  BY DEF Init
<1>4. PICK rest \in [1..n -> Updates] :
        cached = <<[kind |-> "region", ver |-> v, item |-> NoItem]>> \o rest
  BY <1>3
<1>5. cached \in Seq(Updates)
  <2>1. n \in Nat
    BY BoundsAssumption
  <2>2. rest \in Seq(Updates)
    BY <2>1
  <2>3. [kind |-> "region", ver |-> v, item |-> NoItem] \in Updates
    BY DEF Updates
  <2>4. <<[kind |-> "region", ver |-> v, item |-> NoItem]>> \in Seq(Updates)
    BY <2>3
  <2> QED BY <1>4, <2>2, <2>4
<1>6. /\ version \in 0..MaxVersion /\ snapshot = Content(product) /\ m_updates = cached
      /\ expect = 0 /\ stage = "find"
  BY DEF Init
<1>7. Taken = 0 /\ Len(cached) \in Nat
  BY <1>5, <1>6 DEF Taken
<1>8. snapshot \subseteq Services \cup Payloads
  <2>1. Elements(product.services) \subseteq Services /\ Elements(product.payloads) \subseteq Payloads
    BY <1>2, BoundsAssumption, ElementsTyped DEF Listed
  <2> QED BY <1>6, <2>1 DEF Content
<1>9. Typed
  BY <1>0, <1>2, <1>5, <1>6, <1>7, <1>8 DEF Typed
<1>10. Suffix /\ Searching /\ Replaying /\ Returned
  BY <1>2, <1>6, <1>7 DEF Suffix, Searching, Replaying, Returned
<1> QED BY <1>9, <1>10 DEF SubInv

LEMMA FindInv ==
  ASSUME SubInv, Find PROVE SubInv'
<1>1. Typed /\ Suffix /\ Searching
  BY DEF SubInv
<1>2. /\ stage = "find" /\ m_updates # <<>> /\ m_updates' = Tail(m_updates)
      /\ UNCHANGED <<version, snapshot, cached, product>>
  BY DEF Find
<1>3. /\ m_updates' \in Seq(Updates) /\ Len(m_updates') <= Len(cached)
      /\ Taken \in Nat /\ Taken' = Taken + 1 /\ Taken + 1 \in 1..Len(cached)
      /\ Head(m_updates) = cached[Taken + 1] /\ Head(m_updates) \in Updates
      /\ \A k \in 1..Len(m_updates') : m_updates'[k] = cached[Taken' + k]
  BY <1>1, <1>2, TakeOne
<1>4. /\ version \in 0..MaxVersion /\ MaxVersion \in Nat /\ expect \in 0..(MaxVersion + 1)
      /\ \A k \in 1..Taken : cached[k].ver # version
      /\ Content(product) = snapshot /\ product.version = version
  BY <1>1, <1>2, BoundsAssumption DEF Typed, Searching
<1>5. Suffix'
  BY <1>2, <1>3 DEF Suffix
<1>6. CASE Head(m_updates).ver = version
  <2>1. expect' = version + 1 /\ stage' = "replay"
    BY <1>6 DEF Find
  <2>2. Typed'
    BY <1>1, <1>2, <1>3, <1>4, <2>1 DEF Typed, Listed
  <2>0. PICK i \in 1..Len(cached) : i = Taken + 1
    BY <1>3
  <2>3. i \in 1..Len(cached) /\ i \in Nat /\ i - i = 0 /\ i <= i /\ Taken' = i
    BY <1>3, <2>0
  <2>4. FirstMatch(cached, version, i)
    BY <1>3, <1>4, <1>6, <2>0 DEF FirstMatch
  <2>5. (i+1)..i = {}
    BY <2>3
  <2>6. Replayed(snapshot, cached, i, i) = snapshot
    BY <2>3, ReplayNothing
  <2>7. version + 0 = version /\ expect' = version + 0 + 1
    BY <1>4, <2>1
  <2>8. /\ FirstMatch(cached', version', i)
        /\ expect' = version' + (i - i) + 1
        /\ product'.version = version' + (i - i)
        /\ Content(product') = Replayed(snapshot', cached', i, i)
    BY <1>2, <1>4, <2>3, <2>4, <2>6, <2>7
  <2>9. Behind(i, Taken)'
    BY <2>3, <2>5, <2>8 DEF Behind
  <2>10. Ordered(cached', product'.services, i, i) /\ Ordered(cached', product'.payloads, i, i)
    BY <2>5 DEF Ordered
  <2>11. Replaying'
    <3>1. i \in 1..Len(cached')
      BY <1>2, <2>3
    <3> QED BY <2>3, <2>9, <2>10, <3>1 DEF Replaying
  <2>12. Searching' /\ Returned'
    BY <2>1 DEF Searching, Returned
  <2> QED BY <1>5, <2>2, <2>11, <2>12 DEF SubInv
<1>7. CASE Head(m_updates).ver # version
  <2>1. expect' = expect /\ stage' = stage
    BY <1>7 DEF Find
  <2>2. Typed'
    BY <1>1, <1>2, <1>3, <2>1 DEF Typed, Listed
  <2>3. \A k \in 1..Taken' : cached[k].ver # version
    <3>1. \A k \in 1..Taken' : k \in 1..Taken \/ k = Taken + 1
      BY <1>3
    <3> QED BY <1>3, <1>4, <1>7, <3>1
  <2>4. Searching'
    BY <1>2, <1>4, <2>3 DEF Searching
  <2>5. Replaying' /\ Returned'
    BY <1>2, <2>1 DEF Replaying, Returned
  <2> QED BY <1>5, <2>2, <2>4, <2>5 DEF SubInv
<1> QED BY <1>6, <1>7

LEMMA NotFoundInv ==
  ASSUME SubInv, NotFound PROVE SubInv'
<1>1. Typed /\ Searching
  BY DEF SubInv
<1>2. /\ stage = "find" /\ m_updates = <<>> /\ stage' = "failed"
      /\ UNCHANGED <<version, snapshot, cached, m_updates, product, expect>>
  BY DEF NotFound
<1>3. Typed'
  BY <1>1, <1>2 DEF Typed, Listed
<1>4. Taken = Len(cached)
  BY <1>1, <1>2 DEF Typed, Taken
<1>5. \A i \in 1..Len(cached) : cached[i].ver # version
  BY <1>1, <1>2, <1>4 DEF Searching
<1>6. ~ Presents(cached', version')
  BY <1>2, <1>5 DEF Presents, FirstMatch
<1>7. Suffix' /\ Searching' /\ Replaying' /\ Returned'
  BY <1>2, <1>6 DEF Suffix, Searching, Replaying, Returned
<1> QED BY <1>3, <1>7 DEF SubInv

(* Which update the loop stopped at is unique.                             *)
LEMMA OneMatch ==
  ASSUME NEW u, Len(u) \in Nat, NEW v, NEW i, NEW j, FirstMatch(u, v, i), FirstMatch(u, v, j)
  PROVE  i = j
<1>1. i \in Nat /\ j \in Nat /\ i >= 1 /\ j >= 1
  BY DEF FirstMatch
<1>2. ~ (i < j)
  BY <1>1 DEF FirstMatch
<1>3. ~ (j < i)
  BY <1>1 DEF FirstMatch
<1> QED BY <1>1, <1>2, <1>3

LEMMA ReplayInv ==
  ASSUME SubInv, Replay PROVE SubInv'
<1>1. Typed /\ Suffix /\ Replaying
  BY DEF SubInv
<1>2. /\ stage = "replay" /\ m_updates # <<>> /\ m_updates' = Tail(m_updates)
      /\ Head(m_updates).ver = expect /\ expect' = expect + 1
      /\ product' = Observed(product, Head(m_updates))
      /\ UNCHANGED <<version, snapshot, cached, stage>>
  BY DEF Replay
<1>3. /\ m_updates' \in Seq(Updates) /\ Len(m_updates') <= Len(cached)
      /\ Taken \in Nat /\ Taken' = Taken + 1 /\ Taken + 1 \in 1..Len(cached)
      /\ Head(m_updates) = cached[Taken + 1] /\ Head(m_updates) \in Updates
      /\ \A k \in 1..Len(m_updates') : m_updates'[k] = cached[Taken' + k]
  BY <1>1, <1>2, TakeOne
<1>0. PICK n \in Nat : n = Taken
  BY <1>3
<1> DEFINE m == cached[n + 1]
<1>4. /\ version \in 0..MaxVersion /\ MaxVersion \in Nat /\ expect \in 0..(MaxVersion + 1)
      /\ Listed(product)
  BY <1>1, BoundsAssumption DEF Typed
<1>5. m \in Updates /\ m.ver \in 0..MaxVersion /\ m.ver = expect /\ product' = Observed(product, m)
  BY <1>0, <1>2, <1>3, UpdateCases
<1>6. /\ product'.version = m.ver /\ Listed(product')
      /\ Content(product') = Apply(Content(product), m)
  BY <1>4, <1>5, ObservedApplies
<1>7. Suffix'
  BY <1>2, <1>3 DEF Suffix
<1>8. Typed'
  <2>1. expect' \in 0..(MaxVersion + 1)
    BY <1>2, <1>4, <1>5
  <2> QED BY <1>1, <1>2, <1>3, <1>5, <1>6, <2>1 DEF Typed, Listed
<1>9. PICK i \in 1..Len(cached) :
        /\ Behind(i, n)
        /\ Ordered(cached, product.services, i, n)
        /\ Ordered(cached, product.payloads, i, n)
  BY <1>0, <1>1, <1>2 DEF Replaying
<1>10. n \in Nat /\ n + 1 \in Nat /\ i \in Nat /\ i <= n /\ i <= n + 1 /\ Taken' = n + 1
  BY <1>0, <1>3, <1>9 DEF Behind
<1>11. /\ FirstMatch(cached, version, i)
       /\ \A k \in (i+1)..n : cached[k].ver = version + (k - i)
       /\ expect = version + (n - i) + 1
       /\ Content(product) = Replayed(snapshot, cached, i, n)
  BY <1>9 DEF Behind
<1>12. version \in Nat
  BY <1>4
<1>13. version + (n - i) + 1 = version + ((n + 1) - i)
  BY <1>10, <1>12
<1>14. \A k \in (i+1)..(n+1) : cached[k].ver = version + (k - i)
  <2>1. \A k \in (i+1)..(n+1) : k \in (i+1)..n \/ k = n + 1
    BY <1>10
  <2> QED BY <1>5, <1>11, <1>13, <2>1
<1>15. Content(product') = Replayed(snapshot, cached, i, n + 1)
  BY <1>6, <1>10, <1>11, ReplayStep
<1>16. Behind(i, Taken)'
  <2>1. /\ FirstMatch(cached', version', i)
        /\ \A k \in (i+1)..(n+1) : cached'[k].ver = version' + (k - i)
        /\ expect' = version' + ((n + 1) - i) + 1
        /\ product'.version = version' + ((n + 1) - i)
        /\ Content(product') = Replayed(snapshot', cached', i, n + 1)
    BY <1>2, <1>5, <1>6, <1>11, <1>13, <1>14, <1>15
  <2> QED BY <1>10, <2>1 DEF Behind
<1>17. /\ Ordered(cached, product'.services, i, n + 1)
       /\ Ordered(cached, product'.payloads, i, n + 1)
  BY <1>4, <1>5, <1>9, <1>10, ObservedOrdered
<1>18. Replaying'
  BY <1>2, <1>10, <1>16, <1>17 DEF Replaying
<1>19. Searching' /\ Returned'
  BY <1>2 DEF Searching, Returned
<1> QED BY <1>7, <1>8, <1>18, <1>19 DEF SubInv

LEMMA BrokenInv ==
  ASSUME SubInv, Broken PROVE SubInv'
<1>1. Typed /\ Suffix /\ Replaying
  BY DEF SubInv
<1>2. /\ stage = "replay" /\ m_updates # <<>> /\ m_updates' = <<>>
      /\ Head(m_updates).ver # expect /\ stage' = "failed"
      /\ UNCHANGED <<version, snapshot, cached, product, expect>>
  BY DEF Broken
<1>3. m_updates \in Seq(Updates) /\ Len(cached) \in Nat /\ Len(m_updates) <= Len(cached)
  BY <1>1 DEF Typed
<1>4. /\ Len(m_updates) \in Nat /\ Len(m_updates) >= 1 /\ Head(m_updates) = m_updates[1]
  BY <1>2, <1>3, TailList
<1>5. PICK n \in Nat : n = Taken
  BY <1>3, <1>4 DEF Taken
<1>6. n + 1 \in 1..Len(cached) /\ Head(m_updates) = cached[n + 1]
  BY <1>1, <1>2, <1>3, <1>4, <1>5 DEF Suffix, Taken
<1>7. PICK i \in 1..Len(cached) : Behind(i, n)
  BY <1>1, <1>2, <1>5 DEF Replaying
<1>8. /\ FirstMatch(cached, version, i) /\ i <= n /\ i \in Nat
      /\ expect = version + (n - i) + 1 /\ version \in Nat
  BY <1>1, <1>7 DEF Behind, Typed
<1>9. ~ Presents(cached, version)
  <2>1. SUFFICES ASSUME NEW j \in 1..Len(cached), FirstMatch(cached, version, j),
                        Consecutive(cached, version, j)
                 PROVE  FALSE
    BY DEF Presents
  <2>2. j = i
    BY <1>3, <1>8, <2>1, OneMatch
  <2>3. n + 1 \in (i+1)..Len(cached)
    BY <1>3, <1>6, <1>8
  <2>4. cached[n + 1].ver = version + ((n + 1) - i)
    BY <2>1, <2>2, <2>3 DEF Consecutive
  <2>5. version + ((n + 1) - i) = version + (n - i) + 1
    BY <1>8
  <2> QED BY <1>2, <1>6, <1>8, <2>4, <2>5
<1>10. Typed'
  <2>1. <<>> \in Seq(Updates) /\ Len(<<>>) = 0
    OBVIOUS
  <2> QED BY <1>1, <1>2, <1>3, <2>1 DEF Typed, Listed
<1>11. Suffix' /\ Searching' /\ Replaying' /\ Returned'
  BY <1>2, <1>9 DEF Suffix, Searching, Replaying, Returned
<1> QED BY <1>10, <1>11 DEF SubInv

LEMMA PresentedInv ==
  ASSUME SubInv, Presented PROVE SubInv'
<1>1. Typed /\ Suffix /\ Replaying
  BY DEF SubInv
<1>2. /\ stage = "replay" /\ m_updates = <<>> /\ stage' = "presented"
      /\ UNCHANGED <<version, snapshot, cached, m_updates, product, expect>>
  BY DEF Presented
<1>3. Typed' /\ Suffix'
  BY <1>1, <1>2 DEF Typed, Listed, Suffix, Taken
<1>4. Replaying'
  BY <1>1, <1>2 DEF Replaying, Behind, Taken
<1>5. Searching' /\ Returned'
  BY <1>2 DEF Searching, Returned
<1> QED BY <1>3, <1>4, <1>5 DEF SubInv

LEMMA StutterInv ==
  ASSUME SubInv, UNCHANGED vars PROVE SubInv'
<1>1. Typed /\ Suffix /\ Searching /\ Replaying /\ Returned
  BY DEF SubInv
<1>2. UNCHANGED <<version, snapshot, cached, m_updates, product, expect, stage>>
  BY DEF vars
<1>3. Typed' /\ Suffix' /\ Searching' /\ Returned'
  BY <1>1, <1>2 DEF Typed, Listed, Suffix, Searching, Returned, Taken
<1>4. Replaying'
  BY <1>1, <1>2 DEF Replaying, Behind, Taken
<1> QED BY <1>3, <1>4 DEF SubInv

LEMMA SubInductive == SubInv /\ [Next]_vars => SubInv'
<1>1. SUFFICES ASSUME SubInv, [Next]_vars PROVE SubInv'
  OBVIOUS
<1>2. CASE Find
  BY <1>1, <1>2, FindInv
<1>3. CASE NotFound
  BY <1>1, <1>3, NotFoundInv
<1>4. CASE Replay
  BY <1>1, <1>4, ReplayInv
<1>5. CASE Broken
  BY <1>1, <1>5, BrokenInv
<1>6. CASE Presented
  BY <1>1, <1>6, PresentedInv
<1>7. CASE UNCHANGED vars
  BY <1>1, <1>7, StutterInv
<1> QED BY <1>1, <1>2, <1>3, <1>4, <1>5, <1>6, <1>7 DEF Next

LEMMA SubAlways == Spec => []SubInv
<1>1. Init => SubInv
  BY InitInv
<1> QED BY <1>1, SubInductive, PTL DEF Spec

-----------------------------------------------------------------------------
(* The product's lists hold no name twice at any point of the loop, and    *)
(* the versions stay in their range.                                       *)
THEOREM SubTyped == Spec => []TypeOK
<1>1. SubInv => TypeOK
  BY DEF SubInv, Typed, Listed, TypeOK
<1> QED BY <1>1, SubAlways, PTL

(* What the loop of present() returns and leaves in the product is what    *)
(* the closed forms of SyncReplay say, for every snapshot and every cache  *)
(* of any length: the tracker's model may do the loop in one step.         *)
THEOREM SubPresentExact == Spec => []PresentExact
<1>1. ASSUME SubInv, stage = "presented"
      PROVE  \E i \in 1..Len(cached) :
               /\ FirstMatch(cached, version, i)
               /\ Consecutive(cached, version, i)
               /\ Content(product) = Replayed(snapshot, cached, i, Len(cached))
               /\ product.version = version + (Len(cached) - i)
  <2>1. Typed /\ Replaying /\ m_updates = <<>>
    BY <1>1 DEF SubInv, Returned
  <2>2. Taken = Len(cached)
    BY <2>1 DEF Typed, Taken
  <2>3. PICK i \in 1..Len(cached) : Behind(i, Len(cached))
    BY <1>1, <2>1, <2>2 DEF Replaying
  <2> QED BY <2>3 DEF Behind, Consecutive
<1>2. SubInv /\ stage = "failed" => ~ Presents(cached, version)
  BY DEF SubInv, Returned
<1>3. SubInv => PresentExact
  BY <1>1, <1>2 DEF PresentExact
<1> QED BY <1>3, SubAlways, PTL

(* A set of positions has a last one.                                      *)
LEMMA NatGreatest ==
  ASSUME NEW n \in Nat, NEW T, T \subseteq 1..n, T # {}
  PROVE  \E x \in T : \A y \in T : y <= x
<1> DEFINE U == {d \in Nat : \E y \in T : d = n - y}
<1>1. U # {} /\ U \subseteq Nat
  <2>1. PICK y \in T : y \in 1..n
    OBVIOUS
  <2>2. n - y \in U
    BY <2>1
  <2> QED BY <2>2
<1>2. PICK d \in U : \A e \in U : d <= e
  BY <1>1, NatLeast
<1>3. PICK x \in T : d = n - x
  BY <1>2
<1>4. \A y \in T : n - y \in U
  OBVIOUS
<1>5. \A y \in T : n - x <= n - y
  BY <1>2, <1>3, <1>4
<1>6. \A y \in T : y <= x
  BY <1>3, <1>5
<1> QED BY <1>6

(* LastPublished is 0, or the last of the updates that add the name.       *)
LEMMA LastPublishedIs ==
  ASSUME NEW x, NEW i \in Nat, Len(cached) \in Nat
  PROVE  LET at == {k \in (i+1)..Len(cached) : Adds(cached[k], x)} IN
         \/ at = {} /\ LastPublished(x, i) = 0
         \/ LastPublished(x, i) \in at /\ \A j \in at : j <= LastPublished(x, i)
<1> DEFINE at == {k \in (i+1)..Len(cached) : Adds(cached[k], x)}
<1>1. CASE at = {}
  BY <1>1 DEF LastPublished
<1>2. CASE at # {}
  <2>1. at \subseteq 1..Len(cached)
    OBVIOUS
  <2>2. \E k \in at : \A j \in at : j <= k
    <3> HIDE DEF at
    <3> QED BY <1>2, <2>1, NatGreatest
  <2>3. LastPublished(x, i) = CHOOSE k \in at : \A j \in at : j <= k
    BY <1>2 DEF LastPublished
  <2> HIDE DEF at
  <2>4. LastPublished(x, i) \in at /\ \A j \in at : j <= LastPublished(x, i)
    BY <2>2, <2>3
  <2> QED BY <2>4 DEF at
<1> QED BY <1>1, <1>2

(* In both lists of a product that is presented, what was published while  *)
(* the snapshot was on its way stands behind what was not, and later       *)
(* behind earlier: the table of the tracker may expire them by position.   *)
THEOREM SubRecentLast == Spec => []RecentLast
<1>1. ASSUME SubInv, stage = "presented", NEW i \in 1..Len(cached),
             FirstMatch(cached, version, i),
             NEW list \in {product.services, product.payloads},
             NEW j \in 1..Len(list), NEW k \in 1..Len(list),
             LastPublished(list[j], i) < LastPublished(list[k], i)
      PROVE  j < k
  <2>1. Typed /\ Replaying /\ m_updates = <<>>
    BY <1>1 DEF SubInv, Returned
  <2>2. Taken = Len(cached) /\ Len(cached) \in Nat
    BY <2>1 DEF Typed, Taken
  <2>3. PICK h \in 1..Len(cached) :
          /\ Behind(h, Len(cached))
          /\ Ordered(cached, product.services, h, Len(cached))
          /\ Ordered(cached, product.payloads, h, Len(cached))
    BY <1>1, <2>1, <2>2 DEF Replaying
  <2>4. h = i
    BY <1>1, <2>2, <2>3, OneMatch DEF Behind
  <2>5. Ordered(cached, list, i, Len(cached))
    BY <1>1, <2>3, <2>4
  <2>6. list \in Seq(Services) \/ list \in Seq(Payloads)
    BY <1>1, <2>1, BoundsAssumption, OrdersAreLists DEF Typed, Listed
  <2>7. j \in Nat /\ k \in Nat
    BY <1>1, <2>6
  <2> DEFINE a == LastPublished(list[k], i)
             b == LastPublished(list[j], i)
             P(x) == {f \in (i+1)..Len(cached) : Adds(cached[f], x)}
  <2>8. \/ P(list[k]) = {} /\ a = 0
        \/ a \in P(list[k])
    BY <2>2, LastPublishedIs
  <2>9. \/ P(list[j]) = {} /\ b = 0
        \/ b \in P(list[j]) /\ \A f \in P(list[j]) : f <= b
    BY <2>2, LastPublishedIs
  <2>10. b < a
    BY <1>1
  <2> HIDE DEF a, b
  <2>11. b \in Nat
    BY <2>2, <2>9
  <2>12. a \in (i+1)..Len(cached) /\ Adds(cached[a], list[k])
    BY <2>8, <2>10, <2>11
  <2>13. j # k
    BY <2>10, <2>11 DEF a, b
  <2>14. ~ (k < j)
    <3>1. SUFFICES ASSUME k < j PROVE FALSE
      OBVIOUS
    <3>2. PICK f \in (i+1)..Len(cached) : a < f /\ Adds(cached[f], list[j])
      BY <1>1, <2>5, <2>12, <3>1 DEF Ordered
    <3>3. f \in P(list[j])
      BY <3>2
    <3>4. f <= b
      BY <2>9, <3>3
    <3> QED BY <2>2, <2>10, <2>11, <2>12, <3>2, <3>4
  <2> QED BY <2>7, <2>13, <2>14
<1>2. SubInv => RecentLast
  BY <1>1 DEF RecentLast
<1> QED BY <1>2, SubAlways, PTL

=============================================================================

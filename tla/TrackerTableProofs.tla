------------------------- MODULE TrackerTableProofs -------------------------
(***************************************************************************)
(* RITrackerTable for any regions, services, payloads, timeouts and        *)
(* limits.  Lists and indexes agree after every handler (TableInv); from   *)
(* that follow what the table routes, what a snapshot of it holds and that *)
(* it behaves like RouteTable.  How long an entry may stay needs one more  *)
(* invariant (Timely): the age of an entry and the calls of the timer its  *)
(* place in the list still costs together stay below a bound.              *)
(***************************************************************************)
EXTENDS TrackerTable, OperatorLemmas

RegionEntries == [id : Regions, age : Nat]
ServiceEntries == [region : Regions, name : Services, age : Nat]
PayloadEntries == [region : Regions, id : Payloads, age : Nat]

(* A list of names with none twice, as the inputs of merge are.            *)
Names(S, T) == S \in Seq(T) /\ \A i, j \in 1..Len(S) : S[i] = S[j] => i = j

LEMMA OrderNames ==
  ASSUME NEW T, IsFiniteSet(T), NEW S \in Orders(T)
  PROVE  Names(S, T)
<1>1. PICK D \in SUBSET T : S \in SetToSeqs(D)
  BY DEF Orders
<1>2. IsFiniteSet(D)
  BY FS_Subset
<1> DEFINE n == Cardinality(D)
<1>3. n \in Nat
  BY <1>2, FS_CardinalityType
<1>4. S \in [1..n -> D] /\ \A i, j \in 1..n : i # j => S[i] # S[j]
  BY <1>1 DEF SetToSeqs
<1> HIDE DEF n
<1>5. S \in [1..n -> T]
  BY <1>4
<1>6. S \in Seq(T) /\ Len(S) = n
  BY <1>3, <1>5
<1> QED BY <1>4, <1>6 DEF Names

LEMMA ServiceEntryFields ==
  ASSUME NEW r, NEW s, NEW a, NEW x, x = ServiceEntry(r, s, a)
  PROVE  x.region = r /\ x.name = s /\ x.age = a
BY DEF ServiceEntry

LEMMA PayloadEntryFields ==
  ASSUME NEW r, NEW p, NEW a, NEW x, x = PayloadEntry(r, p, a)
  PROVE  x.region = r /\ x.id = p /\ x.age = a
BY DEF PayloadEntry

LEMMA OneName ==
  ASSUME NEW T, NEW x \in T
  PROVE  Names(<<x>>, T) /\ ToSet(<<x>>) = {x}
<1>1. <<x>> \in Seq(T) /\ Len(<<x>>) = 1 /\ <<x>>[1] = x /\ DOMAIN <<x>> = 1..1
  OBVIOUS
<1>2. ToSet(<<x>>) = {x}
  BY <1>1 DEF ToSet
<1>3. QED BY <1>1, <1>2 DEF Names

(* The index of the services in terms of membership.                       *)
LEMMA IndexMembers ==
  ASSUME NEW s
  PROVE  (ToSet(svcIndex[s]) = {e.region : e \in {x \in ToSet(services) : x.name = s}})
           <=> \A q : q \in ToSet(svcIndex[s]) <=>
                 \E e \in ToSet(services) : e.name = s /\ e.region = q
  OBVIOUS

LEMMA ContainsSet ==
  ASSUME NEW T, NEW s \in Seq(T), NEW x
  PROVE  Contains(s, x) <=> x \in ToSet(s)
<1>1. DOMAIN s = 1..Len(s)
  OBVIOUS
<1>2. QED BY <1>1 DEF Contains, ToSet

(* What a list of new entries holds.                                       *)
LEMMA NewServices ==
  ASSUME NEW r \in Regions, NEW S, Names(S, Services), NEW a \in Nat
  PROVE  LET N == [i \in 1..Len(S) |-> ServiceEntry(r, S[i], a)] IN
         /\ N \in Seq(ServiceEntries) /\ Len(N) = Len(S) /\ Len(S) \in Nat
         /\ \A i \in 1..Len(S) : N[i].region = r /\ N[i].name = S[i]
         /\ ToSet(N) = {ServiceEntry(r, s, a) : s \in ToSet(S)}
<1> DEFINE N == [i \in 1..Len(S) |-> ServiceEntry(r, S[i], a)]
<1>1. Len(S) \in Nat /\ DOMAIN S = 1..Len(S) /\ \A i \in 1..Len(S) : S[i] \in Services
  BY DEF Names
<1>2. \A i \in 1..Len(S) : ServiceEntry(r, S[i], a) \in ServiceEntries
  BY <1>1 DEF ServiceEntry, ServiceEntries
<1>3. N \in Seq(ServiceEntries) /\ Len(N) = Len(S) /\ DOMAIN N = 1..Len(S)
  BY <1>1, <1>2
<1>4. \A i \in 1..Len(S) : N[i] = ServiceEntry(r, S[i], a)
  OBVIOUS
<1> HIDE DEF N
<1>5. ToSet(N) = {ServiceEntry(r, s, a) : s \in ToSet(S)}
  BY <1>1, <1>3, <1>4 DEF ToSet
<1>7. \A i \in 1..Len(S) : N[i].region = r /\ N[i].name = S[i]
  BY <1>4, ServiceEntryFields
<1>6. QED BY <1>1, <1>3, <1>5, <1>7 DEF N

LEMMA NewPayloads ==
  ASSUME NEW r \in Regions, NEW P, Names(P, Payloads), NEW a \in Nat
  PROVE  LET N == [i \in 1..Len(P) |-> PayloadEntry(r, P[i], a)] IN
         /\ N \in Seq(PayloadEntries) /\ Len(N) = Len(P) /\ Len(P) \in Nat
         /\ \A i \in 1..Len(P) : N[i].region = r /\ N[i].id = P[i]
         /\ ToSet(N) = {PayloadEntry(r, p, a) : p \in ToSet(P)}
<1> DEFINE N == [i \in 1..Len(P) |-> PayloadEntry(r, P[i], a)]
<1>1. Len(P) \in Nat /\ DOMAIN P = 1..Len(P) /\ \A i \in 1..Len(P) : P[i] \in Payloads
  BY DEF Names
<1>2. \A i \in 1..Len(P) : PayloadEntry(r, P[i], a) \in PayloadEntries
  BY <1>1 DEF PayloadEntry, PayloadEntries
<1>3. N \in Seq(PayloadEntries) /\ Len(N) = Len(P) /\ DOMAIN N = 1..Len(P)
  BY <1>1, <1>2
<1>4. \A i \in 1..Len(P) : N[i] = PayloadEntry(r, P[i], a)
  OBVIOUS
<1> HIDE DEF N
<1>5. ToSet(N) = {PayloadEntry(r, p, a) : p \in ToSet(P)}
  BY <1>1, <1>3, <1>4 DEF ToSet
<1>7. \A i \in 1..Len(P) : N[i].region = r /\ N[i].id = P[i]
  BY <1>4, PayloadEntryFields
<1>6. QED BY <1>1, <1>3, <1>5, <1>7 DEF N

-----------------------------------------------------------------------------
(* The handlers' parts.                                                    *)

RegionsTyped == regions \in Seq(RegionEntries) /\ regIndex \subseteq Regions
ServicesTyped == services \in Seq(ServiceEntries) /\ svcIndex \in [Services -> Seq(Regions)]
PayloadsTyped == payloads \in Seq(PayloadEntries) /\ payIndex \subseteq Payloads

(* A list without some of its entries has no key twice that it had once.   *)
LEMMA RegionsDistinct ==
  ASSUME NEW l \in Seq(RegionEntries), NEW G,
         \A i, j \in 1..Len(l) : l[i].id = l[j].id => i = j
  PROVE  \A i, j \in 1..Len(Without(l, G)) : Without(l, G)[i].id = Without(l, G)[j].id => i = j
<1> DEFINE key == [e \in RegionEntries |-> e.id]
           w == Without(l, G)
<1>1. w \in Seq(RegionEntries)
  BY WithoutList
<1> HIDE DEF w
<1>2. \A i \in 1..Len(l) : key[l[i]] = l[i].id
  OBVIOUS
<1>3. \A i \in 1..Len(w) : key[w[i]] = w[i].id
  BY <1>1
<1> HIDE DEF key
<1>4. \A i, j \in 1..Len(l) : key[l[i]] = key[l[j]] => i = j
  BY <1>2
<1>5. \A i, j \in 1..Len(w) : key[w[i]] = key[w[j]] => i = j
  BY <1>4, WithoutDistinct DEF w
<1>6. \A i, j \in 1..Len(w) : w[i].id = w[j].id => i = j
  BY <1>3, <1>5
<1> QED BY <1>6 DEF w

LEMMA ServicesDistinct ==
  ASSUME NEW l \in Seq(ServiceEntries), NEW G,
         \A i, j \in 1..Len(l) : l[i].region = l[j].region /\ l[i].name = l[j].name => i = j
  PROVE  \A i, j \in 1..Len(Without(l, G)) : Without(l, G)[i].region = Without(l, G)[j].region /\ Without(l, G)[i].name = Without(l, G)[j].name => i = j
<1> DEFINE key == [e \in ServiceEntries |-> <<e.region, e.name>>]
           w == Without(l, G)
<1>1. w \in Seq(ServiceEntries)
  BY WithoutList
<1> HIDE DEF w
<1>2. \A i \in 1..Len(l) : key[l[i]] = <<l[i].region, l[i].name>>
  OBVIOUS
<1>3. \A i \in 1..Len(w) : key[w[i]] = <<w[i].region, w[i].name>>
  BY <1>1
<1> HIDE DEF key
<1>4. \A i, j \in 1..Len(l) : key[l[i]] = key[l[j]] => i = j
  BY <1>2
<1>5. \A i, j \in 1..Len(w) : key[w[i]] = key[w[j]] => i = j
  BY <1>4, WithoutDistinct DEF w
<1>6. ASSUME NEW i \in 1..Len(w), NEW j \in 1..Len(w),
             w[i].region = w[j].region, w[i].name = w[j].name
      PROVE  i = j
  <2>1. key[w[i]] = key[w[j]]
    BY <1>3, <1>6
  <2> QED BY <2>1, <1>5
<1> QED BY <1>6 DEF w

LEMMA TurnsDistinct ==
  ASSUME NEW l \in Seq(Regions), NEW G,
         \A i, j \in 1..Len(l) : l[i] = l[j] => i = j
  PROVE  \A i, j \in 1..Len(Without(l, G)) : Without(l, G)[i] = Without(l, G)[j] => i = j
<1> DEFINE key == [e \in Regions |-> e]
           w == Without(l, G)
<1>1. w \in Seq(Regions)
  BY WithoutList
<1> HIDE DEF w
<1>2. \A i \in 1..Len(l) : key[l[i]] = l[i]
  OBVIOUS
<1>3. \A i \in 1..Len(w) : key[w[i]] = w[i]
  BY <1>1
<1> HIDE DEF key
<1>4. \A i, j \in 1..Len(l) : key[l[i]] = key[l[j]] => i = j
  BY <1>2
<1>5. \A i, j \in 1..Len(w) : key[w[i]] = key[w[j]] => i = j
  BY <1>4, WithoutDistinct DEF w
<1>6. \A i, j \in 1..Len(w) : w[i] = w[j] => i = j
  BY <1>3, <1>5
<1> QED BY <1>6 DEF w

LEMMA PayloadsDistinct ==
  ASSUME NEW l \in Seq(PayloadEntries), NEW G,
         \A i, j \in 1..Len(l) : l[i].id = l[j].id => i = j
  PROVE  \A i, j \in 1..Len(Without(l, G)) : Without(l, G)[i].id = Without(l, G)[j].id => i = j
<1> DEFINE key == [e \in PayloadEntries |-> e.id]
           w == Without(l, G)
<1>1. w \in Seq(PayloadEntries)
  BY WithoutList
<1> HIDE DEF w
<1>2. \A i \in 1..Len(l) : key[l[i]] = l[i].id
  OBVIOUS
<1>3. \A i \in 1..Len(w) : key[w[i]] = w[i].id
  BY <1>1
<1> HIDE DEF key
<1>4. \A i, j \in 1..Len(l) : key[l[i]] = key[l[j]] => i = j
  BY <1>2
<1>5. \A i, j \in 1..Len(w) : key[w[i]] = key[w[j]] => i = j
  BY <1>4, WithoutDistinct DEF w
<1>6. \A i, j \in 1..Len(w) : w[i].id = w[j].id => i = j
  BY <1>3, <1>5
<1> QED BY <1>6 DEF w

(* What PutServices leaves in the list and in the index.                   *)
LEMMA PutServicesEffect ==
  ASSUME ServicesTyped, NEW r \in Regions, NEW S, Names(S, Services), NEW a \in Nat,
         PutServices(r, S, a)
  PROVE  /\ ServicesTyped'
         /\ ToSet(services') =
              (ToSet(services) \ {e \in ToSet(services) :
                 e.region = r /\ e.name \in ToSet(S) /\ r \in ToSet(svcIndex[e.name])})
                \cup {ServiceEntry(r, s, a) : s \in ToSet(S)}
         /\ \A s \in Services :
              /\ s \in ToSet(S) /\ r \notin ToSet(svcIndex[s]) =>
                   svcIndex'[s] = Append(svcIndex[s], r)
              /\ ~ (s \in ToSet(S) /\ r \notin ToSet(svcIndex[s])) =>
                   svcIndex'[s] = svcIndex[s]
<1> DEFINE old == {e \in ToSet(services) :
                     e.region = r /\ e.name \in ToSet(S) /\ r \in ToSet(svcIndex[e.name])}
           N == [i \in 1..Len(S) |-> ServiceEntry(r, S[i], a)]
<1>1. services \in Seq(ServiceEntries) /\ \A s \in Services : svcIndex[s] \in Seq(Regions)
  BY DEF ServicesTyped
<1>20. ToSet(services) \subseteq ServiceEntries
  BY <1>1, ListSet
<1>2. \A e \in ToSet(services) : e.name \in Services
  BY <1>20 DEF ServiceEntries
<1>3. \A s \in Services : Contains(svcIndex[s], r) <=> r \in ToSet(svcIndex[s])
  BY <1>1, ContainsSet
<1>4. old = {e \in ToSet(services) :
               e.region = r /\ e.name \in ToSet(S) /\ Contains(svcIndex[e.name], r)}
  BY <1>2, <1>3
<1>5. services' = Without(services, old) \o N
  BY <1>4 DEF PutServices
<1>6. svcIndex' = [s \in Services |->
        IF s \in ToSet(S) /\ ~ Contains(svcIndex[s], r)
          THEN Append(svcIndex[s], r) ELSE svcIndex[s]]
  BY DEF PutServices
<1>7. N \in Seq(ServiceEntries) /\ ToSet(N) = {ServiceEntry(r, s, a) : s \in ToSet(S)}
  BY NewServices
<1>8. Without(services, old) \in Seq(ServiceEntries)
        /\ ToSet(Without(services, old)) = ToSet(services) \ old
  BY <1>1, WithoutList
<1> HIDE DEF old, N
<1>9. services' \in Seq(ServiceEntries) /\ ToSet(services') = (ToSet(services) \ old) \cup ToSet(N)
  BY <1>5, <1>7, <1>8, ConcatList
<1>10. \A s \in Services : Append(svcIndex[s], r) \in Seq(Regions)
  BY <1>1, AppendList
<1>11. svcIndex' \in [Services -> Seq(Regions)]
  BY <1>1, <1>6, <1>10
<1>12. \A s \in Services :
         /\ s \in ToSet(S) /\ r \notin ToSet(svcIndex[s]) =>
              svcIndex'[s] = Append(svcIndex[s], r)
         /\ ~ (s \in ToSet(S) /\ r \notin ToSet(svcIndex[s])) =>
              svcIndex'[s] = svcIndex[s]
  BY <1>3, <1>6
<1>13. ServicesTyped'
  BY <1>9, <1>11 DEF ServicesTyped
<1> QED BY <1>7, <1>9, <1>12, <1>13 DEF old

(* PutServices keeps list and index of the services together.              *)
LEMMA PutServicesIndexed ==
  ASSUME ServicesTyped, ServicesIndexed,
         NEW r \in Regions, NEW S, Names(S, Services), NEW a \in Nat,
         PutServices(r, S, a), r \in regIndex', regIndex \subseteq regIndex'
  PROVE  ServicesIndexed'
<1> DEFINE old == {e \in ToSet(services) :
                     e.region = r /\ e.name \in ToSet(S) /\ r \in ToSet(svcIndex[e.name])}
           w == Without(services, old)
           N == [i \in 1..Len(S) |-> ServiceEntry(r, S[i], a)]
<1>1. /\ services \in Seq(ServiceEntries) /\ \A s \in Services : svcIndex[s] \in Seq(Regions)
      /\ DOMAIN services = 1..Len(services)
  BY DEF ServicesTyped
<1>20. ToSet(services) \subseteq ServiceEntries
  BY <1>1, ListSet
<1>2. \A e \in ToSet(services) : e.name \in Services
  BY <1>20 DEF ServiceEntries
<1>3. /\ \A i, j \in 1..Len(services) :
           services[i].region = services[j].region /\ services[i].name = services[j].name => i = j
      /\ \A s \in Services : \A i, j \in 1..Len(svcIndex[s]) : svcIndex[s][i] = svcIndex[s][j] => i = j
      /\ \A s \in Services : \A q : q \in ToSet(svcIndex[s]) <=>
           \E e \in ToSet(services) : e.name = s /\ e.region = q
      /\ \A e \in ToSet(services) : e.region \in regIndex
  BY IndexMembers DEF ServicesIndexed, Distinct
<1>4. /\ ServicesTyped'
      /\ ToSet(services') = (ToSet(services) \ old) \cup {ServiceEntry(r, s, a) : s \in ToSet(S)}
      /\ \A s \in Services :
           /\ s \in ToSet(S) /\ r \notin ToSet(svcIndex[s]) =>
                svcIndex'[s] = Append(svcIndex[s], r)
           /\ ~ (s \in ToSet(S) /\ r \notin ToSet(svcIndex[s])) =>
                svcIndex'[s] = svcIndex[s]
  BY PutServicesEffect
<1>5. services' = w \o N
  <2>1. \A s \in Services : Contains(svcIndex[s], r) <=> r \in ToSet(svcIndex[s])
    BY <1>1, ContainsSet
  <2>2. old = {e \in ToSet(services) :
                 e.region = r /\ e.name \in ToSet(S) /\ Contains(svcIndex[e.name], r)}
    BY <1>2, <2>1
  <2> QED BY <2>2 DEF PutServices
<1>17. \A e \in old : e.region = r /\ e.name \in ToSet(S)
  OBVIOUS
<1>18. \A e \in ToSet(services) :
         e.region = r /\ e.name \in ToSet(S) /\ r \in ToSet(svcIndex[e.name]) => e \in old
  OBVIOUS
<1> HIDE DEF old
<1>6. w \in Seq(ServiceEntries) /\ ToSet(w) = ToSet(services) \ old
  BY <1>1, WithoutList
<1>21. \A j, k \in 1..Len(w) : w[j].region = w[k].region /\ w[j].name = w[k].name => j = k
  BY <1>1, <1>3, ServicesDistinct
<1>7. /\ N \in Seq(ServiceEntries) /\ Len(N) = Len(S) /\ Len(S) \in Nat
      /\ \A i \in 1..Len(S) : N[i].region = r /\ N[i].name = S[i]
  BY NewServices
<1> HIDE DEF w, N
<1>19. Len(w) \in Nat
  BY <1>6, ListSet
<1>8. /\ Len(w \o N) = Len(w) + Len(N)
      /\ \A i \in 1..Len(w) : (w \o N)[i] = w[i]
      /\ \A i \in 1..Len(N) : (w \o N)[Len(w) + i] = N[i]
      /\ \A k \in 1..Len(w \o N) : k \in 1..Len(w) \/ \E i \in 1..Len(N) : k = Len(w) + i
  <2>1. w \in Seq(ServiceEntries) /\ N \in Seq(ServiceEntries)
    BY <1>6, <1>7
  <2>2. Len(w \o N) = Len(w) + Len(N)
    BY <2>1, ConcatList
  <2>3. \A i \in 1..Len(w) : (w \o N)[i] = w[i]
    BY <2>1, ConcatList
  <2>4. \A i \in 1..Len(N) : (w \o N)[Len(w) + i] = N[i]
    BY <2>1, ConcatList
  <2>5. \A k \in 1..Len(w \o N) : k \in 1..Len(w) \/ \E i \in 1..Len(N) : k = Len(w) + i
    BY <2>1, ConcatList
  <2> QED BY <2>2, <2>3, <2>4, <2>5
<1>9. \A e \in ToSet(w) : ~ (e.region = r /\ e.name \in ToSet(S))
  BY <1>2, <1>3, <1>6, <1>18
<1>10. \A i \in 1..Len(w) : w[i] \in ToSet(w)
  BY <1>6, ListSet
<1>11. DOMAIN S = 1..Len(S) /\ \A i, j \in 1..Len(S) : S[i] = S[j] => i = j
  BY DEF Names
<1>12. Distinct(services, LAMBDA e : <<e.region, e.name>>)'
  <2>1. SUFFICES ASSUME NEW j \in 1..Len(w \o N), NEW k \in 1..Len(w \o N),
                        (w \o N)[j].region = (w \o N)[k].region,
                        (w \o N)[j].name = (w \o N)[k].name
                 PROVE  j = k
    BY <1>5 DEF Distinct
  <2>2. ASSUME NEW i \in 1..Len(w), NEW h \in 1..Len(N)
        PROVE  ~ (w[i].region = N[h].region /\ w[i].name = N[h].name)
    <3>0. S[h] \in ToSet(S)
      BY <1>7, <1>11 DEF ToSet
    <3>1. N[h].region = r /\ N[h].name \in ToSet(S)
      BY <1>7, <3>0
    <3> QED BY <3>1, <1>9, <1>10
  <2>3. CASE j \in 1..Len(w) /\ k \in 1..Len(w)
    <3>1. w[j].region = w[k].region /\ w[j].name = w[k].name
      BY <2>1, <2>3, <1>8
    <3> QED BY <3>1, <2>3, <1>21
  <2>4. ASSUME NEW i \in 1..Len(N), NEW h \in 1..Len(N), N[i].name = N[h].name
        PROVE  i = h
    BY <2>4, <1>7, <1>11
  <2>5. j \in 1..Len(w) \/ \E i \in 1..Len(N) : j = Len(w) + i
    BY <1>8
  <2>6. k \in 1..Len(w) \/ \E i \in 1..Len(N) : k = Len(w) + i
    BY <1>8
  <2>7. ASSUME NEW i \in 1..Len(w), j = i, NEW h \in 1..Len(N), k = Len(w) + h PROVE FALSE
    BY <2>1, <2>2, <2>7, <1>8
  <2>8. ASSUME NEW i \in 1..Len(w), k = i, NEW h \in 1..Len(N), j = Len(w) + h PROVE FALSE
    BY <2>1, <2>2, <2>8, <1>8
  <2>9. ASSUME NEW i \in 1..Len(N), j = Len(w) + i, NEW h \in 1..Len(N), k = Len(w) + h
        PROVE  j = k
    BY <2>1, <2>4, <2>9, <1>8
  <2> QED BY <2>3, <2>5, <2>6, <2>7, <2>8, <2>9
<1>13. ASSUME NEW s \in Services
       PROVE  Distinct(svcIndex'[s], LAMBDA q : q)
  <2>1. CASE svcIndex'[s] = svcIndex[s]
    BY <2>1, <1>3 DEF Distinct
  <2>2. CASE svcIndex'[s] = Append(svcIndex[s], r) /\ r \notin ToSet(svcIndex[s])
    <3> DEFINE l == svcIndex[s]
    <3>1. l \in Seq(Regions) /\ DOMAIN l = 1..Len(l) /\ Len(l) \in Nat
      BY <1>1
    <3>2. /\ Len(Append(l, r)) = Len(l) + 1 /\ Append(l, r)[Len(l) + 1] = r
          /\ \A i \in 1..Len(l) : Append(l, r)[i] = l[i]
      BY <3>1, AppendList
    <3>3. \A i \in 1..Len(l) : l[i] # r
      BY <2>2, <3>1 DEF ToSet
    <3>4. \A i, j \in 1..Len(l) : l[i] = l[j] => i = j
      BY <1>3
    <3> HIDE DEF l
    <3>5. \A i, j \in 1..Len(Append(l, r)) : Append(l, r)[i] = Append(l, r)[j] => i = j
      BY <3>1, <3>2, <3>3, <3>4
    <3> QED BY <2>2, <3>5 DEF Distinct, l
  <2> QED BY <2>1, <2>2, <1>4
<1>14. ASSUME NEW s \in Services, NEW q
       PROVE  q \in ToSet(svcIndex'[s]) <=>
                \E e \in ToSet(services') : e.name = s /\ e.region = q
  <2>1. ToSet(Append(svcIndex[s], r)) = ToSet(svcIndex[s]) \cup {r}
    BY <1>1, AppendList
  <2>2. q \in ToSet(svcIndex'[s]) <=> q \in ToSet(svcIndex[s]) \/ (s \in ToSet(S) /\ q = r)
    BY <1>4, <2>1
  <2>3. (\E e \in ToSet(services') : e.name = s /\ e.region = q) <=>
          \/ \E e \in ToSet(services) \ old : e.name = s /\ e.region = q
          \/ s \in ToSet(S) /\ q = r
    <3>1. ASSUME NEW e \in ToSet(services'), e.name = s, e.region = q
          PROVE  e \in ToSet(services) \ old \/ (s \in ToSet(S) /\ q = r)
      BY <3>1, <1>4 DEF ServiceEntry
    <3>2. s \in ToSet(S) => ServiceEntry(r, s, a) \in ToSet(services')
      BY <1>4
    <3>3. ServiceEntry(r, s, a).name = s /\ ServiceEntry(r, s, a).region = r
      BY DEF ServiceEntry
    <3>4. \A e \in ToSet(services) \ old : e \in ToSet(services')
      BY <1>4
    <3> QED BY <3>1, <3>2, <3>3, <3>4
  <2>4. (\E e \in ToSet(services) : e.name = s /\ e.region = q) <=>
          \/ \E e \in ToSet(services) \ old : e.name = s /\ e.region = q
          \/ \E e \in old : e \in ToSet(services) /\ e.name = s /\ e.region = q
    OBVIOUS
  <2>5. (\E e \in old : e \in ToSet(services) /\ e.name = s /\ e.region = q)
          => s \in ToSet(S) /\ q = r
    BY <1>17
  <2>6. q \in ToSet(svcIndex[s]) <=> \E e \in ToSet(services) : e.name = s /\ e.region = q
    BY <1>3
  <2> QED BY <2>2, <2>3, <2>4, <2>5, <2>6
<1>15. \A e \in ToSet(services') : e.region \in regIndex'
  BY <1>3, <1>4 DEF ServiceEntry
<1>16. \A s \in Services :
         ToSet(svcIndex'[s]) = {e.region : e \in {x \in ToSet(services') : x.name = s}}
  BY <1>14
<1> QED BY <1>12, <1>13, <1>15, <1>16 DEF ServicesIndexed, Distinct

(* What PutPayloads leaves in the list.                                    *)
LEMMA PutPayloadsEffect ==
  ASSUME PayloadsTyped, NEW r \in Regions, NEW P, Names(P, Payloads), NEW a \in Nat,
         PutPayloads(r, P, a)
  PROVE  /\ PayloadsTyped'
         /\ ToSet(payloads') =
              (ToSet(payloads) \ {e \in ToSet(payloads) : e.id \in ToSet(P) /\ e.id \in payIndex})
                \cup {PayloadEntry(r, p, a) : p \in ToSet(P)}
         /\ payIndex' = payIndex \cup ToSet(P)
<1> DEFINE old == {e \in ToSet(payloads) : e.id \in ToSet(P) /\ e.id \in payIndex}
           N == [i \in 1..Len(P) |-> PayloadEntry(r, P[i], a)]
<1>1. payloads \in Seq(PayloadEntries) /\ payIndex \subseteq Payloads
  BY DEF PayloadsTyped
<1>2. payloads' = Without(payloads, old) \o N
  BY DEF PutPayloads
<1>3. payIndex' = payIndex \cup ToSet(P)
  BY DEF PutPayloads
<1>4. N \in Seq(PayloadEntries) /\ ToSet(N) = {PayloadEntry(r, p, a) : p \in ToSet(P)}
  BY NewPayloads
<1>5. ToSet(P) \subseteq Payloads
  BY ListSet DEF Names
<1>6. old = {e \in ToSet(payloads) : e.id \in ToSet(P) /\ e.id \in payIndex}
  OBVIOUS
<1> HIDE DEF old, N
<1>7. Without(payloads, old) \in Seq(PayloadEntries)
        /\ ToSet(Without(payloads, old)) = ToSet(payloads) \ old
  BY <1>1, WithoutList
<1>8. payloads' \in Seq(PayloadEntries) /\ ToSet(payloads') = (ToSet(payloads) \ old) \cup ToSet(N)
  BY <1>2, <1>4, <1>7, ConcatList
<1>9. PayloadsTyped'
  BY <1>1, <1>3, <1>5, <1>8 DEF PayloadsTyped
<1> QED BY <1>3, <1>4, <1>6, <1>8, <1>9

(* PutPayloads keeps list and index of the payloads together.              *)
LEMMA PutPayloadsIndexed ==
  ASSUME PayloadsTyped, PayloadsIndexed,
         NEW r \in Regions, NEW P, Names(P, Payloads), NEW a \in Nat,
         PutPayloads(r, P, a), r \in regIndex', regIndex \subseteq regIndex'
  PROVE  PayloadsIndexed'
<1> DEFINE old == {e \in ToSet(payloads) : e.id \in ToSet(P) /\ e.id \in payIndex}
           w == Without(payloads, old)
           N == [i \in 1..Len(P) |-> PayloadEntry(r, P[i], a)]
<1>1. payloads \in Seq(PayloadEntries)
  BY DEF PayloadsTyped
<1>2. /\ \A i, j \in 1..Len(payloads) : payloads[i].id = payloads[j].id => i = j
      /\ \A p : p \in payIndex <=> \E e \in ToSet(payloads) : e.id = p
      /\ \A e \in ToSet(payloads) : e.region \in regIndex
  BY DEF PayloadsIndexed, Distinct
<1>3. /\ ToSet(payloads') = (ToSet(payloads) \ old) \cup {PayloadEntry(r, p, a) : p \in ToSet(P)}
      /\ payIndex' = payIndex \cup ToSet(P)
  BY PutPayloadsEffect
<1>4. payloads' = w \o N
  BY DEF PutPayloads
<1>5. \A e : e \in old <=> e \in ToSet(payloads) /\ e.id \in ToSet(P)
  BY <1>2
<1> HIDE DEF old
<1>6. w \in Seq(PayloadEntries) /\ ToSet(w) = ToSet(payloads) \ old
  BY <1>1, WithoutList
<1>16. \A j, k \in 1..Len(w) : w[j].id = w[k].id => j = k
  BY <1>1, <1>2, PayloadsDistinct
<1>7. /\ N \in Seq(PayloadEntries) /\ Len(N) = Len(P) /\ Len(P) \in Nat
      /\ \A i \in 1..Len(P) : N[i].region = r /\ N[i].id = P[i]
  BY NewPayloads
<1> HIDE DEF w, N
<1>8. /\ Len(w) \in Nat /\ Len(w \o N) = Len(w) + Len(N)
      /\ \A i \in 1..Len(w) : (w \o N)[i] = w[i]
      /\ \A i \in 1..Len(N) : (w \o N)[Len(w) + i] = N[i]
      /\ \A k \in 1..Len(w \o N) : k \in 1..Len(w) \/ \E i \in 1..Len(N) : k = Len(w) + i
  <2>1. w \in Seq(PayloadEntries) /\ N \in Seq(PayloadEntries)
    BY <1>6, <1>7
  <2>2. Len(w \o N) = Len(w) + Len(N)
    BY <2>1, ConcatList
  <2>3. \A i \in 1..Len(w) : (w \o N)[i] = w[i]
    BY <2>1, ConcatList
  <2>4. \A i \in 1..Len(N) : (w \o N)[Len(w) + i] = N[i]
    BY <2>1, ConcatList
  <2>5. \A k \in 1..Len(w \o N) : k \in 1..Len(w) \/ \E i \in 1..Len(N) : k = Len(w) + i
    BY <2>1, ConcatList
  <2>6. Len(w) \in Nat
    BY <2>1, ListSet
  <2> QED BY <2>2, <2>3, <2>4, <2>5, <2>6
<1>9. \A i \in 1..Len(w) : w[i].id \notin ToSet(P)
  <2>1. \A i \in 1..Len(w) : w[i] \in ToSet(w)
    BY <1>6, ListSet
  <2> QED BY <2>1, <1>5, <1>6
<1>10. DOMAIN P = 1..Len(P) /\ \A i, j \in 1..Len(P) : P[i] = P[j] => i = j
  BY DEF Names
<1>11. \A i \in 1..Len(N) : N[i].id \in ToSet(P)
  <2>1. \A i \in 1..Len(P) : P[i] \in ToSet(P)
    BY <1>10 DEF ToSet
  <2> QED BY <2>1, <1>7
<1>12. Distinct(payloads, LAMBDA e : e.id)'
  <2>1. SUFFICES ASSUME NEW j \in 1..Len(w \o N), NEW k \in 1..Len(w \o N),
                        (w \o N)[j].id = (w \o N)[k].id
                 PROVE  j = k
    BY <1>4 DEF Distinct
  <2>2. CASE j \in 1..Len(w) /\ k \in 1..Len(w)
    <3>1. w[j].id = w[k].id
      BY <2>1, <2>2, <1>8
    <3> QED BY <3>1, <2>2, <1>16
  <2>3. ASSUME NEW i \in 1..Len(w), j = i, NEW h \in 1..Len(N), k = Len(w) + h PROVE FALSE
    BY <2>1, <2>3, <1>8, <1>9, <1>11
  <2>4. ASSUME NEW i \in 1..Len(w), k = i, NEW h \in 1..Len(N), j = Len(w) + h PROVE FALSE
    BY <2>1, <2>4, <1>8, <1>9, <1>11
  <2>5. ASSUME NEW i \in 1..Len(N), j = Len(w) + i, NEW h \in 1..Len(N), k = Len(w) + h
        PROVE  j = k
    BY <2>1, <2>5, <1>7, <1>8, <1>10
  <2> QED BY <2>2, <2>3, <2>4, <2>5, <1>8
<1>13. ASSUME NEW p
       PROVE  p \in payIndex' <=> \E e \in ToSet(payloads') : e.id = p
  <2>1. (\E e \in ToSet(payloads') : e.id = p) <=>
          \/ \E e \in ToSet(payloads) \ old : e.id = p
          \/ p \in ToSet(P)
    <3>1. ASSUME NEW e \in ToSet(payloads'), e.id = p
          PROVE  e \in ToSet(payloads) \ old \/ p \in ToSet(P)
      BY <3>1, <1>3, PayloadEntryFields
    <3>2. p \in ToSet(P) => PayloadEntry(r, p, a) \in ToSet(payloads')
      BY <1>3
    <3>3. PayloadEntry(r, p, a).id = p
      BY PayloadEntryFields
    <3>4. \A e \in ToSet(payloads) \ old : e \in ToSet(payloads')
      BY <1>3
    <3> QED BY <3>1, <3>2, <3>3, <3>4
  <2>2. p \in payIndex <=> \E e \in ToSet(payloads) : e.id = p
    BY <1>2
  <2>3. p \notin ToSet(P) => \A e \in ToSet(payloads) : e.id = p => e \notin old
    BY <1>5
  <2> QED BY <1>3, <2>1, <2>2, <2>3
<1>14. \A e \in ToSet(payloads') : e.region \in regIndex'
  BY <1>2, <1>3, PayloadEntryFields
<1>15. {e.id : e \in ToSet(payloads')} = payIndex'
  BY <1>13
<1> QED BY <1>12, <1>14, <1>15 DEF PayloadsIndexed, Distinct

Typed == RegionsTyped /\ ServicesTyped /\ PayloadsTyped

(* What Drop leaves in the lists and the indexes.                          *)
LEMMA DropEffect ==
  ASSUME Typed, NEW R, NEW L, NEW O, Drop(R, L, O)
  PROVE  /\ Typed'
         /\ ToSet(regions') = {e \in ToSet(regions) : e.id \notin R}
         /\ regIndex' = regIndex \ R
         /\ ToSet(services') =
              {e \in ToSet(services) : e.region \notin R /\ <<e.region, e.name>> \notin L}
         /\ \A s \in Services : \A q :
              q \in ToSet(svcIndex'[s]) <=>
                /\ q \in ToSet(svcIndex[s])
                /\ ~ \E e \in ToSet(services) :
                     /\ e.region = q /\ e.name = s
                     /\ q \in R \/ <<q, s>> \in L
         /\ ToSet(payloads') = {e \in ToSet(payloads) : e.region \notin R /\ e.id \notin O}
         /\ \A p : p \in payIndex' <=>
              /\ p \in payIndex
              /\ ~ \E e \in ToSet(payloads) : e.id = p /\ (e.region \in R \/ p \in O)
<1> DEFINE goneReg == {e \in ToSet(regions) : e.id \in R}
           goneSvc == {e \in ToSet(services) : e.region \in R \/ <<e.region, e.name>> \in L}
           gonePay == {e \in ToSet(payloads) : e.region \in R \/ e.id \in O}
           gone(s) == {e.region : e \in {x \in goneSvc : x.name = s}}
<1>1. /\ regions \in Seq(RegionEntries) /\ regIndex \subseteq Regions
      /\ services \in Seq(ServiceEntries) /\ \A s \in Services : svcIndex[s] \in Seq(Regions)
      /\ payloads \in Seq(PayloadEntries) /\ payIndex \subseteq Payloads
  BY DEF Typed, RegionsTyped, ServicesTyped, PayloadsTyped
<1>2. /\ regions' = Without(regions, goneReg) /\ regIndex' = regIndex \ R
      /\ services' = Without(services, goneSvc)
      /\ svcIndex' = [s \in Services |-> Without(svcIndex[s], gone(s))]
      /\ payloads' = Without(payloads, gonePay)
      /\ payIndex' = payIndex \ {e.id : e \in gonePay}
  BY DEF Drop
<1>3. ASSUME NEW s \in Services, NEW q
      PROVE  q \in gone(s) <=> \E e \in ToSet(services) :
                                 /\ e.region = q /\ e.name = s
                                 /\ q \in R \/ <<q, s>> \in L
  OBVIOUS
<1>4. ASSUME NEW p
      PROVE  p \in {e.id : e \in gonePay} <=>
               \E e \in ToSet(payloads) : e.id = p /\ (e.region \in R \/ p \in O)
  OBVIOUS
<1>5. /\ ToSet(regions) \ goneReg = {e \in ToSet(regions) : e.id \notin R}
      /\ ToSet(services) \ goneSvc =
           {e \in ToSet(services) : e.region \notin R /\ <<e.region, e.name>> \notin L}
      /\ ToSet(payloads) \ gonePay = {e \in ToSet(payloads) : e.region \notin R /\ e.id \notin O}
  OBVIOUS
<1> HIDE DEF goneReg, goneSvc, gonePay, gone
<1>6. regions' \in Seq(RegionEntries) /\ ToSet(regions') = ToSet(regions) \ goneReg
  BY <1>1, <1>2, WithoutList
<1>7. services' \in Seq(ServiceEntries) /\ ToSet(services') = ToSet(services) \ goneSvc
  BY <1>1, <1>2, WithoutList
<1>8. payloads' \in Seq(PayloadEntries) /\ ToSet(payloads') = ToSet(payloads) \ gonePay
  BY <1>1, <1>2, WithoutList
<1>9. \A s \in Services : /\ Without(svcIndex[s], gone(s)) \in Seq(Regions)
                          /\ ToSet(Without(svcIndex[s], gone(s))) = ToSet(svcIndex[s]) \ gone(s)
  BY <1>1, WithoutList
<1>10. svcIndex' \in [Services -> Seq(Regions)]
  BY <1>2, <1>9
<1>11. \A s \in Services : \A q :
         q \in ToSet(svcIndex'[s]) <=> q \in ToSet(svcIndex[s]) /\ q \notin gone(s)
  BY <1>2, <1>9
<1>12. Typed'
  BY <1>1, <1>2, <1>6, <1>7, <1>8, <1>10 DEF Typed, RegionsTyped, ServicesTyped, PayloadsTyped
<1>13. \A p : p \in payIndex' <=>
              /\ p \in payIndex
              /\ ~ \E e \in ToSet(payloads) : e.id = p /\ (e.region \in R \/ p \in O)
  BY <1>2, <1>4
<1>14. \A s \in Services : \A q :
              q \in ToSet(svcIndex'[s]) <=>
                /\ q \in ToSet(svcIndex[s])
                /\ ~ \E e \in ToSet(services) :
                     /\ e.region = q /\ e.name = s
                     /\ q \in R \/ <<q, s>> \in L
  BY <1>3, <1>11
<1> QED BY <1>2, <1>5, <1>6, <1>7, <1>8, <1>12, <1>13, <1>14

(* No list without some of its entries has a key twice that it had once.   *)
LEMMA DropDistinct ==
  ASSUME Typed, IndexExact, NEW R, NEW L, NEW O, Drop(R, L, O)
  PROVE  /\ \A i, j \in 1..Len(regions') : regions'[i].id = regions'[j].id => i = j
         /\ \A i, j \in 1..Len(services') :
              services'[i].region = services'[j].region /\ services'[i].name = services'[j].name
                => i = j
         /\ \A s \in Services :
              \A i, j \in 1..Len(svcIndex'[s]) : svcIndex'[s][i] = svcIndex'[s][j] => i = j
         /\ \A i, j \in 1..Len(payloads') : payloads'[i].id = payloads'[j].id => i = j
<1> DEFINE goneSvc == {e \in ToSet(services) : e.region \in R \/ <<e.region, e.name>> \in L}
           gone(s) == {e.region : e \in {x \in goneSvc : x.name = s}}
<1>1. /\ regions \in Seq(RegionEntries)
      /\ services \in Seq(ServiceEntries) /\ \A s \in Services : svcIndex[s] \in Seq(Regions)
      /\ payloads \in Seq(PayloadEntries)
  BY DEF Typed, RegionsTyped, ServicesTyped, PayloadsTyped
<1>2. /\ \A i, j \in 1..Len(regions) : regions[i].id = regions[j].id => i = j
      /\ \A i, j \in 1..Len(services) :
           services[i].region = services[j].region /\ services[i].name = services[j].name => i = j
      /\ \A s \in Services :
           \A i, j \in 1..Len(svcIndex[s]) : svcIndex[s][i] = svcIndex[s][j] => i = j
      /\ \A i, j \in 1..Len(payloads) : payloads[i].id = payloads[j].id => i = j
  BY DEF IndexExact, RegionsIndexed, ServicesIndexed, PayloadsIndexed, Distinct
<1>3. /\ \E G : regions' = Without(regions, G)
      /\ \E G : services' = Without(services, G)
      /\ \E G : payloads' = Without(payloads, G)
  BY DEF Drop
<1>4. \A s \in Services : \E G : svcIndex'[s] = Without(svcIndex[s], G)
  BY DEF Drop
<1>5. \A i, j \in 1..Len(regions') : regions'[i].id = regions'[j].id => i = j
  <2>1. PICK G : regions' = Without(regions, G)
    BY <1>3
  <2>2. \A i, j \in 1..Len(regions) : regions[i].id = regions[j].id => i = j
    BY <1>2
  <2>3. regions \in Seq(RegionEntries)
    BY <1>1
  <2>4. \A i, j \in 1..Len(Without(regions, G)) : Without(regions, G)[i].id = Without(regions, G)[j].id => i = j
    BY <2>2, <2>3, RegionsDistinct
  <2> QED BY <2>1, <2>4
<1>6. \A i, j \in 1..Len(services') :
        services'[i].region = services'[j].region /\ services'[i].name = services'[j].name => i = j
  <2>1. PICK G : services' = Without(services, G)
    BY <1>3
  <2>2. \A i, j \in 1..Len(services) : services[i].region = services[j].region /\ services[i].name = services[j].name => i = j
    BY <1>2
  <2>3. services \in Seq(ServiceEntries)
    BY <1>1
  <2>4. \A i, j \in 1..Len(Without(services, G)) : Without(services, G)[i].region = Without(services, G)[j].region /\ Without(services, G)[i].name = Without(services, G)[j].name => i = j
    BY <2>2, <2>3, ServicesDistinct
  <2> QED BY <2>1, <2>4
<1>7. \A i, j \in 1..Len(payloads') : payloads'[i].id = payloads'[j].id => i = j
  <2>1. PICK G : payloads' = Without(payloads, G)
    BY <1>3
  <2>2. \A i, j \in 1..Len(payloads) : payloads[i].id = payloads[j].id => i = j
    BY <1>2
  <2>3. payloads \in Seq(PayloadEntries)
    BY <1>1
  <2>4. \A i, j \in 1..Len(Without(payloads, G)) : Without(payloads, G)[i].id = Without(payloads, G)[j].id => i = j
    BY <2>2, <2>3, PayloadsDistinct
  <2> QED BY <2>1, <2>4
<1>8. ASSUME NEW s \in Services
      PROVE  \A i, j \in 1..Len(svcIndex'[s]) : svcIndex'[s][i] = svcIndex'[s][j] => i = j
  <2>1. PICK G : svcIndex'[s] = Without(svcIndex[s], G)
    BY <1>4
  <2>2. \A i, j \in 1..Len(svcIndex[s]) : svcIndex[s][i] = svcIndex[s][j] => i = j
    BY <1>2
  <2>3. svcIndex[s] \in Seq(Regions)
    BY <1>1
  <2>4. \A i, j \in 1..Len(Without(svcIndex[s], G)) : Without(svcIndex[s], G)[i] = Without(svcIndex[s], G)[j] => i = j
    BY <2>2, <2>3, TurnsDistinct
  <2> QED BY <2>1, <2>4
<1> QED BY <1>5, <1>6, <1>7, <1>8

(* Drop keeps lists and indexes together: nothing is left that points to a *)
(* region that went.                                                       *)
LEMMA DropIndexed ==
  ASSUME Typed, IndexExact, NEW R, NEW L, NEW O, Drop(R, L, O)
  PROVE  IndexExact'
<1>1. /\ \A q : q \in regIndex <=> \E e \in ToSet(regions) : e.id = q
      /\ \A s \in Services : \A q : q \in ToSet(svcIndex[s]) <=>
           \E e \in ToSet(services) : e.name = s /\ e.region = q
      /\ \A e \in ToSet(services) : e.region \in regIndex
      /\ \A p : p \in payIndex <=> \E e \in ToSet(payloads) : e.id = p
      /\ \A e \in ToSet(payloads) : e.region \in regIndex
      /\ \A i, j \in 1..Len(payloads) : payloads[i].id = payloads[j].id => i = j
  <2>1. /\ \A s \in Services : \A q : q \in ToSet(svcIndex[s]) <=>
             \E e \in ToSet(services) : e.name = s /\ e.region = q
        /\ \A e \in ToSet(services) : e.region \in regIndex
    BY IndexMembers DEF IndexExact, ServicesIndexed
  <2>2. \A q : q \in regIndex <=> \E e \in ToSet(regions) : e.id = q
    BY DEF IndexExact, RegionsIndexed
  <2>3. /\ \A p : p \in payIndex <=> \E e \in ToSet(payloads) : e.id = p
        /\ \A e \in ToSet(payloads) : e.region \in regIndex
    BY DEF IndexExact, PayloadsIndexed
  <2>4. \A i, j \in 1..Len(payloads) : payloads[i].id = payloads[j].id => i = j
    BY DEF IndexExact, PayloadsIndexed, Distinct
  <2> QED BY <2>1, <2>2, <2>3, <2>4
<1>2. /\ ToSet(regions') = {e \in ToSet(regions) : e.id \notin R}
      /\ regIndex' = regIndex \ R
      /\ ToSet(services') =
           {e \in ToSet(services) : e.region \notin R /\ <<e.region, e.name>> \notin L}
      /\ \A s \in Services : \A q :
           q \in ToSet(svcIndex'[s]) <=>
             /\ q \in ToSet(svcIndex[s])
             /\ ~ \E e \in ToSet(services) :
                  /\ e.region = q /\ e.name = s
                  /\ q \in R \/ <<q, s>> \in L
      /\ ToSet(payloads') = {e \in ToSet(payloads) : e.region \notin R /\ e.id \notin O}
      /\ \A p : p \in payIndex' <=>
           /\ p \in payIndex
           /\ ~ \E e \in ToSet(payloads) : e.id = p /\ (e.region \in R \/ p \in O)
  BY DropEffect
<1>3. RegionsIndexed'
  <2>1. {e.id : e \in ToSet(regions')} = regIndex'
    BY <1>1, <1>2
  <2> QED BY <2>1, DropDistinct DEF RegionsIndexed, Distinct
<1>4. ServicesIndexed'
  <2>1. ASSUME NEW s \in Services, NEW q
        PROVE  q \in ToSet(svcIndex'[s]) <=>
                 \E e \in ToSet(services') : e.name = s /\ e.region = q
    <3>1. q \in ToSet(svcIndex[s]) <=> \E e \in ToSet(services) : e.name = s /\ e.region = q
      BY <1>1
    <3>2. q \in ToSet(svcIndex'[s]) <=>
            /\ q \in ToSet(svcIndex[s])
            /\ ~ \E e \in ToSet(services) :
                 e.region = q /\ e.name = s /\ (q \in R \/ <<q, s>> \in L)
      BY <1>2
    <3>3. ASSUME NEW e, e.region = q, e.name = s
          PROVE  e \in ToSet(services') <=>
                   e \in ToSet(services) /\ ~ (q \in R \/ <<q, s>> \in L)
      BY <3>3, <1>2
    <3> QED BY <3>1, <3>2, <3>3
  <2>2. \A s \in Services :
          ToSet(svcIndex'[s]) = {e.region : e \in {x \in ToSet(services') : x.name = s}}
    BY <2>1
  <2>3. \A e \in ToSet(services') : e.region \in regIndex'
    BY <1>1, <1>2
  <2> QED BY <2>2, <2>3, DropDistinct DEF ServicesIndexed, Distinct
<1>5. PayloadsIndexed'
  <2>0. payloads \in Seq(PayloadEntries)
    BY DEF Typed, PayloadsTyped
  <2>1. \A e, x \in ToSet(payloads) : e.id = x.id => e = x
    BY <1>1, <2>0, ListSet
  <2>2. {e.id : e \in ToSet(payloads')} = payIndex'
    BY <1>1, <1>2, <2>1
  <2>3. \A e \in ToSet(payloads') : e.region \in regIndex'
    BY <1>1, <1>2
  <2> QED BY <2>2, <2>3, DropDistinct DEF PayloadsIndexed, Distinct
<1> QED BY <1>3, <1>4, <1>5 DEF IndexExact

-----------------------------------------------------------------------------
(* Types and index, step by step.                                          *)

LEMMA TypeParts == TypeOK <=> Typed /\ checked \in BOOLEAN
BY DEF TypeOK, Typed, RegionsTyped, ServicesTyped, PayloadsTyped,
   RegionEntries, ServiceEntries, PayloadEntries

TableInv == Typed /\ IndexExact

(* Without the list of a region's entry and with a new one at the end.     *)
LEMMA RegionsPut ==
  ASSUME Typed, RegionsIndexed, NEW r \in Regions, NEW a \in Nat, NEW G,
         \A e \in ToSet(regions) : e \in G <=> e.id = r,
         regions' = Append(Without(regions, G), RegionEntry(r, a)),
         regIndex' = regIndex \cup {r}
  PROVE  RegionsTyped' /\ RegionsIndexed'
<1> DEFINE w == Without(regions, G)
           x == RegionEntry(r, a)
<1>1. regions \in Seq(RegionEntries) /\ regIndex \subseteq Regions
  BY DEF Typed, RegionsTyped
<1>2. /\ \A i, j \in 1..Len(regions) : regions[i].id = regions[j].id => i = j
      /\ \A q : q \in regIndex <=> \E e \in ToSet(regions) : e.id = q
  BY DEF RegionsIndexed, Distinct
<1>3. x \in RegionEntries /\ x.id = r
  BY DEF RegionEntry, RegionEntries
<1>4. w \in Seq(RegionEntries) /\ ToSet(w) = ToSet(regions) \ G
  BY <1>1, WithoutList
<1>5. \A i, j \in 1..Len(w) : w[i].id = w[j].id => i = j
  BY <1>1, <1>2, RegionsDistinct
<1> HIDE DEF w, x
<1>6. /\ Append(w, x) \in Seq(RegionEntries) /\ Len(Append(w, x)) = Len(w) + 1
      /\ ToSet(Append(w, x)) = ToSet(w) \cup {x}
      /\ \A i \in 1..Len(w) : Append(w, x)[i] = w[i]
      /\ Append(w, x)[Len(w) + 1] = x
  BY <1>3, <1>4, AppendList
<1>7. Len(w) \in Nat /\ \A i \in 1..Len(w) : w[i] \in ToSet(w)
  BY <1>4, ListSet
<1>8. \A i \in 1..Len(w) : w[i].id # r
  BY <1>4, <1>7
<1>9. regions' = Append(w, x)
  BY DEF w, x
<1>10. ASSUME NEW i \in 1..Len(regions'), NEW j \in 1..Len(regions'), regions'[i].id = regions'[j].id
       PROVE  i = j
  <2>1. /\ i \in 1..Len(w) \/ i = Len(w) + 1
        /\ j \in 1..Len(w) \/ j = Len(w) + 1
    BY <1>6, <1>7, <1>9
  <2> QED BY <2>1, <1>3, <1>5, <1>6, <1>8, <1>9, <1>10
<1>11. ASSUME NEW q PROVE q \in regIndex' <=> \E e \in ToSet(regions') : e.id = q
  BY <1>2, <1>3, <1>4, <1>6, <1>9
<1>12. {e.id : e \in ToSet(regions')} = regIndex'
  BY <1>11
<1>13. RegionsTyped'
  BY <1>1, <1>6, <1>9 DEF RegionsTyped
<1> QED BY <1>10, <1>12, <1>13 DEF RegionsIndexed, Distinct

LEMMA MergeInv ==
  ASSUME TableInv, NEW r \in Regions, NEW S, Names(S, Services), NEW P, Names(P, Payloads),
         NEW a \in Nat, merge(r, S, P, a)
  PROVE  TableInv'
<1>1. /\ r \notin regIndex /\ regIndex' = regIndex \cup {r}
      /\ regions' = Append(regions, RegionEntry(r, a))
      /\ PutServices(r, S, a) /\ PutPayloads(r, P, a)
  BY DEF merge
<1>2. Typed /\ RegionsIndexed /\ ServicesIndexed /\ PayloadsIndexed
  BY DEF TableInv, IndexExact
<1>3. RegionsTyped' /\ RegionsIndexed'
  <2>1. regions \in Seq(RegionEntries)
    BY <1>2 DEF Typed, RegionsTyped
  <2>2. \A e \in ToSet(regions) : e \in {} <=> e.id = r
    BY <1>1, <1>2 DEF RegionsIndexed
  <2>3. Without(regions, {}) = regions
    BY <2>1, WithoutNothing
  <2> QED BY <1>1, <1>2, <2>2, <2>3, RegionsPut
<1>4. ServicesTyped' /\ ServicesIndexed'
  <2>1. ServicesTyped /\ r \in regIndex' /\ regIndex \subseteq regIndex'
    BY <1>1, <1>2 DEF Typed
  <2> QED BY <1>1, <1>2, <2>1, PutServicesEffect, PutServicesIndexed
<1>5. PayloadsTyped' /\ PayloadsIndexed'
  <2>1. PayloadsTyped /\ r \in regIndex' /\ regIndex \subseteq regIndex'
    BY <1>1, <1>2 DEF Typed
  <2> QED BY <1>1, <1>2, <2>1, PutPayloadsEffect, PutPayloadsIndexed
<1> QED BY <1>3, <1>4, <1>5 DEF TableInv, Typed, IndexExact

LEMMA OnRegionInv ==
  ASSUME TableInv, NEW r \in Regions, onRegion(r)
  PROVE  TableInv'
<1> DEFINE G == {e \in ToSet(regions) : e.id = r}
<1>1. /\ r \in regIndex
      /\ regions' = Append(Without(regions, G), RegionEntry(r, 0))
      /\ UNCHANGED <<services, payloads, regIndex, svcIndex, payIndex>>
  BY DEF onRegion, indexes
<1>2. Typed /\ RegionsIndexed /\ ServicesIndexed /\ PayloadsIndexed
  BY DEF TableInv, IndexExact
<1>3. \A e \in ToSet(regions) : e \in G <=> e.id = r
  OBVIOUS
<1>4. regIndex' = regIndex \cup {r} /\ 0 \in Nat
  BY <1>1
<1> HIDE DEF G
<1>5. RegionsTyped' /\ RegionsIndexed'
  BY <1>1, <1>2, <1>3, <1>4, RegionsPut
<1>6. ServicesTyped' /\ PayloadsTyped'
  BY <1>1, <1>2 DEF Typed, ServicesTyped, PayloadsTyped
<1>7. ServicesIndexed' /\ PayloadsIndexed'
  BY <1>1, <1>2 DEF ServicesIndexed, PayloadsIndexed, Distinct
<1> QED BY <1>5, <1>6, <1>7 DEF TableInv, Typed, IndexExact

LEMMA OnServiceInv ==
  ASSUME TableInv, NEW r \in Regions, NEW s \in Services, onService(r, s)
  PROVE  TableInv'
<1>1. /\ r \in regIndex /\ PutServices(r, <<s>>, 0)
      /\ UNCHANGED <<regions, regIndex, payloads, payIndex>>
  BY DEF onService
<1>2. Typed /\ RegionsIndexed /\ ServicesIndexed /\ PayloadsIndexed
  BY DEF TableInv, IndexExact
<1>3. Names(<<s>>, Services) /\ 0 \in Nat
  BY OneName
<1>4. ServicesTyped /\ r \in regIndex' /\ regIndex \subseteq regIndex'
  BY <1>1, <1>2 DEF Typed
<1>5. ServicesTyped' /\ ServicesIndexed'
  BY <1>1, <1>2, <1>3, <1>4, PutServicesEffect, PutServicesIndexed
<1>6. RegionsTyped' /\ PayloadsTyped'
  BY <1>1, <1>2 DEF Typed, RegionsTyped, PayloadsTyped
<1>7. RegionsIndexed' /\ PayloadsIndexed'
  BY <1>1, <1>2 DEF RegionsIndexed, PayloadsIndexed, Distinct
<1> QED BY <1>5, <1>6, <1>7 DEF TableInv, Typed, IndexExact

LEMMA OnPayloadInv ==
  ASSUME TableInv, NEW r \in Regions, NEW p \in Payloads, onPayload(r, p)
  PROVE  TableInv'
<1>1. /\ r \in regIndex /\ PutPayloads(r, <<p>>, 0)
      /\ UNCHANGED <<regions, regIndex, services, svcIndex>>
  BY DEF onPayload
<1>2. Typed /\ RegionsIndexed /\ ServicesIndexed /\ PayloadsIndexed
  BY DEF TableInv, IndexExact
<1>3. Names(<<p>>, Payloads) /\ 0 \in Nat
  BY OneName
<1>4. PayloadsTyped /\ r \in regIndex' /\ regIndex \subseteq regIndex'
  BY <1>1, <1>2 DEF Typed
<1>5. PayloadsTyped' /\ PayloadsIndexed'
  BY <1>1, <1>2, <1>3, <1>4, PutPayloadsEffect, PutPayloadsIndexed
<1>6. RegionsTyped' /\ ServicesTyped'
  BY <1>1, <1>2 DEF Typed, RegionsTyped, ServicesTyped
<1>7. RegionsIndexed' /\ ServicesIndexed'
  BY <1>1, <1>2 DEF RegionsIndexed, ServicesIndexed, Distinct
<1> QED BY <1>5, <1>6, <1>7 DEF TableInv, Typed, IndexExact

LEMMA DropInv ==
  ASSUME TableInv, NEW R, NEW L, NEW O, Drop(R, L, O)
  PROVE  TableInv'
BY DropEffect, DropIndexed DEF TableInv

(* A list whose front went to its end.                                     *)
LEMMA RotateList ==
  ASSUME NEW T, NEW l \in Seq(T), l # <<>>
  PROVE  LET m == Append(Tail(l), Head(l)) IN
         /\ m \in Seq(T) /\ Len(m) = Len(l) /\ ToSet(m) = ToSet(l)
         /\ \A i \in 1..(Len(l) - 1) : m[i] = l[i + 1]
         /\ m[Len(l)] = l[1]
<1> DEFINE m == Append(Tail(l), Head(l))
<1>1. /\ Len(l) \in Nat \ {0} /\ Tail(l) \in Seq(T) /\ Head(l) \in T /\ Head(l) = l[1]
      /\ Len(Tail(l)) = Len(l) - 1 /\ \A i \in 1..(Len(l) - 1) : Tail(l)[i] = l[i + 1]
  OBVIOUS
<1>2. /\ m \in Seq(T) /\ Len(m) = Len(Tail(l)) + 1
      /\ \A i \in 1..Len(Tail(l)) : m[i] = Tail(l)[i]
      /\ m[Len(Tail(l)) + 1] = Head(l)
  BY <1>1, AppendList
<1> HIDE DEF m
<1>3. /\ Len(m) = Len(l) /\ \A i \in 1..(Len(l) - 1) : m[i] = l[i + 1]
      /\ m[Len(l)] = l[1]
  BY <1>1, <1>2
<1>4. \A i \in 1..Len(m) : m[i] \in ToSet(l)
  <2>1. \A i \in 1..Len(l) : l[i] \in ToSet(l)
    BY ListSet
  <2>4. 1..Len(m) = 1..Len(l)
    BY <1>3
  <2>5. Len(l) \in Nat
    BY <1>1
  <2>2. \A i \in 1..Len(m) : i = Len(l) \/ (i \in 1..(Len(l) - 1) /\ i + 1 \in 1..Len(l))
    BY <2>4, <2>5
  <2>3. 1 \in 1..Len(l)
    BY <1>1
  <2> QED BY <1>3, <2>1, <2>2, <2>3
<1>5. \A i \in 1..Len(l) : l[i] \in ToSet(m)
  <2>1. \A i \in 1..Len(m) : m[i] \in ToSet(m)
    BY <1>2, ListSet
  <2>2. \A i \in 1..Len(l) : i = 1 \/ (i - 1 \in 1..(Len(l) - 1) /\ (i - 1) + 1 = i
                                       /\ i - 1 \in 1..Len(m))
    BY <1>1, <1>3
  <2>3. Len(l) \in 1..Len(m)
    BY <1>1, <1>3
  <2> QED BY <1>3, <2>1, <2>2, <2>3
<1>6. ToSet(m) = ToSet(l)
  <2>1. \A x \in ToSet(m) : \E i \in 1..Len(m) : x = m[i]
    BY <1>2, ListSet
  <2>2. \A x \in ToSet(l) : \E i \in 1..Len(l) : x = l[i]
    BY ListSet
  <2>3. ToSet(m) \subseteq ToSet(l)
    BY <1>4, <2>1
  <2>4. ToSet(l) \subseteq ToSet(m)
    BY <1>5, <2>2
  <2> QED BY <2>3, <2>4
<1>7. QED BY <1>2, <1>3, <1>6 DEF m

LEMMA RobinInv ==
  ASSUME TableInv, NEW s \in Services, robinRouteService(s)
  PROVE  TableInv'
<1> DEFINE l == svcIndex[s]
           m == Append(Tail(l), Head(l))
<1>1. /\ l # <<>> /\ svcIndex' = [svcIndex EXCEPT ![s] = m]
      /\ UNCHANGED <<regions, services, payloads, regIndex, payIndex>>
  BY DEF robinRouteService, lists
<1>2. Typed /\ RegionsIndexed /\ ServicesIndexed /\ PayloadsIndexed
  BY DEF TableInv, IndexExact
<1>3. svcIndex \in [Services -> Seq(Regions)] /\ l \in Seq(Regions) /\ Len(l) \in Nat
  BY <1>2 DEF Typed, ServicesTyped
<1>4. /\ m \in Seq(Regions) /\ Len(m) = Len(l) /\ ToSet(m) = ToSet(l)
      /\ \A i \in 1..(Len(l) - 1) : m[i] = l[i + 1]
      /\ m[Len(l)] = l[1]
  BY <1>1, <1>3, RotateList
<1>5. \A i, j \in 1..Len(l) : l[i] = l[j] => i = j
  BY <1>2 DEF ServicesIndexed, Distinct
<1> HIDE DEF l, m
<1>6. ASSUME NEW i \in 1..Len(m), NEW j \in 1..Len(m), m[i] = m[j]
      PROVE  i = j
  <2>1. \A k \in 1..Len(m) : \/ k = Len(l) /\ m[k] = l[1] /\ 1 \in 1..Len(l)
                             \/ k # Len(l) /\ m[k] = l[k + 1] /\ k + 1 \in 1..Len(l)
    BY <1>3, <1>4
  <2> QED BY <1>3, <1>4, <1>5, <1>6, <2>1
<1>7. /\ svcIndex'[s] = m /\ \A q \in Services \ {s} : svcIndex'[q] = svcIndex[q]
      /\ svcIndex' \in [Services -> Seq(Regions)]
  BY <1>1, <1>3, <1>4
<1>8. \A q \in Services : ToSet(svcIndex'[q]) = ToSet(svcIndex[q])
  BY <1>4, <1>7 DEF l
<1>9. \A q \in Services : \A i, j \in 1..Len(svcIndex'[q]) : svcIndex'[q][i] = svcIndex'[q][j] => i = j
  <2>1. \A q \in Services : \A i, j \in 1..Len(svcIndex[q]) : svcIndex[q][i] = svcIndex[q][j] => i = j
    BY <1>2 DEF ServicesIndexed, Distinct
  <2> QED BY <2>1, <1>6, <1>7
<1>10. ServicesIndexed'
  <2>1. \A q \in Services :
          ToSet(svcIndex'[q]) = {e.region : e \in {x \in ToSet(services') : x.name = q}}
    BY <1>1, <1>2, <1>8 DEF ServicesIndexed
  <2>2. Distinct(services, LAMBDA e : <<e.region, e.name>>)'
    BY <1>1, <1>2 DEF ServicesIndexed, Distinct
  <2>3. \A e \in ToSet(services') : e.region \in regIndex'
    BY <1>1, <1>2 DEF ServicesIndexed
  <2> QED BY <1>9, <2>1, <2>2, <2>3 DEF ServicesIndexed, Distinct
<1>11. RegionsIndexed' /\ PayloadsIndexed'
  BY <1>1, <1>2 DEF RegionsIndexed, PayloadsIndexed, Distinct
<1>12. Typed'
  BY <1>1, <1>2, <1>7 DEF Typed, RegionsTyped, ServicesTyped, PayloadsTyped
<1> QED BY <1>10, <1>11, <1>12 DEF TableInv, IndexExact

(* A list whose entries are all a tick older.                              *)
LEMMA OlderRegions ==
  ASSUME NEW l \in Seq(RegionEntries)
  PROVE  LET m == [i \in 1..Len(l) |-> [l[i] EXCEPT !.age = @ + 1]] IN
         /\ m \in Seq(RegionEntries) /\ Len(m) = Len(l)
         /\ \A i \in 1..Len(l) : m[i].id = l[i].id
         /\ \A i \in 1..Len(l) : m[i].age = l[i].age + 1
<1> DEFINE m == [i \in 1..Len(l) |-> [l[i] EXCEPT !.age = @ + 1]]
<1>1. Len(l) \in Nat /\ \A i \in 1..Len(l) : l[i] \in RegionEntries
  OBVIOUS
<1>2. \A e \in RegionEntries :
        LET x == [e EXCEPT !.age = @ + 1] IN
        /\ x \in RegionEntries /\ x.id = e.id
        /\ x.age = e.age + 1
  BY DEF RegionEntries
<1>3. \A i \in 1..Len(l) : m[i] = [l[i] EXCEPT !.age = @ + 1]
  OBVIOUS
<1>4. \A i \in 1..Len(l) : [l[i] EXCEPT !.age = @ + 1] \in RegionEntries
  BY <1>1, <1>2
<1>5. m \in Seq(RegionEntries) /\ Len(m) = Len(l)
  BY <1>1, <1>4
<1> HIDE DEF m
<1>6. \A i \in 1..Len(l) : m[i].id = l[i].id /\ m[i].age = l[i].age + 1
  BY <1>1, <1>2, <1>3
<1> QED BY <1>5, <1>6 DEF m

LEMMA OlderServices ==
  ASSUME NEW l \in Seq(ServiceEntries)
  PROVE  LET m == [i \in 1..Len(l) |-> [l[i] EXCEPT !.age = @ + 1]] IN
         /\ m \in Seq(ServiceEntries) /\ Len(m) = Len(l)
         /\ \A i \in 1..Len(l) : m[i].region = l[i].region /\ m[i].name = l[i].name
         /\ \A i \in 1..Len(l) : m[i].age = l[i].age + 1
<1> DEFINE m == [i \in 1..Len(l) |-> [l[i] EXCEPT !.age = @ + 1]]
<1>1. Len(l) \in Nat /\ \A i \in 1..Len(l) : l[i] \in ServiceEntries
  OBVIOUS
<1>2. \A e \in ServiceEntries :
        LET x == [e EXCEPT !.age = @ + 1] IN
        /\ x \in ServiceEntries /\ x.region = e.region /\ x.name = e.name
        /\ x.age = e.age + 1
  BY DEF ServiceEntries
<1>3. \A i \in 1..Len(l) : m[i] = [l[i] EXCEPT !.age = @ + 1]
  OBVIOUS
<1>4. \A i \in 1..Len(l) : [l[i] EXCEPT !.age = @ + 1] \in ServiceEntries
  BY <1>1, <1>2
<1>5. m \in Seq(ServiceEntries) /\ Len(m) = Len(l)
  BY <1>1, <1>4
<1> HIDE DEF m
<1>6. \A i \in 1..Len(l) : m[i].region = l[i].region /\ m[i].name = l[i].name /\ m[i].age = l[i].age + 1
  BY <1>1, <1>2, <1>3
<1> QED BY <1>5, <1>6 DEF m

LEMMA OlderPayloads ==
  ASSUME NEW l \in Seq(PayloadEntries)
  PROVE  LET m == [i \in 1..Len(l) |-> [l[i] EXCEPT !.age = @ + 1]] IN
         /\ m \in Seq(PayloadEntries) /\ Len(m) = Len(l)
         /\ \A i \in 1..Len(l) : m[i].region = l[i].region /\ m[i].id = l[i].id
         /\ \A i \in 1..Len(l) : m[i].age = l[i].age + 1
<1> DEFINE m == [i \in 1..Len(l) |-> [l[i] EXCEPT !.age = @ + 1]]
<1>1. Len(l) \in Nat /\ \A i \in 1..Len(l) : l[i] \in PayloadEntries
  OBVIOUS
<1>2. \A e \in PayloadEntries :
        LET x == [e EXCEPT !.age = @ + 1] IN
        /\ x \in PayloadEntries /\ x.region = e.region /\ x.id = e.id
        /\ x.age = e.age + 1
  BY DEF PayloadEntries
<1>3. \A i \in 1..Len(l) : m[i] = [l[i] EXCEPT !.age = @ + 1]
  OBVIOUS
<1>4. \A i \in 1..Len(l) : [l[i] EXCEPT !.age = @ + 1] \in PayloadEntries
  BY <1>1, <1>2
<1>5. m \in Seq(PayloadEntries) /\ Len(m) = Len(l)
  BY <1>1, <1>4
<1> HIDE DEF m
<1>6. \A i \in 1..Len(l) : m[i].region = l[i].region /\ m[i].id = l[i].id /\ m[i].age = l[i].age + 1
  BY <1>1, <1>2, <1>3
<1> QED BY <1>5, <1>6 DEF m

LEMMA TickInv ==
  ASSUME TableInv, Tick
  PROVE  TableInv'
<1>1. /\ regions' = [i \in 1..Len(regions) |-> [regions[i] EXCEPT !.age = @ + 1]]
      /\ services' = [i \in 1..Len(services) |-> [services[i] EXCEPT !.age = @ + 1]]
      /\ payloads' = [i \in 1..Len(payloads) |-> [payloads[i] EXCEPT !.age = @ + 1]]
      /\ UNCHANGED <<regIndex, svcIndex, payIndex>>
  BY DEF Tick, indexes
<1>2. Typed /\ RegionsIndexed /\ ServicesIndexed /\ PayloadsIndexed
  BY DEF TableInv, IndexExact
<1>3. /\ regions \in Seq(RegionEntries) /\ services \in Seq(ServiceEntries)
      /\ payloads \in Seq(PayloadEntries)
  BY <1>2 DEF Typed, RegionsTyped, ServicesTyped, PayloadsTyped
<1>4. /\ regions' \in Seq(RegionEntries) /\ Len(regions') = Len(regions)
      /\ \A i \in 1..Len(regions) : regions'[i].id = regions[i].id
  BY <1>1, <1>3, OlderRegions
<1>5. /\ services' \in Seq(ServiceEntries) /\ Len(services') = Len(services)
      /\ \A i \in 1..Len(services) :
           services'[i].region = services[i].region /\ services'[i].name = services[i].name
  BY <1>1, <1>3, OlderServices
<1>6. /\ payloads' \in Seq(PayloadEntries) /\ Len(payloads') = Len(payloads)
      /\ \A i \in 1..Len(payloads) :
           payloads'[i].region = payloads[i].region /\ payloads'[i].id = payloads[i].id
  BY <1>1, <1>3, OlderPayloads
<1>7. Typed'
  BY <1>1, <1>2, <1>4, <1>5, <1>6 DEF Typed, RegionsTyped, ServicesTyped, PayloadsTyped
<1>8. RegionsIndexed'
  <2>1. ASSUME NEW e \in ToSet(regions')
        PROVE  \E x \in ToSet(regions) : x.id = e.id
    <3>1. PICK i \in 1..Len(regions) : e = regions'[i]
      BY <1>4, ListSet
    <3>2. regions[i] \in ToSet(regions)
      BY <1>3, ListSet
    <3> QED BY <1>4, <3>1, <3>2
  <2>2. ASSUME NEW e \in ToSet(regions)
        PROVE  \E x \in ToSet(regions') : x.id = e.id
    <3>1. PICK i \in 1..Len(regions) : e = regions[i]
      BY <1>3, ListSet
    <3>2. regions'[i] \in ToSet(regions')
      BY <1>4, ListSet
    <3> QED BY <1>4, <3>1, <3>2
  <2>3. \A q : (\E e \in ToSet(regions') : e.id = q) <=> (\E e \in ToSet(regions) : e.id = q)
    BY <2>1, <2>2
  <2>7. \A q : q \in regIndex <=> \E e \in ToSet(regions) : e.id = q
    BY <1>2 DEF RegionsIndexed
  <2>8. \A q : q \in regIndex' <=> \E e \in ToSet(regions') : e.id = q
    BY <1>1, <2>3, <2>7
  <2>4. {e.id : e \in ToSet(regions')} = regIndex'
    BY <2>8
  <2>5. \A i, j \in 1..Len(regions) : regions[i].id = regions[j].id => i = j
    BY <1>2 DEF RegionsIndexed, Distinct
  <2>6. \A i, j \in 1..Len(regions') : regions'[i].id = regions'[j].id => i = j
    BY <1>4, <2>5
  <2> QED BY <2>4, <2>6 DEF RegionsIndexed, Distinct
<1>9. ServicesIndexed'
  <2>1. ASSUME NEW e \in ToSet(services')
        PROVE  \E x \in ToSet(services) : x.region = e.region /\ x.name = e.name
    <3>1. PICK i \in 1..Len(services) : e = services'[i]
      BY <1>5, ListSet
    <3>2. services[i] \in ToSet(services)
      BY <1>3, ListSet
    <3> QED BY <1>5, <3>1, <3>2
  <2>2. ASSUME NEW e \in ToSet(services)
        PROVE  \E x \in ToSet(services') : x.region = e.region /\ x.name = e.name
    <3>1. PICK i \in 1..Len(services) : e = services[i]
      BY <1>3, ListSet
    <3>2. services'[i] \in ToSet(services')
      BY <1>5, ListSet
    <3> QED BY <1>5, <3>1, <3>2
  <2>3. \A s, q : (\E e \in ToSet(services') : e.name = s /\ e.region = q)
                   <=> (\E e \in ToSet(services) : e.name = s /\ e.region = q)
    BY <2>1, <2>2
  <2>4. \A s \in Services : \A q : q \in ToSet(svcIndex[s]) <=>
          \E e \in ToSet(services) : e.name = s /\ e.region = q
    BY <1>2, IndexMembers DEF ServicesIndexed
  <2>5. ASSUME NEW s \in Services, NEW q
        PROVE  q \in ToSet(svcIndex'[s]) <=>
                 \E e \in ToSet(services') : e.name = s /\ e.region = q
    <3>1. ToSet(svcIndex'[s]) = ToSet(svcIndex[s])
      BY <1>1
    <3> QED BY <2>3, <2>4, <3>1
  <2>6. \A s \in Services :
          ToSet(svcIndex'[s]) = {e.region : e \in {x \in ToSet(services') : x.name = s}}
    BY <2>5
  <2>7. \A e \in ToSet(services') : e.region \in regIndex'
    BY <1>1, <1>2, <2>1 DEF ServicesIndexed
  <2>8. \A i, j \in 1..Len(services) :
          services[i].region = services[j].region /\ services[i].name = services[j].name => i = j
    BY <1>2 DEF ServicesIndexed, Distinct
  <2>9. \A i, j \in 1..Len(services') :
          services'[i].region = services'[j].region /\ services'[i].name = services'[j].name => i = j
    BY <1>5, <2>8
  <2>10. \A s \in Services :
           \A i, j \in 1..Len(svcIndex'[s]) : svcIndex'[s][i] = svcIndex'[s][j] => i = j
    BY <1>1, <1>2 DEF ServicesIndexed, Distinct
  <2> QED BY <2>6, <2>7, <2>9, <2>10 DEF ServicesIndexed, Distinct
<1>10. PayloadsIndexed'
  <2>1. ASSUME NEW e \in ToSet(payloads')
        PROVE  \E x \in ToSet(payloads) : x.region = e.region /\ x.id = e.id
    <3>1. PICK i \in 1..Len(payloads) : e = payloads'[i]
      BY <1>6, ListSet
    <3>2. payloads[i] \in ToSet(payloads)
      BY <1>3, ListSet
    <3> QED BY <1>6, <3>1, <3>2
  <2>2. ASSUME NEW e \in ToSet(payloads)
        PROVE  \E x \in ToSet(payloads') : x.id = e.id
    <3>1. PICK i \in 1..Len(payloads) : e = payloads[i]
      BY <1>3, ListSet
    <3>2. payloads'[i] \in ToSet(payloads')
      BY <1>6, ListSet
    <3> QED BY <1>6, <3>1, <3>2
  <2>3. \A q : (\E e \in ToSet(payloads') : e.id = q) <=> (\E e \in ToSet(payloads) : e.id = q)
    BY <2>1, <2>2
  <2>8. \A q : q \in payIndex <=> \E e \in ToSet(payloads) : e.id = q
    BY <1>2 DEF PayloadsIndexed
  <2>9. \A q : q \in payIndex' <=> \E e \in ToSet(payloads') : e.id = q
    BY <1>1, <2>3, <2>8
  <2>4. {e.id : e \in ToSet(payloads')} = payIndex'
    BY <2>9
  <2>5. \A i, j \in 1..Len(payloads) : payloads[i].id = payloads[j].id => i = j
    BY <1>2 DEF PayloadsIndexed, Distinct
  <2>6. \A i, j \in 1..Len(payloads') : payloads'[i].id = payloads'[j].id => i = j
    BY <1>6, <2>5
  <2>7. \A e \in ToSet(payloads') : e.region \in regIndex'
    BY <1>1, <1>2, <2>1 DEF PayloadsIndexed
  <2> QED BY <2>4, <2>6, <2>7 DEF PayloadsIndexed, Distinct
<1> QED BY <1>7, <1>8, <1>9, <1>10 DEF TableInv, IndexExact

LEMMA InitInv == Init => TableInv /\ TypeOK
<1> SUFFICES ASSUME Init PROVE TableInv /\ TypeOK
  OBVIOUS
<1>1. /\ regions = <<>> /\ regIndex = {} /\ services = <<>>
      /\ svcIndex = [s \in Services |-> <<>>]
      /\ payloads = <<>> /\ payIndex = {} /\ checked = FALSE
  BY DEF Init
<1>2. ToSet(<<>>) = {} /\ Len(<<>>) = 0
  BY DEF ToSet
<1>3. Typed
  BY <1>1 DEF Typed, RegionsTyped, ServicesTyped, PayloadsTyped
<1>4. RegionsIndexed
  BY <1>1, <1>2 DEF RegionsIndexed, Distinct
<1>5. PayloadsIndexed
  BY <1>1, <1>2 DEF PayloadsIndexed, Distinct
<1>6. ServicesIndexed
  <2>1. \A s \in Services : ToSet(svcIndex[s]) = {} /\ Len(svcIndex[s]) = 0
    BY <1>1, <1>2
  <2> QED BY <1>1, <1>2, <2>1 DEF ServicesIndexed, Distinct
<1> QED BY <1>1, <1>3, <1>4, <1>5, <1>6, TypeParts DEF TableInv, IndexExact

LEMMA NextInv == TypeOK /\ TableInv /\ [Next]_vars => TypeOK' /\ TableInv'
<1> SUFFICES ASSUME TypeOK, TableInv, [Next]_vars PROVE TypeOK' /\ TableInv'
  OBVIOUS
<1>0. checked \in BOOLEAN
  BY TypeParts
<1>1. ASSUME NEW r \in Regions, NEW S \in Orders(Services),
             NEW P \in Orders(Payloads), NEW a \in 0..MergeAge, merge(r, S, P, a)
      PROVE  TableInv' /\ checked' \in BOOLEAN
  <2>1. Names(S, Services) /\ Names(P, Payloads)
    BY OrderNames, TableAssumption
  <2>2. a \in Nat
    BY TableAssumption
  <2>3. checked' = checked
    BY <1>1 DEF merge
  <2> QED BY <1>0, <1>1, <2>1, <2>2, <2>3, MergeInv
<1>2. ASSUME NEW r \in Regions, onRegion(r)
      PROVE  TableInv' /\ checked' \in BOOLEAN
  <2>1. checked' = checked
    BY <1>2 DEF onRegion
  <2> QED BY <1>0, <1>2, <2>1, OnRegionInv
<1>3. ASSUME NEW r \in Regions, onRmRegion(r)
      PROVE  TableInv' /\ checked' \in BOOLEAN
  BY <1>0, <1>3, DropInv DEF onRmRegion
<1>4. ASSUME NEW r \in Regions, NEW s \in Services, onService(r, s)
      PROVE  TableInv' /\ checked' \in BOOLEAN
  <2>1. checked' = checked
    BY <1>4 DEF onService
  <2> QED BY <1>0, <1>4, <2>1, OnServiceInv
<1>5. ASSUME NEW r \in Regions, NEW s \in Services, onRmService(r, s)
      PROVE  TableInv' /\ checked' \in BOOLEAN
  BY <1>0, <1>5, DropInv DEF onRmService
<1>6. ASSUME NEW r \in Regions, NEW p \in Payloads, onPayload(r, p)
      PROVE  TableInv' /\ checked' \in BOOLEAN
  <2>1. checked' = checked
    BY <1>6 DEF onPayload
  <2> QED BY <1>0, <1>6, <2>1, OnPayloadInv
<1>7. ASSUME NEW r \in Regions, NEW p \in Payloads, onRmPayload(r, p)
      PROVE  TableInv' /\ checked' \in BOOLEAN
  BY <1>0, <1>7, DropInv DEF onRmPayload
<1>8. ASSUME NEW s \in Services, robinRouteService(s)
      PROVE  TableInv' /\ checked' \in BOOLEAN
  <2>1. checked' = checked
    BY <1>8 DEF robinRouteService
  <2> QED BY <1>0, <1>8, <2>1, RobinInv
<1>9. ASSUME onCheckTimer
      PROVE  TableInv' /\ checked' \in BOOLEAN
  <2>1. (\E R, L, O : Drop(R, L, O)) /\ checked' = TRUE
    BY <1>9 DEF onCheckTimer
  <2> QED BY <2>1, DropInv
<1>10. ASSUME Tick
       PROVE  TableInv' /\ checked' \in BOOLEAN
  <2>1. checked' = FALSE
    BY <1>10 DEF Tick
  <2> QED BY <1>10, <2>1, TickInv
<1>11. ASSUME UNCHANGED vars
       PROVE  TableInv' /\ checked' \in BOOLEAN
  <2>1. UNCHANGED <<regions, regIndex, services, svcIndex, payloads, payIndex, checked>>
    BY <1>11 DEF vars, lists, indexes
  <2>2. Typed'
    BY <2>1 DEF TableInv, Typed, RegionsTyped, ServicesTyped, PayloadsTyped
  <2>3. RegionsIndexed' /\ PayloadsIndexed'
    BY <2>1 DEF TableInv, IndexExact, RegionsIndexed, PayloadsIndexed, Distinct
  <2>4. ServicesIndexed'
    BY <2>1 DEF TableInv, IndexExact, ServicesIndexed, Distinct
  <2>5. TableInv'
    BY <2>2, <2>3, <2>4 DEF TableInv, IndexExact
  <2>6. checked' = checked
    BY <2>1
  <2>7. checked' \in BOOLEAN
    BY <1>0, <2>6
  <2> QED BY <2>5, <2>7
<1>12. TableInv' /\ checked' \in BOOLEAN
  <2> DEFINE Goal == TableInv' /\ checked' \in BOOLEAN
  <2>1. (\E r \in Regions, S \in Orders(Services),
           P \in Orders(Payloads), a \in 0..MergeAge : merge(r, S, P, a)) => Goal
    BY <1>1
  <2>2. (\E r \in Regions : onRegion(r) \/ onRmRegion(r)) => Goal
    BY <1>2, <1>3
  <2>3. (\E r \in Regions, s \in Services : onService(r, s) \/ onRmService(r, s)) => Goal
    BY <1>4, <1>5
  <2>4. (\E r \in Regions, p \in Payloads : onPayload(r, p) \/ onRmPayload(r, p)) => Goal
    BY <1>6, <1>7
  <2>5. (\E s \in Services : robinRouteService(s)) => Goal
    BY <1>8
  <2>6. /\ onCheckTimer => Goal
        /\ Tick => Goal
        /\ UNCHANGED vars => Goal
    <3>1. onCheckTimer => Goal
      BY <1>9
    <3>2. Tick => Goal
      BY <1>10
    <3>3. UNCHANGED vars => Goal
      BY <1>11
    <3> QED BY <3>1, <3>2, <3>3
  <2> HIDE DEF Goal
  <2>7. Goal
    BY <2>1, <2>2, <2>3, <2>4, <2>5, <2>6 DEF Next
  <2> QED BY <2>7 DEF Goal
<1>13. Typed'
  BY <1>12 DEF TableInv
<1>14. TypeOK'
  BY <1>12, <1>13 DEF TypeOK, Typed, RegionsTyped, ServicesTyped, PayloadsTyped,
     RegionEntries, ServiceEntries, PayloadEntries
<1> QED BY <1>12, <1>14

LEMMA TableTypedIndexed == Spec => [](TypeOK /\ TableInv)
<1>1. Init => TypeOK /\ TableInv
  BY InitInv
<1>2. TypeOK /\ TableInv /\ [Next]_vars => (TypeOK /\ TableInv)'
  BY NextInv
<1>3. QED BY <1>1, <1>2, PTL DEF Spec

(* The lists hold entries of the program and the indexes keys of it.       *)
THEOREM TableTyped == Spec => []TypeOK
BY TableTypedIndexed, PTL

(* After every handler the lists have one entry for a key, each entry is   *)
(* indexed, each index entry points to one, and none points to a region    *)
(* that left: no erase or splice goes through an iterator left behind.     *)
THEOREM TableIndexExact == Spec => []IndexExact
<1>1. TypeOK /\ TableInv => IndexExact
  BY DEF TableInv
<1>2. QED BY <1>1, TableTypedIndexed, PTL

-----------------------------------------------------------------------------
(* Turns.                                                                  *)

AllTurnsKept == \A s \in Services : \A i \in 1..Len(svcIndex[s]) : TurnKept(s, i)

(* The list grew at its end, or not at all.                                *)
LEMMA TurnsGrow ==
  ASSUME Typed,
         \A s \in Services : svcIndex'[s] = svcIndex[s]
           \/ \E r \in Regions : svcIndex'[s] = Append(svcIndex[s], r)
  PROVE  AllTurnsKept
<1>1. \A s \in Services : svcIndex[s] \in Seq(Regions)
  BY DEF Typed, ServicesTyped
<1>2. SUFFICES ASSUME NEW s \in Services, NEW i \in 1..Len(svcIndex[s])
               PROVE  \E j \in 1..Len(svcIndex'[s]) : j <= i /\ svcIndex'[s][j] = svcIndex[s][i]
  BY DEF AllTurnsKept, TurnKept
<1>3. Len(svcIndex[s]) \in Nat
  BY <1>1
<1>4. CASE svcIndex'[s] = svcIndex[s]
  BY <1>3, <1>4
<1>5. CASE \E r \in Regions : svcIndex'[s] = Append(svcIndex[s], r)
  <2>1. PICK r \in Regions : svcIndex'[s] = Append(svcIndex[s], r)
    BY <1>5
  <2>2. /\ Len(Append(svcIndex[s], r)) = Len(svcIndex[s]) + 1
        /\ Append(svcIndex[s], r)[i] = svcIndex[s][i]
    BY <1>1, AppendList
  <2>3. i \in 1..Len(svcIndex'[s]) /\ i <= i /\ svcIndex'[s][i] = svcIndex[s][i]
    BY <1>3, <2>1, <2>2
  <2> QED BY <2>3
<1> QED BY <1>4, <1>5

(* The list lost some of its entries.                                      *)
LEMMA TurnsDrop ==
  ASSUME Typed, NEW R, NEW L, NEW O, Drop(R, L, O)
  PROVE  AllTurnsKept
<1>1. \A s \in Services : svcIndex[s] \in Seq(Regions)
  BY DEF Typed, ServicesTyped
<1>2. \A s \in Services : \E G : svcIndex'[s] = Without(svcIndex[s], G)
  BY DEF Drop
<1>3. SUFFICES ASSUME NEW s \in Services, NEW i \in 1..Len(svcIndex[s]),
                      svcIndex[s][i] \in ToSet(svcIndex'[s])
               PROVE  \E j \in 1..Len(svcIndex'[s]) : j <= i /\ svcIndex'[s][j] = svcIndex[s][i]
  BY DEF AllTurnsKept, TurnKept
<1> DEFINE l == svcIndex[s]
<1>4. PICK G : svcIndex'[s] = Without(l, G)
  BY <1>2
<1>5. l \in Seq(Regions) /\ Len(l) \in Nat
  BY <1>1
<1>6. l[i] \notin G
  <2>1. ToSet(Without(l, G)) = ToSet(l) \ G
    BY <1>5, WithoutList
  <2> QED BY <1>3, <1>4, <2>1
<1> HIDE DEF l
<1>7. 0 \in 0..Len(l) /\ \A h \in 1..0 : l[h] \in G
  BY <1>5
<1>8. \A k \in 1..Len(l) : l[k] \notin G =>
        \E j \in 1..Len(Without(l, G)) : j + 0 <= k /\ Without(l, G)[j] = l[k]
  BY <1>5, <1>7, WithoutFacts
<1>9. i \in 1..Len(l)
  BY DEF l
<1>10. PICK j \in 1..Len(Without(l, G)) : j + 0 <= i /\ Without(l, G)[j] = l[i]
  BY <1>6, <1>8, <1>9
<1>11. j <= i
  <2>1. Len(Without(l, G)) \in Nat
    BY <1>5, WithoutList, ListSet
  <2> QED BY <1>9, <1>10, <2>1, <1>5
<1> QED BY <1>4, <1>10, <1>11 DEF l

(* The front was asked.                                                    *)
LEMMA TurnsRobin ==
  ASSUME Typed, NEW t \in Services, robinRouteService(t)
  PROVE  AllTurnsKept
<1>1. \A s \in Services : svcIndex[s] \in Seq(Regions) /\ Len(svcIndex[s]) \in Nat
  BY DEF Typed, ServicesTyped
<1> DEFINE l == svcIndex[t]
           m == Append(Tail(l), Head(l))
<1>2. l # <<>> /\ svcIndex' = [svcIndex EXCEPT ![t] = m]
  BY DEF robinRouteService
<1>3. svcIndex'[t] = m /\ \A s \in Services \ {t} : svcIndex'[s] = svcIndex[s]
  BY <1>2 DEF Typed, ServicesTyped
<1>4. Len(m) = Len(l) /\ \A i \in 1..(Len(l) - 1) : m[i] = l[i + 1]
  BY <1>1, <1>2, RotateList
<1>5. ASSUME NEW s \in Services, s # t, NEW i \in 1..Len(svcIndex[s]) PROVE TurnKept(s, i)
  BY <1>1, <1>3, <1>5 DEF TurnKept
<1>6. ASSUME NEW i \in 1..Len(l), i # 1 PROVE TurnKept(t, i)
  <2>1. Len(l) \in Nat
    BY <1>1
  <2> HIDE DEF l, m
  <2>2. i - 1 \in 1..(Len(l) - 1) /\ i - 1 \in 1..Len(m) /\ i - 1 <= i /\ (i - 1) + 1 = i
    BY <1>4, <1>6, <2>1
  <2>3. m[i - 1] = l[i]
    BY <1>4, <2>2
  <2>4. \E j \in 1..Len(m) : j <= i /\ m[j] = l[i]
    BY <2>2, <2>3
  <2>5. svcIndex[t] = l
    BY DEF l
  <2> QED BY <1>3, <2>4, <2>5 DEF TurnKept
<1>7. TurnKept(t, 1)
  BY DEF TurnKept
<1>8. \A i \in 1..Len(svcIndex[t]) : TurnKept(t, i)
  BY <1>6, <1>7
<1> QED BY <1>5, <1>8 DEF AllTurnsKept

(* No step puts a region back in the turn of a service but asking it.      *)
LEMMA TurnsStep == TypeOK /\ [Next]_vars => AllTurnsKept
<1> SUFFICES ASSUME TypeOK, [Next]_vars PROVE AllTurnsKept
  OBVIOUS
<1>1. Typed
  BY TypeParts
<1>2. ASSUME NEW r \in Regions, NEW S, Names(S, Services), NEW a \in Nat, PutServices(r, S, a)
      PROVE  AllTurnsKept
  <2>1. ServicesTyped
    BY <1>1 DEF Typed
  <2>2. \A s \in Services :
          /\ s \in ToSet(S) /\ r \notin ToSet(svcIndex[s]) =>
               svcIndex'[s] = Append(svcIndex[s], r)
          /\ ~ (s \in ToSet(S) /\ r \notin ToSet(svcIndex[s])) =>
               svcIndex'[s] = svcIndex[s]
    BY <1>2, <2>1, PutServicesEffect
  <2>3. \A s \in Services : svcIndex'[s] = svcIndex[s]
          \/ \E q \in Regions : svcIndex'[s] = Append(svcIndex[s], q)
    BY <2>2
  <2> QED BY <1>1, <2>3, TurnsGrow
<1>3. ASSUME svcIndex' = svcIndex PROVE AllTurnsKept
  BY <1>1, <1>3, TurnsGrow
<1>4. ASSUME NEW r \in Regions, NEW S \in Orders(Services),
             NEW P \in Orders(Payloads), NEW a \in 0..MergeAge, merge(r, S, P, a)
      PROVE  AllTurnsKept
  <2>1. Names(S, Services) /\ a \in Nat
    BY OrderNames, TableAssumption
  <2> QED BY <1>2, <1>4, <2>1 DEF merge
<1>5. ASSUME NEW r \in Regions, NEW s \in Services, onService(r, s)
      PROVE  AllTurnsKept
  <2>1. Names(<<s>>, Services) /\ 0 \in Nat
    BY OneName
  <2> QED BY <1>2, <1>5, <2>1 DEF onService
<1>6. ASSUME NEW R, NEW L, NEW O, Drop(R, L, O) PROVE AllTurnsKept
  BY <1>1, <1>6, TurnsDrop
<1>7. (\E r \in Regions, S \in Orders(Services),
         P \in Orders(Payloads), a \in 0..MergeAge : merge(r, S, P, a))
        => AllTurnsKept
  BY <1>4
<1>8. (\E r \in Regions : onRegion(r) \/ onRmRegion(r)) => AllTurnsKept
  BY <1>3, <1>6 DEF onRegion, onRmRegion, indexes
<1>9. (\E r \in Regions, s \in Services : onService(r, s) \/ onRmService(r, s)) => AllTurnsKept
  BY <1>5, <1>6 DEF onRmService
<1>10. (\E r \in Regions, p \in Payloads : onPayload(r, p) \/ onRmPayload(r, p)) => AllTurnsKept
  BY <1>3, <1>6 DEF onPayload, onRmPayload
<1>11. (\E s \in Services : robinRouteService(s)) => AllTurnsKept
  BY <1>1, TurnsRobin
<1>12. onCheckTimer => AllTurnsKept
  BY <1>6 DEF onCheckTimer
<1>13. Tick => AllTurnsKept
  BY <1>3 DEF Tick, indexes
<1>14. UNCHANGED vars => AllTurnsKept
  BY <1>3 DEF vars, indexes
<1> HIDE DEF AllTurnsKept
<1> QED BY <1>7, <1>8, <1>9, <1>10, <1>11, <1>12, <1>13, <1>14 DEF Next

(* Whatever joins, leaves, repeats itself or times out meanwhile, a region *)
(* is put back in the turn of a service only by being asked.               *)
THEOREM TableTurnsKept == Spec => TurnsKept
<1>1. TypeOK /\ [Next]_vars => [\A s \in Services : \A i \in 1..Len(svcIndex[s]) : TurnKept(s, i)]_vars
  BY TurnsStep DEF AllTurnsKept
<1>2. QED BY <1>1, TableTyped, PTL DEF Spec, TurnsKept

-----------------------------------------------------------------------------
(* The routes.                                                             *)

(* What the indexes answer, in terms of the entries.                       *)
Provided ==
  /\ providers \in [Regions -> SUBSET Services]
  /\ \A r \in Regions : \A s \in Services : s \in providers[r] <=> r \in ToSet(svcIndex[s])

Owned ==
  /\ \A p \in Payloads : routePayload(p) \in regIndex \cup {NoRegion}
  /\ \A e \in ToSet(payloads) : routePayload(e.id) = e.region
  /\ \A p \in Payloads :
       \/ p \notin payIndex /\ routePayload(p) = NoRegion
       \/ p \in payIndex /\ \E e \in ToSet(payloads) : e.id = p /\ routePayload(p) = e.region

LEMMA Answered == TableInv => Provided /\ Owned
<1> SUFFICES ASSUME TableInv PROVE Provided /\ Owned
  OBVIOUS
<1>1. ServicesTyped /\ PayloadsTyped /\ PayloadsIndexed
  BY DEF TableInv, Typed, IndexExact
<1>2. \A s \in Services : \A r \in Regions : Contains(svcIndex[s], r) <=> r \in ToSet(svcIndex[s])
  <2>1. \A s \in Services : svcIndex[s] \in Seq(Regions)
    BY <1>1 DEF ServicesTyped
  <2> QED BY <2>1, ContainsSet
<1>3. Provided
  BY <1>2 DEF Provided, providers
<1>4. payloads \in Seq(PayloadEntries)
  BY <1>1 DEF PayloadsTyped
<1>5. \A p : p \in payIndex <=> \E e \in ToSet(payloads) : e.id = p
  BY <1>1 DEF PayloadsIndexed
<1>6. ASSUME NEW e \in ToSet(payloads), NEW x \in ToSet(payloads), e.id = x.id
      PROVE  e = x
  <2>1. PICK i \in 1..Len(payloads) : e = payloads[i]
    BY <1>4, ListSet
  <2>2. PICK j \in 1..Len(payloads) : x = payloads[j]
    BY <1>4, ListSet
  <2>3. i = j
    BY <1>1, <1>6, <2>1, <2>2 DEF PayloadsIndexed, Distinct
  <2> QED BY <2>1, <2>2, <2>3
<1>7. ASSUME NEW e \in ToSet(payloads) PROVE routePayload(e.id) = e.region
  <2>1. e.id \in payIndex
    BY <1>5
  <2> DEFINE c == CHOOSE x \in ToSet(payloads) : x.id = e.id
  <2>2. c \in ToSet(payloads) /\ c.id = e.id
    OBVIOUS
  <2>3. c = e
    BY <1>6, <2>2
  <2> QED BY <2>1, <2>3 DEF routePayload
<1>8. \A p \in Payloads : p \notin payIndex => routePayload(p) = NoRegion
  BY DEF routePayload
<1>9. \A p \in Payloads : p \in payIndex =>
        \E e \in ToSet(payloads) : e.id = p /\ routePayload(p) = e.region
  BY <1>5, <1>7
<1>10. \A e \in ToSet(payloads) : e.region \in regIndex
  BY <1>1 DEF PayloadsIndexed
<1>11. \A p \in Payloads : routePayload(p) \in regIndex \cup {NoRegion}
  BY <1>8, <1>9, <1>10
<1> QED BY <1>3, <1>7, <1>8, <1>9, <1>11 DEF Owned

LEMMA AnsweredNext == TableInv' => Provided' /\ Owned'
BY Answered, PTL

(* The steps of RouteTable in terms of the lists and indexes.              *)
ServicesStay == \A s \in Services : \A q : q \in ToSet(svcIndex'[s]) <=> q \in ToSet(svcIndex[s])
OwnersStay == \A p \in Payloads : routePayload(p)' = routePayload(p)

LEMMA ProvidersStay ==
  ASSUME Provided, Provided', ServicesStay
  PROVE  providers' = providers
<1>1. \A r \in Regions : providers'[r] = providers[r]
  BY DEF Provided, ServicesStay
<1>2. /\ providers = [r \in Regions |-> providers[r]]
      /\ providers' = [r \in Regions |-> providers'[r]]
  BY DEF Provided
<1> HIDE DEF providers
<1> QED BY <1>1, <1>2

LEMMA Stutters ==
  ASSUME Provided, Provided', ServicesStay, OwnersStay, regIndex' = regIndex
  PROVE  UNCHANGED Routes!vars
<1>1. providers' = providers
  BY ProvidersStay
<1>2. [p \in Payloads |-> routePayload(p)]' = [p \in Payloads |-> routePayload(p)]
  BY DEF OwnersStay
<1>3. knownRegions' = knownRegions
  BY DEF knownRegions
<1> QED BY <1>1, <1>2, <1>3 DEF Routes!vars

(* The services S of r are entered, those of other regions stay.           *)
LEMMA ServicesGrow ==
  ASSUME Typed, NEW r \in Regions, NEW S, Names(S, Services), NEW a \in Nat,
         PutServices(r, S, a)
  PROVE  \A s \in Services : \A q \in Regions :
           q \in ToSet(svcIndex'[s]) <=>
             q \in ToSet(svcIndex[s]) \/ (q = r /\ s \in ToSet(S))
<1>1. ServicesTyped
  BY DEF Typed
<1>2. \A s \in Services :
        /\ s \in ToSet(S) /\ r \notin ToSet(svcIndex[s]) =>
             svcIndex'[s] = Append(svcIndex[s], r)
        /\ ~ (s \in ToSet(S) /\ r \notin ToSet(svcIndex[s])) =>
             svcIndex'[s] = svcIndex[s]
  BY <1>1, PutServicesEffect
<1>3. \A s \in Services : ToSet(Append(svcIndex[s], r)) = ToSet(svcIndex[s]) \cup {r}
  <2>1. \A s \in Services : svcIndex[s] \in Seq(Regions)
    BY <1>1 DEF ServicesTyped
  <2> QED BY <2>1, AppendList
<1> QED BY <1>2, <1>3

(* The payloads P go to r, the others stay where they are.                 *)
LEMMA PayloadsGrow ==
  ASSUME Typed, Owned, Owned', NEW r \in Regions, NEW P, Names(P, Payloads), NEW a \in Nat,
         PutPayloads(r, P, a)
  PROVE  \A p \in Payloads : routePayload(p)' = IF p \in ToSet(P) THEN r ELSE routePayload(p)
<1>1. PayloadsTyped
  BY DEF Typed
<1>2. /\ ToSet(payloads') =
           (ToSet(payloads) \ {e \in ToSet(payloads) : e.id \in ToSet(P) /\ e.id \in payIndex})
             \cup {PayloadEntry(r, p, a) : p \in ToSet(P)}
      /\ payIndex' = payIndex \cup ToSet(P)
  BY <1>1, PutPayloadsEffect
<1>3. ASSUME NEW p \in Payloads, p \in ToSet(P) PROVE routePayload(p)' = r
  <2> DEFINE x == PayloadEntry(r, p, a)
  <2>1. x \in ToSet(payloads')
    BY <1>2, <1>3
  <2>2. x.id = p /\ x.region = r
    BY PayloadEntryFields
  <2> HIDE DEF x
  <2> QED BY <2>1, <2>2 DEF Owned
<1>4. ASSUME NEW p \in Payloads, p \notin ToSet(P) PROVE routePayload(p)' = routePayload(p)
  <2>1. CASE p \notin payIndex
    <3>1. p \notin payIndex'
      BY <1>2, <1>4, <2>1
    <3> QED BY <2>1, <3>1 DEF Owned
  <2>2. CASE p \in payIndex
    <3>1. PICK e \in ToSet(payloads) : e.id = p /\ routePayload(p) = e.region
      BY <2>2 DEF Owned
    <3>2. e \in ToSet(payloads')
      BY <1>2, <1>4, <3>1
    <3> QED BY <3>1, <3>2 DEF Owned
  <2> QED BY <2>1, <2>2
<1> QED BY <1>3, <1>4

LEMMA DropLeaves ==
  ASSUME TableInv, TableInv', Provided, Provided', Owned, Owned',
         NEW R, NEW L, NEW O, Drop(R, L, O)
  PROVE  Routes!Leave
<1>1. Typed /\ ServicesIndexed' /\ PayloadsIndexed'
  BY DEF TableInv, IndexExact
<1>2. /\ regIndex' = regIndex \ R
      /\ \A s \in Services : \A q : q \in ToSet(svcIndex'[s]) => q \in ToSet(svcIndex[s])
      /\ ToSet(payloads') = {e \in ToSet(payloads) : e.region \notin R /\ e.id \notin O}
  <2>1. regIndex' = regIndex \ R
    BY <1>1, DropEffect
  <2>2. \A s \in Services : \A q : q \in ToSet(svcIndex'[s]) => q \in ToSet(svcIndex[s])
    BY <1>1, DropEffect
  <2>3. ToSet(payloads') = {e \in ToSet(payloads) : e.region \notin R /\ e.id \notin O}
    BY <1>1, DropEffect
  <2> QED BY <2>1, <2>2, <2>3
<1>3. knownRegions' \in SUBSET knownRegions
  BY <1>2 DEF knownRegions
<1>4. \A r \in Regions : providers'[r] \subseteq providers[r]
  BY <1>2 DEF Provided
<1>5. ASSUME NEW r \in Regions, r \notin regIndex' PROVE providers'[r] = {}
  <2>1. ASSUME NEW s \in Services, s \in providers'[r] PROVE FALSE
    <3>1. r \in ToSet(svcIndex'[s])
      BY <2>1 DEF Provided
    <3>2. ToSet(svcIndex'[s]) = {e.region : e \in {x \in ToSet(services') : x.name = s}}
      BY <1>1 DEF ServicesIndexed
    <3>3. PICK e \in ToSet(services') : e.region = r
      BY <3>1, <3>2
    <3> QED BY <1>1, <1>5, <3>3 DEF ServicesIndexed
  <2>2. providers'[r] \subseteq Services
    BY DEF Provided
  <2> QED BY <2>1, <2>2
<1>6. \A r \in knownRegions \ knownRegions' : providers'[r] = {}
  <2>1. regIndex \subseteq Regions
    BY <1>1 DEF Typed, RegionsTyped
  <2> QED BY <1>5, <2>1 DEF knownRegions
<1>7. [p \in Payloads |-> routePayload(p)]' \in [Payloads -> knownRegions' \cup {NoRegion}]
  BY DEF Owned, knownRegions
<1>8. ASSUME NEW p \in Payloads PROVE routePayload(p)' \in {routePayload(p), NoRegion}
  <2>1. CASE p \in payIndex'
    <3>1. PICK e \in ToSet(payloads') : e.id = p /\ routePayload(p)' = e.region
      BY <2>1 DEF Owned
    <3>2. routePayload(e.id) = e.region
      BY <1>2, <3>1 DEF Owned
    <3> QED BY <3>1, <3>2
  <2>2. CASE p \notin payIndex'
    BY <2>2 DEF Owned
  <2> QED BY <2>1, <2>2
<1>9. \A p \in Payloads : [q \in Payloads |-> routePayload(q)]'[p] \in {[q \in Payloads |-> routePayload(q)][p], NoRegion}
  BY <1>8
<1>10. providers' \in [Regions -> SUBSET Services]
  BY DEF Provided
<1> QED BY <1>3, <1>4, <1>6, <1>7, <1>9, <1>10 DEF Routes!Leave

LEMMA MergeEnters ==
  ASSUME TableInv, TableInv', Provided, Provided', Owned, Owned',
         NEW r \in Regions, NEW S, Names(S, Services), NEW P, Names(P, Payloads),
         NEW a \in Nat, merge(r, S, P, a)
  PROVE  Routes!Enter(r)
<1>1. Typed /\ Typed' /\ PutServices(r, S, a) /\ PutPayloads(r, P, a)
  BY DEF TableInv, merge
<1>2. r \notin knownRegions /\ knownRegions' = knownRegions \cup {r}
  BY DEF merge, knownRegions
<1>3. \A s \in Services : \A q \in Regions :
        q \in ToSet(svcIndex'[s]) <=> q \in ToSet(svcIndex[s]) \/ (q = r /\ s \in ToSet(S))
  BY <1>1, ServicesGrow
<1>4. \A p \in Payloads : routePayload(p)' = IF p \in ToSet(P) THEN r ELSE routePayload(p)
  BY <1>1, PayloadsGrow
<1>5. providers' \in [Regions -> SUBSET Services]
  BY DEF Provided
<1>6. ASSUME NEW q \in Regions, q # r PROVE providers'[q] = providers[q]
  BY <1>3, <1>6 DEF Provided
<1>7. [p \in Payloads |-> routePayload(p)]' \in [Payloads -> Regions \cup {NoRegion}]
  BY <1>1 DEF Owned, Typed, RegionsTyped
<1>8. \A p \in Payloads : routePayload(p)' \in {routePayload(p), r}
  BY <1>4
<1>9. \A p \in Payloads : [q \in Payloads |-> routePayload(q)]'[p] \in {[q \in Payloads |-> routePayload(q)][p], r}
  BY <1>8
<1> QED BY <1>2, <1>5, <1>6, <1>7, <1>9 DEF Routes!Enter

LEMMA OnServiceProvides ==
  ASSUME TableInv, Provided, Provided', Owned,
         NEW r \in Regions, NEW s \in Services, onService(r, s)
  PROVE  Routes!Provide(r, s)
<1>1. Typed /\ PutServices(r, <<s>>, 0)
  BY DEF TableInv, onService
<1>2. Names(<<s>>, Services) /\ ToSet(<<s>>) = {s} /\ 0 \in Nat
  BY OneName
<1>3. \A t \in Services : \A q \in Regions :
        q \in ToSet(svcIndex'[t]) <=> q \in ToSet(svcIndex[t]) \/ (q = r /\ t \in ToSet(<<s>>))
  BY <1>1, <1>2, ServicesGrow
<1>4. r \in knownRegions /\ UNCHANGED knownRegions
  BY DEF onService, knownRegions
<1>5. [p \in Payloads |-> routePayload(p)]' = [p \in Payloads |-> routePayload(p)]
  BY DEF onService, routePayload
<1>6. \A q \in Regions : providers'[q] = IF q = r THEN providers[r] \cup {s} ELSE providers[q]
  <2>1. ASSUME NEW q \in Regions, NEW t \in Services
        PROVE  t \in providers'[q] <=> t \in providers[q] \/ (q = r /\ t = s)
    BY <1>2, <1>3 DEF Provided
  <2>2. \A q \in Regions : providers'[q] \subseteq Services /\ providers[q] \subseteq Services
    BY DEF Provided
  <2> HIDE DEF providers
  <2> QED BY <2>1, <2>2
<1>7. providers' = [providers EXCEPT ![r] = @ \cup {s}]
  <2>1. /\ providers = [q \in Regions |-> providers[q]]
        /\ providers' = [q \in Regions |-> providers'[q]]
    BY DEF Provided
  <2> HIDE DEF providers
  <2> QED BY <1>6, <2>1
<1> QED BY <1>4, <1>5, <1>7 DEF Routes!Provide

LEMMA OnPayloadCarries ==
  ASSUME TableInv, Provided, Provided', Owned, Owned',
         NEW r \in Regions, NEW p \in Payloads, onPayload(r, p)
  PROVE  Routes!Carry(r, p)
<1>1. Typed /\ PutPayloads(r, <<p>>, 0)
  BY DEF TableInv, onPayload
<1>2. Names(<<p>>, Payloads) /\ ToSet(<<p>>) = {p} /\ 0 \in Nat
  BY OneName
<1>3. \A q \in Payloads : routePayload(q)' = IF q \in ToSet(<<p>>) THEN r ELSE routePayload(q)
  BY <1>1, <1>2, PayloadsGrow
<1>4. r \in knownRegions /\ UNCHANGED knownRegions
  BY DEF onPayload, knownRegions
<1>5. providers' = providers
  BY DEF onPayload, providers
<1>6. [q \in Payloads |-> routePayload(q)]' = [[q \in Payloads |-> routePayload(q)] EXCEPT ![p] = r]
  BY <1>2, <1>3
<1> QED BY <1>4, <1>5, <1>6 DEF Routes!Carry

LEMMA TickStutters ==
  ASSUME TableInv, Provided, Provided', Owned, Owned', Tick
  PROVE  UNCHANGED Routes!vars
<1>1. /\ payloads' = [i \in 1..Len(payloads) |-> [payloads[i] EXCEPT !.age = @ + 1]]
      /\ UNCHANGED <<regIndex, svcIndex, payIndex>>
  BY DEF Tick, indexes
<1>2. payloads \in Seq(PayloadEntries)
  BY DEF TableInv, Typed, PayloadsTyped
<1>3. /\ payloads' \in Seq(PayloadEntries) /\ Len(payloads') = Len(payloads)
      /\ \A i \in 1..Len(payloads) :
           payloads'[i].region = payloads[i].region /\ payloads'[i].id = payloads[i].id
  BY <1>1, <1>2, OlderPayloads
<1>4. ASSUME NEW p \in Payloads, p \in payIndex PROVE routePayload(p)' = routePayload(p)
  <2>1. PICK e \in ToSet(payloads') : e.id = p /\ routePayload(p)' = e.region
    BY <1>1, <1>4 DEF Owned
  <2>2. PICK i \in 1..Len(payloads) : e = payloads'[i]
    BY <1>3, ListSet
  <2>3. payloads[i] \in ToSet(payloads)
    BY <1>2, ListSet
  <2>4. routePayload(payloads[i].id) = payloads[i].region
    BY <2>3 DEF Owned
  <2> QED BY <1>3, <2>1, <2>2, <2>4
<1>5. \A p \in Payloads : p \notin payIndex => routePayload(p)' = routePayload(p)
  BY <1>1 DEF Owned
<1>6. OwnersStay /\ ServicesStay
  BY <1>1, <1>4, <1>5 DEF OwnersStay, ServicesStay
<1> QED BY <1>1, <1>6, Stutters

LEMMA OnRegionStutters ==
  ASSUME Provided, Provided', NEW r \in Regions, onRegion(r)
  PROVE  UNCHANGED Routes!vars
<1>1. UNCHANGED <<payloads, regIndex, svcIndex, payIndex>>
  BY DEF onRegion, indexes
<1>2. OwnersStay /\ ServicesStay
  BY <1>1 DEF OwnersStay, ServicesStay, routePayload
<1> QED BY <1>1, <1>2, Stutters

LEMMA RobinStutters ==
  ASSUME TableInv, Provided, Provided', NEW t \in Services, robinRouteService(t)
  PROVE  UNCHANGED Routes!vars
<1>1. /\ UNCHANGED <<payloads, regIndex, payIndex>>
      /\ svcIndex[t] # <<>>
      /\ svcIndex' = [svcIndex EXCEPT ![t] = Append(Tail(svcIndex[t]), Head(svcIndex[t]))]
  BY DEF robinRouteService, lists
<1>2. svcIndex \in [Services -> Seq(Regions)]
  BY DEF TableInv, Typed, ServicesTyped
<1>3. ToSet(svcIndex'[t]) = ToSet(svcIndex[t])
  BY <1>1, <1>2, RotateList
<1>4. \A s \in Services : s # t => svcIndex'[s] = svcIndex[s]
  BY <1>1, <1>2
<1>5. ServicesStay
  BY <1>3, <1>4 DEF ServicesStay
<1>6. OwnersStay
  BY <1>1 DEF OwnersStay, routePayload
<1> QED BY <1>1, <1>5, <1>6, Stutters

LEMMA UnchangedStutters ==
  ASSUME UNCHANGED vars
  PROVE  UNCHANGED Routes!vars
<1>1. UNCHANGED <<regIndex, svcIndex, payloads, payIndex>>
  BY DEF vars, lists, indexes
<1> QED BY <1>1 DEF Routes!vars, knownRegions, providers, routePayload

LEMMA NextRoutes == TableInv /\ TableInv' /\ [Next]_vars => [Routes!Next]_(Routes!vars)
<1> SUFFICES ASSUME TableInv, TableInv', [Next]_vars PROVE [Routes!Next]_(Routes!vars)
  OBVIOUS
<1>0. Provided /\ Owned /\ Provided' /\ Owned'
  BY Answered, AnsweredNext
<1> DEFINE Goal == Routes!Next \/ UNCHANGED Routes!vars
<1>1. ASSUME NEW r \in Regions, NEW S \in Orders(Services),
             NEW P \in Orders(Payloads), NEW a \in 0..MergeAge, merge(r, S, P, a)
      PROVE  Routes!Next
  <2>1. Names(S, Services) /\ Names(P, Payloads) /\ a \in Nat
    BY OrderNames, TableAssumption
  <2>2. Routes!Enter(r)
    BY <1>0, <1>1, <2>1, MergeEnters
  <2> QED BY <2>2 DEF Routes!Next
<1>2. ASSUME NEW R, NEW L, NEW O, Drop(R, L, O) PROVE Routes!Next
  <2>1. Routes!Leave
    BY <1>0, <1>2, DropLeaves
  <2> QED BY <2>1 DEF Routes!Next
<1>3. ASSUME NEW r \in Regions, NEW s \in Services, onService(r, s) PROVE Routes!Next
  <2>1. Routes!Provide(r, s)
    BY <1>0, <1>3, OnServiceProvides
  <2> QED BY <2>1 DEF Routes!Next
<1>4. ASSUME NEW r \in Regions, NEW p \in Payloads, onPayload(r, p) PROVE Routes!Next
  <2>1. Routes!Carry(r, p)
    BY <1>0, <1>4, OnPayloadCarries
  <2> QED BY <2>1 DEF Routes!Next
<1>5. (\E r \in Regions, S \in Orders(Services),
         P \in Orders(Payloads), a \in 0..MergeAge : merge(r, S, P, a)) => Goal
  BY <1>1
<1>6. (\E r \in Regions : onRegion(r) \/ onRmRegion(r)) => Goal
  BY <1>0, <1>2, OnRegionStutters DEF onRmRegion
<1>7. (\E r \in Regions, s \in Services : onService(r, s) \/ onRmService(r, s)) => Goal
  BY <1>2, <1>3 DEF onRmService
<1>8. (\E r \in Regions, p \in Payloads : onPayload(r, p) \/ onRmPayload(r, p)) => Goal
  BY <1>2, <1>4 DEF onRmPayload
<1>9. (\E s \in Services : robinRouteService(s)) => Goal
  BY <1>0, RobinStutters
<1>10. onCheckTimer => Goal
  BY <1>2 DEF onCheckTimer
<1>11. Tick => Goal
  BY <1>0, TickStutters
<1>12. UNCHANGED vars => Goal
  BY UnchangedStutters
<1> HIDE DEF Goal
<1>13. Goal
  BY <1>5, <1>6, <1>7, <1>8, <1>9, <1>10, <1>11, <1>12 DEF Next
<1> QED BY <1>13 DEF Goal

LEMMA InitRoutes == Init => Routes!Init
BY DEF Init, Routes!Init, knownRegions, providers, routePayload, Contains

(* Whatever updates, repeats, merges, removals and timeouts come in which  *)
(* order, the table is only ever seen to take a region in with all it has, *)
(* to add an entry to a region it has, and to let entries and whole        *)
(* regions go.                                                             *)
THEOREM TableAnswersRoutes == Spec => AnswersRoutes
<1>1. Spec => Init /\ [](TypeOK /\ TableInv) /\ [][Next]_vars
  BY TableTypedIndexed DEF Spec
<1>2. Init /\ [](TypeOK /\ TableInv) /\ [][Next]_vars => Routes!Init /\ [][Routes!Next]_(Routes!vars)
  BY InitRoutes, NextRoutes, PTL
<1> QED BY <1>1, <1>2 DEF AnswersRoutes, Routes!Spec

-----------------------------------------------------------------------------

(* How long an entry may stay.                                             *)

LEMMA DivMonotone ==
  ASSUME NEW K \in Nat \ {0}, NEW a \in Nat, NEW b \in Nat, a <= b
  PROVE  a \div K <= b \div K
OBVIOUS
LEMMA DivStep ==
  ASSUME NEW K \in Nat \ {0}, NEW a \in Nat, a >= K
  PROVE  (a - K) \div K = a \div K - 1
OBVIOUS

(* The order of last update, up to the age a merged entry brings along.    *)
Ordered(l) == \A i, n \in 1..Len(l) : i < n => l[n].age <= l[i].age + MergeAge

(* An entry's age and the calls of the timer its place still costs.        *)
Late(l, C, K, N) == \A n \in 1..Len(l) : l[n].age + (n - 1) \div K <= C + (N - 1) \div K

LEMMA WithoutLate ==
  ASSUME NEW E, \A e \in E : e.age \in Nat, NEW l \in Seq(E), NEW G,
         NEW C \in Nat, NEW K \in Nat \ {0}, NEW N \in Nat
  PROVE  /\ Ordered(l) => Ordered(Without(l, G))
         /\ Late(l, C, K, N) => Late(Without(l, G), C, K, N)
<1> DEFINE w == Without(l, G)
<1>1. /\ w \in Seq(E)
      /\ \A j \in 1..Len(w) : \E i \in 1..Len(l) : j <= i /\ w[j] = l[i]
      /\ \A j, k \in 1..Len(w) : j < k =>
           \E i, h \in 1..Len(l) : i < h /\ w[j] = l[i] /\ w[k] = l[h]
  BY WithoutFacts
<1> HIDE DEF w
<1>2. ASSUME Ordered(l) PROVE Ordered(w)
  <2>1. SUFFICES ASSUME NEW j \in 1..Len(w), NEW k \in 1..Len(w), j < k
                 PROVE  w[k].age <= w[j].age + MergeAge
    BY DEF Ordered
  <2>2. PICK i \in 1..Len(l), h \in 1..Len(l) : i < h /\ w[j] = l[i] /\ w[k] = l[h]
    BY <1>1, <2>1
  <2>3. l[h].age <= l[i].age + MergeAge
    BY <1>2, <2>2 DEF Ordered
  <2> QED BY <2>2, <2>3
<1>3. ASSUME Late(l, C, K, N), NEW j \in 1..Len(w)
      PROVE  w[j].age + (j - 1) \div K <= C + (N - 1) \div K
  <2>1. PICK i \in 1..Len(l) : j <= i /\ w[j] = l[i]
    BY <1>1
  <2>2. l[i].age + (i - 1) \div K <= C + (N - 1) \div K
    BY <1>3 DEF Late
  <2>3. i - 1 \in Nat /\ j - 1 \in Nat /\ j - 1 <= i - 1 /\ l[i].age \in Nat
    BY <1>1, <2>1
  <2>4. (j - 1) \div K <= (i - 1) \div K
    BY <2>3, DivMonotone
  <2> QED BY <2>1, <2>2, <2>3, <2>4
<1>4. Late(l, C, K, N) => Late(w, C, K, N)
  BY <1>3 DEF Late
<1> QED BY <1>2, <1>4 DEF w

LEMMA ConcatLate ==
  ASSUME NEW E, \A e \in E : e.age \in Nat, NEW l \in Seq(E), NEW x \in Seq(E),
         NEW a \in 0..MergeAge, \A i \in 1..Len(x) : x[i].age = a,
         NEW C \in Nat, a <= C, NEW K \in Nat \ {0}, NEW N \in Nat, Len(l \o x) <= N,
         Ordered(l), Late(l, C, K, N)
  PROVE  Ordered(l \o x) /\ Late(l \o x, C, K, N)
<1> DEFINE w == l \o x
<1>1. /\ w \in Seq(E) /\ Len(w) = Len(l) + Len(x)
      /\ \A i \in 1..Len(l) : w[i] = l[i]
  BY ConcatList
<1>2. \A i \in 1..Len(x) : w[Len(l) + i] = x[i]
  BY ConcatList
<1>3. \A k \in 1..Len(w) : k \in 1..Len(l) \/ \E i \in 1..Len(x) : k = Len(l) + i
  BY ConcatList
<1>0. Len(w) <= N
  OBVIOUS
<1> HIDE DEF w
<1>4. Len(l) \in Nat /\ Len(x) \in Nat /\ MergeAge \in Nat
  BY TableAssumption
<1>5. \A k \in 1..Len(w) : (k \in 1..Len(l) /\ w[k] = l[k]) \/ (k > Len(l) /\ w[k].age = a)
  <2>1. SUFFICES ASSUME NEW k \in 1..Len(w)
                 PROVE  (k \in 1..Len(l) /\ w[k] = l[k]) \/ (k > Len(l) /\ w[k].age = a)
    OBVIOUS
  <2>2. CASE k \in 1..Len(l)
    BY <1>1, <2>2
  <2>3. ASSUME NEW i \in 1..Len(x), k = Len(l) + i PROVE k > Len(l) /\ w[k].age = a
    <3>1. k > Len(l)
      BY <1>4, <2>3
    <3>2. w[k] = x[i]
      BY <1>2, <2>3
    <3> QED BY <3>1, <3>2
  <2> QED BY <1>3, <2>2, <2>3
<1>6. Ordered(w)
  <2>1. SUFFICES ASSUME NEW i \in 1..Len(w), NEW n \in 1..Len(w), i < n
                 PROVE  w[n].age <= w[i].age + MergeAge
    BY DEF Ordered
  <2>2. w[i].age \in Nat /\ w[n].age \in Nat
    BY <1>1
  <2>3. CASE n \in 1..Len(l)
    <3>1. i \in 1..Len(l)
      BY <2>1, <2>3, <1>4
    <3> QED BY <1>1, <2>1, <2>3, <3>1 DEF Ordered
  <2>4. CASE w[n].age = a
    <3>1. \A y \in Nat : a <= y + MergeAge
      BY <1>4
    <3> QED BY <2>2, <2>4, <3>1
  <2> QED BY <1>5, <2>3, <2>4
<1>7. Late(w, C, K, N)
  <2>1. SUFFICES ASSUME NEW n \in 1..Len(w)
                 PROVE  w[n].age + (n - 1) \div K <= C + (N - 1) \div K
    BY DEF Late
  <2>2. CASE n \in 1..Len(l)
    BY <1>1, <2>2 DEF Late
  <2>3. CASE w[n].age = a
    <3>1. n - 1 \in Nat /\ N - 1 \in Nat /\ n - 1 <= N - 1
      BY <1>0, <1>1, <1>4, <2>1
    <3>2. (n - 1) \div K <= (N - 1) \div K
      BY <3>1, DivMonotone
    <3>3. (n - 1) \div K \in Int /\ (N - 1) \div K \in Int
      BY <3>1
    <3> QED BY <2>3, <3>2, <3>3
  <2> QED BY <1>5, <2>2, <2>3
<1> QED BY <1>6, <1>7 DEF w

(* The timer takes all that is over from the front, or as much as its      *)
(* limit allows.                                                           *)
LEMMA OverLate ==
  ASSUME NEW E, \A e \in E : e.age \in Nat, NEW l \in Seq(E),
         \A i, j \in 1..Len(l) : l[i] = l[j] => i = j,
         NEW t \in Nat \ {0}, NEW K \in Nat \ {0}, NEW N \in Nat, Len(l) <= N,
         Ordered(l), Late(l, t + MergeAge, K, N),
         NEW G, Over(l, K, t) \subseteq G
  PROVE  Late(Without(l, G), t + MergeAge - 1, K, N)
<1> DEFINE w == Without(l, G)
<1>0. Len(l) \in Nat /\ MergeAge \in Nat /\ t \in Nat
  BY TableAssumption
<1>1. /\ w \in Seq(E)
      /\ \A j \in 1..Len(w) : \E i \in 1..Len(l) : j <= i /\ w[j] = l[i] /\ l[i] \notin G
      /\ \A m \in 0..Len(l) : (\A h \in 1..m : l[h] \in G) =>
           \A i \in 1..Len(l) : l[i] \notin G => \E j \in 1..Len(w) : j + m <= i /\ w[j] = l[i]
  BY WithoutFacts
<1>2. \A j, k \in 1..Len(w) : w[j] = w[k] => j = k
  <2> DEFINE key == [e \in E |-> e]
  <2>1. \A i \in 1..Len(l) : key[l[i]] = l[i]
    OBVIOUS
  <2>2. \A i, h \in 1..Len(l) : key[l[i]] = key[l[h]] => i = h
    BY <2>1
  <2>3. \A j \in 1..Len(w) : key[w[j]] = w[j]
    BY <1>1
  <2> HIDE DEF key
  <2>4. \A j, k \in 1..Len(w) : key[w[j]] = key[w[k]] => j = k
    BY <2>2, WithoutDistinct
  <2> QED BY <2>3, <2>4
<1> HIDE DEF w
<1>3. SUFFICES ASSUME NEW j \in 1..Len(w)
               PROVE  w[j].age + (j - 1) \div K <= t + MergeAge - 1 + (N - 1) \div K
  BY DEF Late, w
<1>4. PICK i \in 1..Len(l) : j <= i /\ w[j] = l[i] /\ l[i] \notin G
  BY <1>1
<1>5. l[i].age + (i - 1) \div K <= t + MergeAge + (N - 1) \div K /\ l[i].age \in Nat
  BY <1>4 DEF Late
<1>6. /\ i - 1 \in Nat /\ j - 1 \in Nat /\ N - 1 \in Nat
      /\ j - 1 <= i - 1 /\ j - 1 <= N - 1
  <2>1. Len(w) \in Nat
    BY <1>1
  <2>2. i \in Nat /\ j \in Nat /\ 1 <= j /\ j <= i /\ i <= Len(l)
    BY <1>0, <1>4, <2>1
  <2> QED BY <1>0, <2>2
<1>7. (j - 1) \div K \in Int /\ (N - 1) \div K \in Int /\ (i - 1) \div K \in Int
  BY <1>6
<1>8. CASE l[i].age < t + MergeAge
  <2>1. (j - 1) \div K <= (N - 1) \div K
    BY <1>6, DivMonotone
  <2>2. \A x \in Nat : \A q, n \in Int :
          x < t + MergeAge /\ q <= n => x + q <= t + MergeAge - 1 + n
    BY <1>0
  <2>3. l[i].age + (j - 1) \div K <= t + MergeAge - 1 + (N - 1) \div K
    BY <1>5, <1>7, <1>8, <2>1, <2>2
  <2> QED BY <1>4, <2>3
<1>9. CASE l[i].age >= t + MergeAge
  <2>1. \A h \in 1..i : l[h].age >= t
    <3>1. ASSUME NEW h \in 1..i, h # i PROVE l[h].age >= t
      <4>1. h \in 1..Len(l) /\ h < i
        BY <1>0, <3>1
      <4>2. l[i].age <= l[h].age + MergeAge /\ l[h].age \in Nat
        BY <4>1 DEF Ordered
      <4>3. \A x, y \in Nat : x <= y + MergeAge /\ x >= t + MergeAge => y >= t
        BY <1>0
      <4> QED BY <1>5, <1>9, <4>2, <4>3
    <3>2. l[i].age >= t
      BY <1>0, <1>5, <1>9
    <3> QED BY <3>1, <3>2
  <2>2. \A h \in 1..i : h <= K => l[h] \in G
    <3>1. ASSUME NEW h \in 1..i, h <= K PROVE l[h] \in Over(l, K, t)
      <4>1. h \in 1..Len(l) /\ \A k \in 1..h : l[k].age >= t
        BY <1>0, <2>1
      <4> QED BY <3>1, <4>1 DEF Over
    <3> QED BY <3>1
  <2>3. i > K
    BY <1>4, <2>2
  <2>4. K \in 0..Len(l) /\ \A h \in 1..K : l[h] \in G
    BY <1>0, <2>2, <2>3
  <2>5. PICK k \in 1..Len(w) : k + K <= i /\ w[k] = l[i]
    BY <1>1, <1>4, <2>4
  <2>6. k = j
    BY <1>2, <1>4, <2>5
  <2>7. /\ j - 1 <= (i - 1) - K /\ (i - 1) - K \in Nat /\ i - 1 >= K
    BY <2>3, <2>5, <2>6
  <2>8. (j - 1) \div K <= ((i - 1) - K) \div K
    BY <1>6, <2>7, DivMonotone
  <2>9. ((i - 1) - K) \div K = (i - 1) \div K - 1
    BY <1>6, <2>7, DivStep
  <2>10. ((i - 1) - K) \div K \in Int
    BY <2>7
  <2>11. \A x \in Nat : \A p, q, n, d \in Int :
           x + p <= t + MergeAge + n /\ q <= d /\ d = p - 1 => x + q <= t + MergeAge - 1 + n
    BY <1>0
  <2> HIDE DEF Ordered
  <2>12. l[i].age + (j - 1) \div K <= t + MergeAge - 1 + (N - 1) \div K
    BY <1>5, <1>7, <2>8, <2>9, <2>10, <2>11
  <2>13. w[j].age + (j - 1) \div K <= t + MergeAge - 1 + (N - 1) \div K
    BY <1>4, <2>12, Zenon
  <2> QED BY <2>13, Zenon
<1> QED BY <1>5, <1>8, <1>9, <1>0

(* A tick of the clock.                                                    *)
LEMMA OlderLate ==
  ASSUME NEW E, \A e \in E : e.age \in Nat, NEW l \in Seq(E), NEW w,
         Len(w) = Len(l), \A i \in 1..Len(l) : w[i].age = l[i].age + 1,
         NEW C \in Nat, NEW K \in Nat \ {0}, NEW N \in Nat,
         Ordered(l), Late(l, C, K, N)
  PROVE  Ordered(w) /\ Late(w, C + 1, K, N)
<1>0. \A i \in 1..Len(l) : w[i].age = l[i].age + 1
  OBVIOUS
<1>1. \A i \in 1..Len(l) : l[i].age \in Nat /\ i - 1 \in Nat
  OBVIOUS
<1>2. MergeAge \in Nat
  BY TableAssumption
<1>3. Ordered(w)
  <2>1. SUFFICES ASSUME NEW i \in 1..Len(l), NEW n \in 1..Len(l), i < n
                 PROVE  w[n].age <= w[i].age + MergeAge
    BY DEF Ordered
  <2>2. l[n].age <= l[i].age + MergeAge
    BY <2>1 DEF Ordered
  <2>3. w[n].age = l[n].age + 1 /\ w[i].age = l[i].age + 1
    BY <1>0, <2>1
  <2> QED BY <1>1, <1>2, <2>2, <2>3
<1>4. \A i \in 1..Len(l) : (i - 1) \div K \in Int
  BY <1>1
<1>5. (N - 1) \div K \in Int
  OBVIOUS
<1>6. Late(w, C + 1, K, N)
  <2>1. SUFFICES ASSUME NEW i \in 1..Len(l)
                 PROVE  w[i].age + (i - 1) \div K <= C + 1 + (N - 1) \div K
    BY DEF Late
  <2>2. l[i].age + (i - 1) \div K <= C + (N - 1) \div K
    BY DEF Late
  <2>3. w[i].age = l[i].age + 1
    BY <1>0, <2>1
  <2>4. l[i].age \in Int /\ C \in Int /\ (i - 1) \div K \in Int /\ (N - 1) \div K \in Int
    BY <1>1, <1>4, <1>5
  <2>5. \A p, q, c, r \in Int : p + q <= c + r => (p + 1) + q <= (c + 1) + r
    OBVIOUS
  <2>6. (l[i].age + 1) + (i - 1) \div K <= (C + 1) + (N - 1) \div K
    BY <2>2, <2>4, <2>5
  <2> QED BY <2>3, <2>6
<1> QED BY <1>3, <1>6

LEMMA PutLate ==
  ASSUME NEW E, \A e \in E : e.age \in Nat, NEW l \in Seq(E), NEW G, NEW x \in Seq(E),
         NEW a \in 0..MergeAge, \A i \in 1..Len(x) : x[i].age = a,
         NEW C \in Nat, a <= C, NEW K \in Nat \ {0}, NEW N \in Nat,
         Len(Without(l, G) \o x) <= N,
         Ordered(l), Late(l, C, K, N)
  PROVE  Ordered(Without(l, G) \o x) /\ Late(Without(l, G) \o x, C, K, N)
<1> DEFINE w == Without(l, G)
<1>1. w \in Seq(E)
  BY WithoutList
<1>2. Ordered(w) /\ Late(w, C, K, N)
  BY WithoutLate
<1>3. Len(w \o x) <= N
  OBVIOUS
<1> HIDE DEF w
<1>4. Ordered(w \o x) /\ Late(w \o x, C, K, N)
  BY <1>1, <1>2, <1>3, ConcatLate
<1> QED BY <1>4 DEF w

LEMMA Lengths ==
  TableInv =>
    /\ Len(regions) <= Cardinality(Regions)
    /\ Len(services) <= Cardinality(Regions) * Cardinality(Services)
    /\ Len(payloads) <= Cardinality(Payloads)
<1> SUFFICES ASSUME TableInv
             PROVE  /\ Len(regions) <= Cardinality(Regions)
                    /\ Len(services) <= Cardinality(Regions) * Cardinality(Services)
                    /\ Len(payloads) <= Cardinality(Payloads)
  OBVIOUS
<1>1. /\ regions \in Seq(RegionEntries) /\ services \in Seq(ServiceEntries)
      /\ payloads \in Seq(PayloadEntries)
  BY DEF TableInv, Typed, RegionsTyped, ServicesTyped, PayloadsTyped
<1>2. /\ \A i, j \in 1..Len(regions) : regions[i].id = regions[j].id => i = j
      /\ \A i, j \in 1..Len(services) :
           services[i].region = services[j].region /\ services[i].name = services[j].name => i = j
      /\ \A i, j \in 1..Len(payloads) : payloads[i].id = payloads[j].id => i = j
  BY DEF TableInv, IndexExact, RegionsIndexed, ServicesIndexed, PayloadsIndexed, Distinct
<1>3. IsFiniteSet(Regions) /\ IsFiniteSet(Services) /\ IsFiniteSet(Payloads)
  BY TableAssumption
<1>4. Len(regions) <= Cardinality(Regions)
  <2> DEFINE key == [i \in 1..Len(regions) |-> regions[i].id]
  <2>1. \A i \in 1..Len(regions) : key[i] \in Regions /\ key[i] = regions[i].id
    <3>1. \A i \in 1..Len(regions) : regions[i] \in RegionEntries
      BY <1>1
    <3> QED BY <3>1 DEF RegionEntries
  <2>2. \A i, j \in 1..Len(regions) : key[i] = key[j] => i = j
    BY <1>2, <2>1
  <2>3. Len(regions) \in Nat
    BY <1>1
  <2> HIDE DEF key
  <2> QED BY <1>3, <2>1, <2>2, <2>3, DistinctLength
<1>5. Len(services) <= Cardinality(Regions) * Cardinality(Services)
  <2> DEFINE key == [i \in 1..Len(services) |-> <<services[i].region, services[i].name>>]
  <2>1. \A i \in 1..Len(services) : services[i].region \in Regions /\ services[i].name \in Services
    <3>1. \A i \in 1..Len(services) : services[i] \in ServiceEntries
      BY <1>1
    <3> QED BY <3>1 DEF ServiceEntries
  <2>2. \A i \in 1..Len(services) : key[i] = <<services[i].region, services[i].name>>
    OBVIOUS
  <2>3. \A i \in 1..Len(services) : key[i] \in Regions \X Services
    BY <2>1
  <2>4. \A i, j \in 1..Len(services) : key[i] = key[j] => i = j
    BY <1>2, <2>2
  <2>5. Len(services) \in Nat
    BY <1>1
  <2> HIDE DEF key
  <2>6. /\ IsFiniteSet(Regions \X Services)
        /\ Cardinality(Regions \X Services) = Cardinality(Regions) * Cardinality(Services)
    BY <1>3, FS_Product
  <2>7. Len(services) <= Cardinality(Regions \X Services)
    BY <2>3, <2>4, <2>5, <2>6, DistinctLength
  <2> QED BY <2>6, <2>7
<1>6. Len(payloads) <= Cardinality(Payloads)
  <2> DEFINE key == [i \in 1..Len(payloads) |-> payloads[i].id]
  <2>1. \A i \in 1..Len(payloads) : key[i] \in Payloads /\ key[i] = payloads[i].id
    <3>1. \A i \in 1..Len(payloads) : payloads[i] \in PayloadEntries
      BY <1>1
    <3> QED BY <3>1 DEF PayloadEntries
  <2>2. \A i, j \in 1..Len(payloads) : key[i] = key[j] => i = j
    BY <1>2, <2>1
  <2>3. Len(payloads) \in Nat
    BY <1>1
  <2> HIDE DEF key
  <2> QED BY <1>3, <2>1, <2>2, <2>3, DistinctLength
<1> QED BY <1>4, <1>5, <1>6

Pairs == Cardinality(Regions) * Cardinality(Services)

LEMMA Sizes ==
  Cardinality(Regions) \in Nat /\ Pairs \in Nat /\ Cardinality(Payloads) \in Nat
<1>1. Cardinality(Regions) \in Nat /\ Cardinality(Services) \in Nat /\ Cardinality(Payloads) \in Nat
  BY TableAssumption, FS_CardinalityType
<1> QED BY <1>1 DEF Pairs

Short ==
  /\ Len(regions) <= Cardinality(Regions)
  /\ Len(services) <= Pairs
  /\ Len(payloads) <= Cardinality(Payloads)

LEMMA Shorter == TableInv => Short
BY Lengths DEF Short, Pairs

LEMMA ShorterNext == TableInv' => Short'
BY Shorter, PTL

(* After the timer's callback nothing is over by as much as before it.     *)
Grace == IF checked THEN MergeAge - 1 ELSE MergeAge
RegionsTimely ==
  Ordered(regions) /\ Late(regions, RegionTimeout + Grace, RegionLimit, Cardinality(Regions))
ServicesTimely ==
  Ordered(services) /\ Late(services, EntryTimeout + Grace, EntryLimit, Pairs)
PayloadsTimely ==
  Ordered(payloads) /\ Late(payloads, EntryTimeout + Grace, EntryLimit, Cardinality(Payloads))
Timely == RegionsTimely /\ ServicesTimely /\ PayloadsTimely

LEMMA GraceBounds ==
  /\ RegionTimeout + Grace \in Nat /\ EntryTimeout + Grace \in Nat
  /\ \A a \in 0..MergeAge : a <= RegionTimeout + Grace /\ a <= EntryTimeout + Grace
BY TableAssumption DEF Grace

LEMMA EntryAges ==
  /\ \A e \in RegionEntries : e.age \in Nat
  /\ \A e \in ServiceEntries : e.age \in Nat
  /\ \A e \in PayloadEntries : e.age \in Nat
BY DEF RegionEntries, ServiceEntries, PayloadEntries

LEMMA Limits == RegionLimit \in Nat \ {0} /\ EntryLimit \in Nat \ {0}
BY TableAssumption

LEMMA PutServicesTimely ==
  ASSUME Typed, ServicesTimely, checked' = checked, Len(services') <= Pairs,
         NEW r \in Regions, NEW S, Names(S, Services), NEW a \in 0..MergeAge, PutServices(r, S, a)
  PROVE  ServicesTimely'
<1> DEFINE x == [i \in 1..Len(S) |-> ServiceEntry(r, S[i], a)]
           G == {e \in ToSet(services) :
                   e.region = r /\ e.name \in ToSet(S) /\ Contains(svcIndex[e.name], r)}
<1>0. a \in Nat
  BY TableAssumption
<1>1. services' = Without(services, G) \o x
  BY DEF PutServices
<1>2. x \in Seq(ServiceEntries) /\ Len(x) = Len(S)
  BY <1>0, NewServices
<1>3. \A i \in 1..Len(x) : x[i].age = a
  <2>1. \A i \in 1..Len(S) : x[i] = ServiceEntry(r, S[i], a)
    OBVIOUS
  <2>2. \A i \in 1..Len(S) : x[i].age = a
    BY <2>1, ServiceEntryFields
  <2> HIDE DEF x
  <2> QED BY <1>2, <2>2
<1> HIDE DEF x, G
<1>4. services \in Seq(ServiceEntries)
  BY DEF Typed, ServicesTyped
<1>5. /\ EntryTimeout + Grace \in Nat /\ a <= EntryTimeout + Grace
      /\ Pairs \in Nat /\ EntryLimit \in Nat \ {0}
  BY GraceBounds, Sizes, Limits
<1>6. Ordered(services) /\ Late(services, EntryTimeout + Grace, EntryLimit, Pairs)
  BY DEF ServicesTimely
<1>7. Len(Without(services, G) \o x) <= Pairs
  BY <1>1
<1>8. \A e \in ServiceEntries : e.age \in Nat
  BY EntryAges
<1>9. /\ Ordered(Without(services, G) \o x)
      /\ Late(Without(services, G) \o x, EntryTimeout + Grace, EntryLimit, Pairs)
  BY <1>2, <1>3, <1>4, <1>5, <1>6, <1>7, <1>8, PutLate
<1>10. Grace' = Grace
  BY DEF Grace
<1> QED BY <1>1, <1>9, <1>10 DEF ServicesTimely, Ordered, Late, Pairs

LEMMA PutPayloadsTimely ==
  ASSUME Typed, PayloadsTimely, checked' = checked, Len(payloads') <= Cardinality(Payloads),
         NEW r \in Regions, NEW P, Names(P, Payloads), NEW a \in 0..MergeAge, PutPayloads(r, P, a)
  PROVE  PayloadsTimely'
<1> DEFINE x == [i \in 1..Len(P) |-> PayloadEntry(r, P[i], a)]
           G == {e \in ToSet(payloads) : e.id \in ToSet(P) /\ e.id \in payIndex}
<1>0. a \in Nat
  BY TableAssumption
<1>1. payloads' = Without(payloads, G) \o x
  BY DEF PutPayloads
<1>2. x \in Seq(PayloadEntries) /\ Len(x) = Len(P)
  BY <1>0, NewPayloads
<1>3. \A i \in 1..Len(x) : x[i].age = a
  <2>1. \A i \in 1..Len(P) : x[i] = PayloadEntry(r, P[i], a)
    OBVIOUS
  <2>2. \A i \in 1..Len(P) : x[i].age = a
    BY <2>1, PayloadEntryFields
  <2> HIDE DEF x
  <2> QED BY <1>2, <2>2
<1> HIDE DEF x, G
<1>4. payloads \in Seq(PayloadEntries)
  BY DEF Typed, PayloadsTyped
<1>5. /\ EntryTimeout + Grace \in Nat /\ a <= EntryTimeout + Grace
      /\ Cardinality(Payloads) \in Nat /\ EntryLimit \in Nat \ {0}
  BY GraceBounds, Sizes, Limits
<1>6. Ordered(payloads) /\ Late(payloads, EntryTimeout + Grace, EntryLimit, Cardinality(Payloads))
  BY DEF PayloadsTimely
<1>7. Len(Without(payloads, G) \o x) <= Cardinality(Payloads)
  BY <1>1
<1>8. \A e \in PayloadEntries : e.age \in Nat
  BY EntryAges
<1>9. /\ Ordered(Without(payloads, G) \o x)
      /\ Late(Without(payloads, G) \o x, EntryTimeout + Grace, EntryLimit, Cardinality(Payloads))
  BY <1>2, <1>3, <1>4, <1>5, <1>6, <1>7, <1>8, PutLate
<1>10. Grace' = Grace
  BY DEF Grace
<1> QED BY <1>1, <1>9, <1>10 DEF PayloadsTimely, Ordered, Late

LEMMA RegionsPutTimely ==
  ASSUME Typed, RegionsTimely, checked' = checked, Len(regions') <= Cardinality(Regions),
         NEW r \in Regions, NEW a \in 0..MergeAge, NEW G,
         regions' = Append(Without(regions, G), RegionEntry(r, a))
  PROVE  RegionsTimely'
<1> DEFINE e == RegionEntry(r, a)
           x == <<e>>
<1>0. a \in Nat
  BY TableAssumption
<1>1. e \in RegionEntries /\ e.age = a
  BY <1>0 DEF RegionEntry, RegionEntries
<1>2. regions \in Seq(RegionEntries)
  BY DEF Typed, RegionsTyped
<1> HIDE DEF e
<1>3. x \in Seq(RegionEntries) /\ Len(x) = 1 /\ x[1] = e
  BY <1>1
<1>4. regions' = Without(regions, G) \o x
  <2>1. Without(regions, G) \in Seq(RegionEntries)
    BY <1>2, WithoutList
  <2>2. ASSUME NEW s \in Seq(RegionEntries) PROVE Append(s, e) = s \o <<e>>
    <3>1. /\ Len(Append(s, e)) = Len(s) + 1 /\ Len(s \o <<e>>) = Len(s) + 1
          /\ Append(s, e) \in Seq(RegionEntries) /\ s \o <<e>> \in Seq(RegionEntries)
      BY <1>1
    <3>2. \A i \in 1..(Len(s) + 1) : Append(s, e)[i] = (s \o <<e>>)[i]
      BY <1>1
    <3> QED BY <3>1, <3>2
  <2> QED BY <2>1, <2>2 DEF e
<1>5. \A i \in 1..Len(x) : x[i].age = a
  BY <1>1, <1>3
<1> HIDE DEF x
<1>6. /\ RegionTimeout + Grace \in Nat /\ a <= RegionTimeout + Grace
      /\ Cardinality(Regions) \in Nat /\ RegionLimit \in Nat \ {0}
  BY GraceBounds, Sizes, Limits
<1>7. Ordered(regions) /\ Late(regions, RegionTimeout + Grace, RegionLimit, Cardinality(Regions))
  BY DEF RegionsTimely
<1>8. Len(Without(regions, G) \o x) <= Cardinality(Regions)
  BY <1>4
<1>9. \A y \in RegionEntries : y.age \in Nat
  BY EntryAges
<1>10. /\ Ordered(Without(regions, G) \o x)
       /\ Late(Without(regions, G) \o x, RegionTimeout + Grace, RegionLimit, Cardinality(Regions))
  BY <1>2, <1>3, <1>5, <1>6, <1>7, <1>8, <1>9, PutLate
<1>11. Grace' = Grace
  BY DEF Grace
<1> QED BY <1>4, <1>10, <1>11 DEF RegionsTimely, Ordered, Late

(* Entries leave out of the timer's turn.                                  *)
LEMMA DropTimely ==
  ASSUME Typed, Timely, checked' = checked, NEW R, NEW L, NEW O, Drop(R, L, O)
  PROVE  Timely'
<1>1. PICK A, B, C : /\ regions' = Without(regions, A)
                     /\ services' = Without(services, B)
                     /\ payloads' = Without(payloads, C)
  BY DEF Drop
<1>2. /\ regions \in Seq(RegionEntries) /\ services \in Seq(ServiceEntries)
      /\ payloads \in Seq(PayloadEntries)
  BY DEF Typed, RegionsTyped, ServicesTyped, PayloadsTyped
<1>3. RegionTimeout + Grace \in Nat /\ EntryTimeout + Grace \in Nat
  BY GraceBounds
<1>4. Grace' = Grace
  BY DEF Grace
<1>5. RegionsTimely'
  <2>1. Ordered(regions) /\ Late(regions, RegionTimeout + Grace, RegionLimit, Cardinality(Regions))
    BY DEF Timely, RegionsTimely
  <2>2. /\ Ordered(Without(regions, A))
        /\ Late(Without(regions, A), RegionTimeout + Grace, RegionLimit, Cardinality(Regions))
    BY <1>2, <1>3, <2>1, Limits, Sizes, EntryAges, WithoutLate
  <2> QED BY <1>1, <1>4, <2>2 DEF RegionsTimely, Ordered, Late
<1>6. ServicesTimely'
  <2>1. Ordered(services) /\ Late(services, EntryTimeout + Grace, EntryLimit, Pairs)
    BY DEF Timely, ServicesTimely
  <2>2. /\ Ordered(Without(services, B))
        /\ Late(Without(services, B), EntryTimeout + Grace, EntryLimit, Pairs)
    BY <1>2, <1>3, <2>1, Limits, Sizes, EntryAges, WithoutLate
  <2> QED BY <1>1, <1>4, <2>2 DEF ServicesTimely, Ordered, Late, Pairs
<1>7. PayloadsTimely'
  <2>1. Ordered(payloads) /\ Late(payloads, EntryTimeout + Grace, EntryLimit, Cardinality(Payloads))
    BY DEF Timely, PayloadsTimely
  <2>2. /\ Ordered(Without(payloads, C))
        /\ Late(Without(payloads, C), EntryTimeout + Grace, EntryLimit, Cardinality(Payloads))
    BY <1>2, <1>3, <2>1, Limits, Sizes, EntryAges, WithoutLate
  <2> QED BY <1>1, <1>4, <2>2 DEF PayloadsTimely, Ordered, Late
<1> QED BY <1>5, <1>6, <1>7 DEF Timely

LEMMA TickTimely ==
  ASSUME Typed, Timely, Tick
  PROVE  Timely'
<1>1. /\ regions' = [i \in 1..Len(regions) |-> [regions[i] EXCEPT !.age = @ + 1]]
      /\ services' = [i \in 1..Len(services) |-> [services[i] EXCEPT !.age = @ + 1]]
      /\ payloads' = [i \in 1..Len(payloads) |-> [payloads[i] EXCEPT !.age = @ + 1]]
      /\ checked /\ checked' = FALSE
  BY DEF Tick, indexes
<1>2. /\ regions \in Seq(RegionEntries) /\ services \in Seq(ServiceEntries)
      /\ payloads \in Seq(PayloadEntries)
  BY DEF Typed, RegionsTyped, ServicesTyped, PayloadsTyped
<1>3. Len(regions') = Len(regions) /\ \A i \in 1..Len(regions) : regions'[i].age = regions[i].age + 1
  BY <1>1, <1>2, OlderRegions
<1>4. Len(services') = Len(services) /\ \A i \in 1..Len(services) : services'[i].age = services[i].age + 1
  BY <1>1, <1>2, OlderServices
<1>5. Len(payloads') = Len(payloads) /\ \A i \in 1..Len(payloads) : payloads'[i].age = payloads[i].age + 1
  BY <1>1, <1>2, OlderPayloads
<1>6. RegionTimeout + Grace \in Nat /\ EntryTimeout + Grace \in Nat
  BY GraceBounds
<1>7. /\ RegionTimeout + Grace + 1 = RegionTimeout + Grace'
      /\ EntryTimeout + Grace + 1 = EntryTimeout + Grace'
  BY <1>1, TableAssumption DEF Grace
<1>8. RegionsTimely'
  <2>1. Ordered(regions) /\ Late(regions, RegionTimeout + Grace, RegionLimit, Cardinality(Regions))
    BY DEF Timely, RegionsTimely
  <2>2. Ordered(regions') /\ Late(regions', RegionTimeout + Grace + 1, RegionLimit, Cardinality(Regions))
    BY <1>2, <1>3, <1>6, <2>1, Limits, Sizes, EntryAges, OlderLate
  <2> QED BY <1>7, <2>2 DEF RegionsTimely, Ordered, Late
<1>9. ServicesTimely'
  <2>1. Ordered(services) /\ Late(services, EntryTimeout + Grace, EntryLimit, Pairs)
    BY DEF Timely, ServicesTimely
  <2>2. Ordered(services') /\ Late(services', EntryTimeout + Grace + 1, EntryLimit, Pairs)
    BY <1>2, <1>4, <1>6, <2>1, Limits, Sizes, EntryAges, OlderLate
  <2> QED BY <1>7, <2>2 DEF ServicesTimely, Ordered, Late, Pairs
<1>10. PayloadsTimely'
  <2>1. Ordered(payloads) /\ Late(payloads, EntryTimeout + Grace, EntryLimit, Cardinality(Payloads))
    BY DEF Timely, PayloadsTimely
  <2>2. Ordered(payloads') /\ Late(payloads', EntryTimeout + Grace + 1, EntryLimit, Cardinality(Payloads))
    BY <1>2, <1>5, <1>6, <2>1, Limits, Sizes, EntryAges, OlderLate
  <2> QED BY <1>7, <2>2 DEF PayloadsTimely, Ordered, Late
<1> QED BY <1>8, <1>9, <1>10 DEF Timely

LEMMA LateEases ==
  ASSUME NEW E, \A e \in E : e.age \in Nat, NEW l \in Seq(E),
         NEW C \in Nat, NEW D \in Nat, C <= D, NEW K \in Nat \ {0}, NEW N \in Nat,
         Late(l, C, K, N)
  PROVE  Late(l, D, K, N)
<1>1. SUFFICES ASSUME NEW n \in 1..Len(l)
               PROVE  l[n].age + (n - 1) \div K <= D + (N - 1) \div K
  BY DEF Late
<1>2. l[n].age \in Nat /\ (n - 1) \div K \in Int /\ (N - 1) \div K \in Int
  OBVIOUS
<1>3. l[n].age + (n - 1) \div K <= C + (N - 1) \div K
  BY DEF Late
<1> QED BY <1>2, <1>3

(* What one loop of the timer leaves.                                      *)
LEMMA LoopTimely ==
  ASSUME NEW E, \A e \in E : e.age \in Nat, NEW l \in Seq(E),
         \A i, j \in 1..Len(l) : l[i] = l[j] => i = j,
         NEW t \in Nat \ {0}, NEW K \in Nat \ {0}, NEW N \in Nat, Len(l) <= N,
         Ordered(l), Late(l, t + Grace, K, N),
         NEW G, Over(l, K, t) \subseteq G
  PROVE  Ordered(Without(l, G)) /\ Late(Without(l, G), t + (MergeAge - 1), K, N)
<1>1. /\ t + Grace \in Nat /\ t + MergeAge \in Nat /\ t + Grace <= t + MergeAge
      /\ t + MergeAge - 1 = t + (MergeAge - 1)
  BY TableAssumption DEF Grace
<1>2. Late(l, t + MergeAge, K, N)
  BY <1>1, LateEases
<1>3. Late(Without(l, G), t + MergeAge - 1, K, N)
  BY <1>2, OverLate
<1>4. Ordered(Without(l, G))
  BY <1>1, WithoutLate
<1> QED BY <1>1, <1>3, <1>4

LEMMA CheckTimely ==
  ASSUME TableInv, Timely, onCheckTimer
  PROVE  Timely'
<1> DEFINE R == {e.id : e \in Over(regions, RegionLimit, RegionTimeout)}
           left(l) == Without(l, {e \in ToSet(l) : e.region \in R})
           L == {<<e.region, e.name>> : e \in Over(left(services), EntryLimit, EntryTimeout)}
           O == {e.id : e \in Over(left(payloads), EntryLimit, EntryTimeout)}
           A == {e \in ToSet(services) : e.region \in R}
           B == {e \in ToSet(services) : <<e.region, e.name>> \in L}
           P == {e \in ToSet(payloads) : e.region \in R}
           Q == {e \in ToSet(payloads) : e.id \in O}
           Z == {e \in ToSet(regions) : e.id \in R}
<1>1. Drop(R, L, O) /\ checked' = TRUE
  BY DEF onCheckTimer
<1>2. /\ regions' = Without(regions, Z)
      /\ services' = Without(services, {e \in ToSet(services) : e.region \in R \/ <<e.region, e.name>> \in L})
      /\ payloads' = Without(payloads, {e \in ToSet(payloads) : e.region \in R \/ e.id \in O})
  <2> HIDE DEF R, L, O
  <2> QED BY <1>1 DEF Drop
<1>3. /\ {e \in ToSet(services) : e.region \in R \/ <<e.region, e.name>> \in L} = A \cup B
      /\ {e \in ToSet(payloads) : e.region \in R \/ e.id \in O} = P \cup Q
  <2> HIDE DEF R, L, O
  <2> QED OBVIOUS
<1>4. /\ regions \in Seq(RegionEntries) /\ services \in Seq(ServiceEntries)
      /\ payloads \in Seq(PayloadEntries)
  BY DEF TableInv, Typed, RegionsTyped, ServicesTyped, PayloadsTyped
<1>5. /\ services' = Without(left(services), B)
      /\ payloads' = Without(left(payloads), Q)
  <2> HIDE DEF A, B, P, Q
  <2>1. Without(Without(services, A), B) = Without(services, A \cup B)
    BY <1>4, WithoutTwice
  <2>2. Without(Without(payloads, P), Q) = Without(payloads, P \cup Q)
    BY <1>4, WithoutTwice
  <2>3. left(services) = Without(services, A) /\ left(payloads) = Without(payloads, P)
    BY DEF A, P
  <2> HIDE DEF left
  <2> QED BY <1>2, <1>3, <2>1, <2>2, <2>3
<1>6. /\ left(services) \in Seq(ServiceEntries) /\ ToSet(left(services)) \subseteq ToSet(services)
      /\ left(payloads) \in Seq(PayloadEntries) /\ ToSet(left(payloads)) \subseteq ToSet(payloads)
  <2>1. left(services) = Without(services, A) /\ left(payloads) = Without(payloads, P)
    OBVIOUS
  <2> HIDE DEF A, P, left
  <2> QED BY <1>4, <2>1, WithoutList
<1>7. \A l, K, t : Len(l) \in Nat => \A e \in Over(l, K, t) : \E k \in 1..Len(l) : e = l[k]
  BY DEF Over
<1>8. Over(regions, RegionLimit, RegionTimeout) \subseteq Z
  <2>1. \A e \in Over(regions, RegionLimit, RegionTimeout) : e \in ToSet(regions)
    BY <1>4, <1>7, ListSet
  <2> QED BY <2>1
<1>9. Over(left(services), EntryLimit, EntryTimeout) \subseteq B
  <2>1. \A e \in Over(left(services), EntryLimit, EntryTimeout) : e \in ToSet(left(services))
    <3> HIDE DEF left
    <3> QED BY <1>6, <1>7, ListSet
  <2>2. \A e \in Over(left(services), EntryLimit, EntryTimeout) : <<e.region, e.name>> \in L
    OBVIOUS
  <2> HIDE DEF left, L
  <2> QED BY <1>6, <2>1, <2>2
<1>10. Over(left(payloads), EntryLimit, EntryTimeout) \subseteq Q
  <2>1. \A e \in Over(left(payloads), EntryLimit, EntryTimeout) : e \in ToSet(left(payloads))
    <3> HIDE DEF left
    <3> QED BY <1>6, <1>7, ListSet
  <2>2. \A e \in Over(left(payloads), EntryLimit, EntryTimeout) : e.id \in O
    OBVIOUS
  <2> HIDE DEF left, O
  <2> QED BY <1>6, <2>1, <2>2
<1>11. Grace' = MergeAge - 1
  BY <1>1 DEF Grace
<1>12. RegionTimeout + Grace \in Nat /\ EntryTimeout + Grace \in Nat
  BY GraceBounds
<1>13. Short
  BY Shorter
<1>14. RegionTimeout \in Nat \ {0} /\ EntryTimeout \in Nat \ {0}
  BY TableAssumption
<1>15. RegionsTimely'
  <2> HIDE DEF Z, R
  <2>1. \A i, j \in 1..Len(regions) : regions[i] = regions[j] => i = j
    BY DEF TableInv, IndexExact, RegionsIndexed, Distinct
  <2>2. Len(regions) <= Cardinality(Regions)
    BY <1>13 DEF Short
  <2>3. Ordered(regions) /\ Late(regions, RegionTimeout + Grace, RegionLimit, Cardinality(Regions))
    BY DEF Timely, RegionsTimely
  <2>4. /\ Ordered(Without(regions, Z))
        /\ Late(Without(regions, Z), RegionTimeout + (MergeAge - 1), RegionLimit, Cardinality(Regions))
    BY <1>4, <1>8, <1>14, <2>1, <2>2, <2>3, Limits, Sizes, EntryAges, LoopTimely
  <2> QED BY <1>2, <1>11, <2>4 DEF RegionsTimely, Ordered, Late
<1>16. ServicesTimely'
  <2> DEFINE s == left(services)
  <2>1. s = Without(services, A)
    OBVIOUS
  <2>2. /\ s \in Seq(ServiceEntries) /\ services' = Without(s, B)
        /\ Over(s, EntryLimit, EntryTimeout) \subseteq B
    BY <1>5, <1>6, <1>9
  <2> HIDE DEF s, A, B
  <2>3. \A i, j \in 1..Len(services) :
          services[i].region = services[j].region /\ services[i].name = services[j].name => i = j
    BY DEF TableInv, IndexExact, ServicesIndexed, Distinct
  <2>4. \A i, j \in 1..Len(s) : s[i].region = s[j].region /\ s[i].name = s[j].name => i = j
    BY <1>4, <2>1, <2>3, ServicesDistinct
  <2>5. \A i, j \in 1..Len(s) : s[i] = s[j] => i = j
    BY <2>4
  <2>6. Ordered(services) /\ Late(services, EntryTimeout + Grace, EntryLimit, Pairs)
    BY DEF Timely, ServicesTimely
  <2>7. Ordered(s) /\ Late(s, EntryTimeout + Grace, EntryLimit, Pairs)
    BY <1>4, <1>12, <2>1, <2>6, Limits, Sizes, EntryAges, WithoutLate
  <2>8. Len(s) <= Pairs
    <3>1. Len(s) <= Len(services)
      BY <1>4, <2>1, WithoutShorter
    <3>2. Len(services) <= Pairs /\ Len(s) \in Nat /\ Len(services) \in Nat
      BY <1>4, <1>13, <2>2 DEF Short
    <3> QED BY <3>1, <3>2, Sizes
  <2>9. /\ Ordered(Without(s, B))
        /\ Late(Without(s, B), EntryTimeout + (MergeAge - 1), EntryLimit, Pairs)
    BY <1>14, <2>2, <2>5, <2>7, <2>8, Limits, Sizes, EntryAges, LoopTimely
  <2> QED BY <1>11, <2>2, <2>9 DEF ServicesTimely, Ordered, Late, Pairs
<1>17. PayloadsTimely'
  <2> DEFINE s == left(payloads)
  <2>1. s = Without(payloads, P)
    OBVIOUS
  <2>2. /\ s \in Seq(PayloadEntries) /\ payloads' = Without(s, Q)
        /\ Over(s, EntryLimit, EntryTimeout) \subseteq Q
    BY <1>5, <1>6, <1>10
  <2> HIDE DEF s, P, Q
  <2>3. \A i, j \in 1..Len(payloads) : payloads[i].id = payloads[j].id => i = j
    BY DEF TableInv, IndexExact, PayloadsIndexed, Distinct
  <2>4. \A i, j \in 1..Len(s) : s[i].id = s[j].id => i = j
    BY <1>4, <2>1, <2>3, PayloadsDistinct
  <2>5. \A i, j \in 1..Len(s) : s[i] = s[j] => i = j
    BY <2>4
  <2>6. Ordered(payloads) /\ Late(payloads, EntryTimeout + Grace, EntryLimit, Cardinality(Payloads))
    BY DEF Timely, PayloadsTimely
  <2>7. Ordered(s) /\ Late(s, EntryTimeout + Grace, EntryLimit, Cardinality(Payloads))
    BY <1>4, <1>12, <2>1, <2>6, Limits, Sizes, EntryAges, WithoutLate
  <2>8. Len(s) <= Cardinality(Payloads)
    <3>1. Len(s) <= Len(payloads)
      BY <1>4, <2>1, WithoutShorter
    <3>2. Len(payloads) <= Cardinality(Payloads) /\ Len(s) \in Nat /\ Len(payloads) \in Nat
      BY <1>4, <1>13, <2>2 DEF Short
    <3> QED BY <3>1, <3>2, Sizes
  <2>9. /\ Ordered(Without(s, Q))
        /\ Late(Without(s, Q), EntryTimeout + (MergeAge - 1), EntryLimit, Cardinality(Payloads))
    BY <1>14, <2>2, <2>5, <2>7, <2>8, Limits, Sizes, EntryAges, LoopTimely
  <2> QED BY <1>11, <2>2, <2>9 DEF PayloadsTimely, Ordered, Late
<1> QED BY <1>15, <1>16, <1>17 DEF Timely

LEMMA NextTimely == TableInv /\ TableInv' /\ Timely /\ [Next]_vars => Timely'
<1> SUFFICES ASSUME TableInv, TableInv', Timely, [Next]_vars PROVE Timely'
  OBVIOUS
<1>1. Typed /\ Short'
  BY ShorterNext DEF TableInv
<1>2. /\ Len(regions') <= Cardinality(Regions)
      /\ Len(services') <= Pairs
      /\ Len(payloads') <= Cardinality(Payloads)
  BY <1>1 DEF Short, Pairs
<1>3. RegionsTimely /\ ServicesTimely /\ PayloadsTimely
  BY DEF Timely
<1>4. ASSUME UNCHANGED <<regions, checked>> PROVE RegionsTimely'
  BY <1>3, <1>4 DEF RegionsTimely, Grace, Ordered, Late
<1>5. ASSUME UNCHANGED <<services, checked>> PROVE ServicesTimely'
  BY <1>3, <1>5 DEF ServicesTimely, Grace, Ordered, Late, Pairs
<1>6. ASSUME UNCHANGED <<payloads, checked>> PROVE PayloadsTimely'
  BY <1>3, <1>6 DEF PayloadsTimely, Grace, Ordered, Late
<1>7. ASSUME NEW r \in Regions, NEW S \in Orders(Services),
             NEW P \in Orders(Payloads), NEW a \in 0..MergeAge, merge(r, S, P, a)
      PROVE  Timely'
  <2>1. Names(S, Services) /\ Names(P, Payloads)
    BY OrderNames, TableAssumption
  <2>2. /\ PutServices(r, S, a) /\ PutPayloads(r, P, a) /\ checked' = checked
        /\ regions' = Append(regions, RegionEntry(r, a))
    BY <1>7 DEF merge
  <2>3. Without(regions, {}) = regions
    <3>1. regions \in Seq(RegionEntries)
      BY <1>1 DEF Typed, RegionsTyped
    <3> QED BY <3>1, WithoutNothing
  <2>4. RegionsTimely'
    <3>1. regions' = Append(Without(regions, {}), RegionEntry(r, a))
      BY <2>2, <2>3
    <3> QED BY <1>1, <1>2, <1>3, <2>2, <3>1, RegionsPutTimely
  <2>5. ServicesTimely'
    BY <1>1, <1>2, <1>3, <2>1, <2>2, PutServicesTimely
  <2>6. PayloadsTimely'
    BY <1>1, <1>2, <1>3, <2>1, <2>2, PutPayloadsTimely
  <2> QED BY <2>4, <2>5, <2>6 DEF Timely
<1>8. 0 \in 0..MergeAge
  BY TableAssumption
<1>9. ASSUME NEW r \in Regions, onRegion(r) PROVE Timely'
  <2>1. PICK G : regions' = Append(Without(regions, G), RegionEntry(r, 0))
    BY <1>9 DEF onRegion
  <2>2. UNCHANGED <<services, payloads, checked>>
    BY <1>9 DEF onRegion
  <2>3. RegionsTimely'
    BY <1>1, <1>2, <1>3, <1>8, <2>1, <2>2, RegionsPutTimely
  <2> QED BY <1>5, <1>6, <2>2, <2>3 DEF Timely
<1>10. ASSUME NEW R, NEW L, NEW O, Drop(R, L, O), checked' = checked PROVE Timely'
  BY <1>1, <1>10, DropTimely
<1>11. ASSUME NEW r \in Regions, NEW s \in Services, onService(r, s) PROVE Timely'
  <2>1. PutServices(r, <<s>>, 0) /\ UNCHANGED <<regions, payloads, checked>>
    BY <1>11 DEF onService
  <2>2. Names(<<s>>, Services)
    BY OneName
  <2>3. ServicesTimely'
    BY <1>1, <1>2, <1>3, <1>8, <2>1, <2>2, PutServicesTimely
  <2> QED BY <1>4, <1>6, <2>1, <2>3 DEF Timely
<1>12. ASSUME NEW r \in Regions, NEW p \in Payloads, onPayload(r, p) PROVE Timely'
  <2>1. PutPayloads(r, <<p>>, 0) /\ UNCHANGED <<regions, services, checked>>
    BY <1>12 DEF onPayload
  <2>2. Names(<<p>>, Payloads)
    BY OneName
  <2>3. PayloadsTimely'
    BY <1>1, <1>2, <1>3, <1>8, <2>1, <2>2, PutPayloadsTimely
  <2> QED BY <1>4, <1>5, <2>1, <2>3 DEF Timely
<1>13. ASSUME UNCHANGED <<regions, services, payloads, checked>> PROVE Timely'
  BY <1>4, <1>5, <1>6, <1>13 DEF Timely
<1> DEFINE Goal == Timely'
<1>14. (\E r \in Regions, S \in Orders(Services),
          P \in Orders(Payloads), a \in 0..MergeAge : merge(r, S, P, a)) => Goal
  BY <1>7
<1>15. (\E r \in Regions : onRegion(r) \/ onRmRegion(r)) => Goal
  BY <1>9, <1>10 DEF onRmRegion
<1>16. (\E r \in Regions, s \in Services : onService(r, s) \/ onRmService(r, s)) => Goal
  BY <1>10, <1>11 DEF onRmService
<1>17. (\E r \in Regions, p \in Payloads : onPayload(r, p) \/ onRmPayload(r, p)) => Goal
  BY <1>10, <1>12 DEF onRmPayload
<1>18. (\E s \in Services : robinRouteService(s)) => Goal
  BY <1>13 DEF robinRouteService, lists
<1>19. onCheckTimer => Goal
  BY CheckTimely
<1>20. Tick => Goal
  BY <1>1, TickTimely
<1>21. UNCHANGED vars => Goal
  BY <1>13 DEF vars, lists
<1> HIDE DEF Goal
<1>22. Goal
  BY <1>14, <1>15, <1>16, <1>17, <1>18, <1>19, <1>20, <1>21 DEF Next
<1> QED BY <1>22 DEF Goal

LEMMA InitTimely == Init => Timely
<1>1. Len(<<>>) = 0
  OBVIOUS
<1> QED BY <1>1 DEF Init, Timely, RegionsTimely, ServicesTimely, PayloadsTimely, Ordered, Late

(* Nothing of a list that is timely is over by more than its last place    *)
(* costs.                                                                  *)
LEMMA TimelyAges ==
  ASSUME NEW E, \A e \in E : e.age \in Nat, NEW l \in Seq(E),
         NEW t \in Nat \ {0}, NEW K \in Nat \ {0}, NEW N \in Nat, Len(l) <= N,
         Late(l, t + Grace, K, N)
  PROVE  \A e \in ToSet(l) :
           e.age <= t + (MergeAge + (IF N = 0 THEN 0 ELSE (N - 1) \div K))
<1>1. ASSUME NEW e \in ToSet(l)
      PROVE  e.age <= t + (MergeAge + (IF N = 0 THEN 0 ELSE (N - 1) \div K))
  <2>1. PICK n \in 1..Len(l) : e = l[n]
    BY ListSet
  <2>2. N # 0 /\ n - 1 \in Nat /\ N - 1 \in Nat /\ l[n].age \in Nat
    BY <2>1
  <2>3. l[n].age + (n - 1) \div K <= t + Grace + (N - 1) \div K
    BY DEF Late
  <2>4. 0 <= (n - 1) \div K
    <3>1. \A m \in Nat : 0 <= m \div K
      OBVIOUS
    <3> QED BY <2>2, <3>1
  <2>5. (n - 1) \div K \in Int /\ (N - 1) \div K \in Int
    BY <2>2
  <2>6. Grace \in Int /\ Grace <= MergeAge /\ MergeAge \in Nat /\ t \in Nat
    BY TableAssumption DEF Grace
  <2>7. \A x \in Nat : \A p, q, g \in Int :
          x + p <= t + g + q /\ 0 <= p /\ g <= MergeAge => x <= t + (MergeAge + q)
    BY <2>6
  <2>8. l[n].age <= t + (MergeAge + (N - 1) \div K)
    BY <2>2, <2>3, <2>4, <2>5, <2>6, <2>7
  <2> QED BY <2>1, <2>2, <2>8
<1> QED BY <1>1

LEMMA TimelyNotLong == TableInv /\ Timely => NothingLongOver
<1> SUFFICES ASSUME TableInv, Timely PROVE NothingLongOver
  OBVIOUS
<1>1. /\ regions \in Seq(RegionEntries) /\ services \in Seq(ServiceEntries)
      /\ payloads \in Seq(PayloadEntries)
  BY DEF TableInv, Typed, RegionsTyped, ServicesTyped, PayloadsTyped
<1>2. Short
  BY Shorter
<1>3. RegionTimeout \in Nat \ {0} /\ EntryTimeout \in Nat \ {0}
  BY TableAssumption
<1> DEFINE late(n, limit) == MergeAge + (IF n = 0 THEN 0 ELSE (n - 1) \div limit)
<1>4. \A e \in ToSet(regions) : e.age <= RegionTimeout + late(Cardinality(Regions), RegionLimit)
  <2>1. Late(regions, RegionTimeout + Grace, RegionLimit, Cardinality(Regions))
    BY DEF Timely, RegionsTimely
  <2>2. Len(regions) <= Cardinality(Regions)
    BY <1>2 DEF Short
  <2> QED BY <1>1, <1>3, <2>1, <2>2, Limits, Sizes, EntryAges, TimelyAges
<1>5. \A e \in ToSet(services) : e.age <= EntryTimeout + late(Pairs, EntryLimit)
  <2>1. Late(services, EntryTimeout + Grace, EntryLimit, Pairs)
    BY DEF Timely, ServicesTimely
  <2>2. Len(services) <= Pairs
    BY <1>2 DEF Short
  <2> QED BY <1>1, <1>3, <2>1, <2>2, Limits, Sizes, EntryAges, TimelyAges
<1>6. \A e \in ToSet(payloads) : e.age <= EntryTimeout + late(Cardinality(Payloads), EntryLimit)
  <2>1. Late(payloads, EntryTimeout + Grace, EntryLimit, Cardinality(Payloads))
    BY DEF Timely, PayloadsTimely
  <2>2. Len(payloads) <= Cardinality(Payloads)
    BY <1>2 DEF Short
  <2> QED BY <1>1, <1>3, <2>1, <2>2, Limits, Sizes, EntryAges, TimelyAges
<1> QED BY <1>4, <1>5, <1>6 DEF NothingLongOver, Pairs

(* No entry outlives its timeout by more than the age it may have been     *)
(* merged with and the calls of the timer that those before it in the list *)
(* can cost, whatever updates, merges and removals come in between.        *)
THEOREM TableNothingLongOver == Spec => []NothingLongOver
<1>1. Init => Timely
  BY InitTimely
<1>2. TableInv /\ TableInv' /\ Timely /\ [Next]_vars => Timely'
  BY NextTimely
<1>3. TableInv /\ Timely => NothingLongOver
  BY TimelyNotLong
<1>4. QED BY <1>1, <1>2, <1>3, TableTypedIndexed, PTL DEF Spec

-----------------------------------------------------------------------------

(* What a snapshot holds.                                                  *)

SnapshotEnds == {<<"SnapshotBegin">>, <<"SnapshotEnd">>}
RegionMarks(r) == {<<"RegionBegin", r>>, <<"RegionEnd", r>>}
ServiceItems(r) ==
  {<<"Service", r, e.name>> : e \in {x \in ToSet(services) : x.region = r}}
PayloadItems(r) ==
  {<<"Payload", r, e.id>> : e \in {x \in ToSet(payloads) : x.region = r}}
Items(r) == RegionMarks(r) \cup ServiceItems(r) \cup PayloadItems(r)

Of(list, r) == Without(list, {e \in ToSet(list) : e.region # r})
Block(r) == <<<<"RegionBegin", r>>>>
              \o [i \in 1..Len(Of(services, r)) |-> <<"Service", r, Of(services, r)[i].name>>]
              \o [i \in 1..Len(Of(payloads, r)) |-> <<"Payload", r, Of(payloads, r)[i].id>>]
              \o <<<<"RegionEnd", r>>>>

LEMMA BlockItems ==
  ASSUME Typed, NEW r
  PROVE  Block(r) \in Seq(Items(r)) /\ ToSet(Block(r)) = Items(r)
<1> DEFINE s == Of(services, r)
           p == Of(payloads, r)
           A == [i \in 1..Len(s) |-> <<"Service", r, s[i].name>>]
           B == [i \in 1..Len(p) |-> <<"Payload", r, p[i].id>>]
           f == [e \in ServiceEntries |-> <<"Service", r, e.name>>]
           g == [e \in PayloadEntries |-> <<"Payload", r, e.id>>]
           b == <<"RegionBegin", r>>
           z == <<"RegionEnd", r>>
           S == Items(r)
<1>1. /\ services \in Seq(ServiceEntries) /\ payloads \in Seq(PayloadEntries)
  BY DEF Typed, ServicesTyped, PayloadsTyped
<1>2. s \in Seq(ServiceEntries) /\ ToSet(s) = {x \in ToSet(services) : x.region = r}
  <2>1. s \in Seq(ServiceEntries) /\ ToSet(s) = ToSet(services) \ {x \in ToSet(services) : x.region # r}
    BY <1>1, WithoutList DEF Of
  <2> HIDE DEF s
  <2> QED BY <2>1
<1>3. p \in Seq(PayloadEntries) /\ ToSet(p) = {x \in ToSet(payloads) : x.region = r}
  <2>1. p \in Seq(PayloadEntries) /\ ToSet(p) = ToSet(payloads) \ {x \in ToSet(payloads) : x.region # r}
    BY <1>1, WithoutList DEF Of
  <2> HIDE DEF p
  <2> QED BY <2>1
<1> HIDE DEF s, p
<1>4. ToSet(s) \subseteq ServiceEntries /\ ToSet(p) \subseteq PayloadEntries
  BY <1>2, <1>3, ListSet
<1>5. A \in Seq({f[e] : e \in ToSet(s)}) /\ ToSet(A) = {f[e] : e \in ToSet(s)}
  <2>1. A = [i \in 1..Len(s) |-> f[s[i]]]
    <3>1. \A i \in 1..Len(s) : s[i] \in ServiceEntries
      BY <1>2
    <3> QED BY <3>1
  <2> HIDE DEF f
  <2>2. LET m == [i \in 1..Len(s) |-> f[s[i]]] IN
          m \in Seq({f[e] : e \in ToSet(s)}) /\ ToSet(m) = {f[e] : e \in ToSet(s)}
    BY <1>2, ItemList
  <2> HIDE DEF A
  <2> QED BY <2>1, <2>2
<1>6. B \in Seq({g[e] : e \in ToSet(p)}) /\ ToSet(B) = {g[e] : e \in ToSet(p)}
  <2>1. B = [i \in 1..Len(p) |-> g[p[i]]]
    <3>1. \A i \in 1..Len(p) : p[i] \in PayloadEntries
      BY <1>3
    <3> QED BY <3>1
  <2> HIDE DEF g
  <2>2. LET m == [i \in 1..Len(p) |-> g[p[i]]] IN
          m \in Seq({g[e] : e \in ToSet(p)}) /\ ToSet(m) = {g[e] : e \in ToSet(p)}
    BY <1>3, ItemList
  <2> HIDE DEF B
  <2> QED BY <2>1, <2>2
<1>7. {f[e] : e \in ToSet(s)} = ServiceItems(r)
  <2>1. \A e \in ToSet(s) : f[e] = <<"Service", r, e.name>>
    BY <1>4
  <2> HIDE DEF f
  <2>2. {f[e] : e \in ToSet(s)} = {<<"Service", r, e.name>> : e \in ToSet(s)}
    BY <2>1
  <2> QED BY <1>2, <2>2 DEF ServiceItems
<1>8. {g[e] : e \in ToSet(p)} = PayloadItems(r)
  <2>1. \A e \in ToSet(p) : g[e] = <<"Payload", r, e.id>>
    BY <1>4
  <2> HIDE DEF g
  <2>2. {g[e] : e \in ToSet(p)} = {<<"Payload", r, e.id>> : e \in ToSet(p)}
    BY <2>1
  <2> QED BY <1>3, <2>2 DEF PayloadItems
<1> HIDE DEF f, g, A, B
<1>9. b \in S /\ z \in S
  BY DEF Items, RegionMarks
<1>10. ServiceItems(r) \subseteq S /\ PayloadItems(r) \subseteq S
  BY DEF Items
<1>11. S = {b} \cup ServiceItems(r) \cup PayloadItems(r) \cup {z}
  BY DEF Items, RegionMarks
<1> HIDE DEF S, b, z
<1>12. A \in Seq(S) /\ ToSet(A) = ServiceItems(r)
  BY <1>5, <1>7, <1>10
<1>13. B \in Seq(S) /\ ToSet(B) = PayloadItems(r)
  BY <1>6, <1>8, <1>10
<1> DEFINE u == <<b>>
           v == <<z>>
<1>14. u \in Seq(S) /\ ToSet(u) = {b} /\ v \in Seq(S) /\ ToSet(v) = {z}
  BY <1>9, OneItem
<1> HIDE DEF u, v
<1>15. (u \o A) \in Seq(S) /\ ToSet(u \o A) = {b} \cup ServiceItems(r)
  <2>1. (u \o A) \in Seq(S) /\ ToSet(u \o A) = ToSet(u) \cup ToSet(A)
    BY <1>12, <1>14, ConcatList
  <2> QED BY <1>12, <1>14, <2>1
<1>16. ((u \o A) \o B) \in Seq(S)
         /\ ToSet((u \o A) \o B) = {b} \cup ServiceItems(r) \cup PayloadItems(r)
  <2> DEFINE y == u \o A
  <2>1. y \in Seq(S) /\ ToSet(y) = {b} \cup ServiceItems(r)
    BY <1>15
  <2> HIDE DEF y
  <2>2. (y \o B) \in Seq(S) /\ ToSet(y \o B) = ToSet(y) \cup ToSet(B)
    BY <1>13, <2>1, ConcatList
  <2>3. (y \o B) \in Seq(S) /\ ToSet(y \o B) = {b} \cup ServiceItems(r) \cup PayloadItems(r)
    BY <1>13, <2>1, <2>2
  <2> QED BY <2>3 DEF y
<1>17. (((u \o A) \o B) \o v) \in Seq(S)
         /\ ToSet(((u \o A) \o B) \o v) = {b} \cup ServiceItems(r) \cup PayloadItems(r) \cup {z}
  <2> DEFINE y == (u \o A) \o B
  <2>1. y \in Seq(S) /\ ToSet(y) = {b} \cup ServiceItems(r) \cup PayloadItems(r)
    BY <1>16
  <2> HIDE DEF y
  <2>2. (y \o v) \in Seq(S) /\ ToSet(y \o v) = ToSet(y) \cup ToSet(v)
    BY <1>14, <2>1, ConcatList
  <2>3. (y \o v) \in Seq(S)
          /\ ToSet(y \o v) = {b} \cup ServiceItems(r) \cup PayloadItems(r) \cup {z}
    BY <1>14, <2>1, <2>2
  <2> QED BY <2>3 DEF y
<1>18. Block(r) = ((u \o A) \o B) \o v
  BY DEF Block, A, B, b, z, s, p, u, v
<1>19. Block(r) \in Seq(S) /\ ToSet(Block(r)) = S
  BY <1>11, <1>17, <1>18
<1> QED BY <1>19 DEF S

LEMMA SnapshotItems ==
  ASSUME TableInv
  PROVE  \A x : x \in ToSet(buildSnapshot) <=>
           x \in SnapshotEnds \/ \E r \in regIndex : x \in Items(r)
<1> DEFINE S == SnapshotEnds \cup UNION {Items(r) : r \in regIndex}
           m == [i \in 1..Len(regions) |-> Block(regions[i].id)]
           b == <<<<"SnapshotBegin">>>>
           z == <<<<"SnapshotEnd">>>>
           f == FlattenSeq(m)
<1>1. Typed /\ regions \in Seq(RegionEntries) /\ RegionsIndexed
  BY DEF TableInv, IndexExact, Typed, RegionsTyped
<1>2. buildSnapshot = (b \o f) \o z
  BY DEF buildSnapshot, Block, Of
<1>3. \A r : r \in regIndex <=> \E i \in 1..Len(regions) : regions[i].id = r
  <2>1. \A r : r \in regIndex <=> \E e \in ToSet(regions) : e.id = r
    BY <1>1 DEF RegionsIndexed
  <2>2. \A r : (\E e \in ToSet(regions) : e.id = r) <=> (\E i \in 1..Len(regions) : regions[i].id = r)
    BY <1>1, ListSet
  <2> QED BY <2>1, <2>2
<1>4. \A x : x \in S <=> x \in SnapshotEnds \/ \E r \in regIndex : x \in Items(r)
  <2> HIDE DEF SnapshotEnds, Items
  <2> QED OBVIOUS
<1>5. Len(regions) \in Nat /\ Len(m) = Len(regions)
  BY <1>1
<1>6. \A i \in 1..Len(regions) : m[i] \in Seq(S) /\ ToSet(m[i]) = Items(regions[i].id)
  <2>1. SUFFICES ASSUME NEW i \in 1..Len(regions)
                 PROVE  m[i] \in Seq(S) /\ ToSet(m[i]) = Items(regions[i].id)
    OBVIOUS
  <2> DEFINE r == regions[i].id
  <2>2. m[i] = Block(r) /\ r \in regIndex
    BY <1>3
  <2> HIDE DEF r, m, S
  <2>3. Items(r) \subseteq S
    BY <1>4, <2>2
  <2>4. Block(r) \in Seq(Items(r)) /\ ToSet(Block(r)) = Items(r)
    BY <1>1, BlockItems
  <2>5. Block(r) \in Seq(S)
    BY <2>3, <2>4
  <2> QED BY <2>2, <2>4, <2>5 DEF r
<1> HIDE DEF S
<1>7. m \in Seq(Seq(S))
  <2>1. \A i \in 1..Len(regions) : m[i] \in Seq(S)
    BY <1>6
  <2>2. m = [i \in 1..Len(regions) |-> m[i]]
    OBVIOUS
  <2> HIDE DEF m
  <2> QED BY <1>5, <2>1, <2>2
<1> HIDE DEF m
<1>8. f \in Seq(S) /\ \A x : x \in ToSet(f) <=> \E i \in 1..Len(m) : x \in ToSet(m[i])
  BY <1>7, FlattenMembers
<1> HIDE DEF f
<1>9. \A x : x \in ToSet(f) <=> \E r \in regIndex : x \in Items(r)
  BY <1>3, <1>5, <1>6, <1>8
<1>10. /\ b \in Seq(S) /\ ToSet(b) = {<<"SnapshotBegin">>}
       /\ z \in Seq(S) /\ ToSet(z) = {<<"SnapshotEnd">>}
  <2>1. <<"SnapshotBegin">> \in S /\ <<"SnapshotEnd">> \in S
    BY <1>4 DEF SnapshotEnds
  <2> QED BY <2>1, OneItem
<1> HIDE DEF b, z
<1>11. (b \o f) \in Seq(S) /\ ToSet(b \o f) = ToSet(b) \cup ToSet(f)
  BY <1>8, <1>10, ConcatList
<1> DEFINE y == b \o f
<1>12. y \in Seq(S) /\ ToSet(y) = ToSet(b) \cup ToSet(f)
  BY <1>11
<1>13. buildSnapshot = y \o z
  BY <1>2
<1> HIDE DEF y
<1>14. ToSet(y \o z) = ToSet(y) \cup ToSet(z)
  BY <1>10, <1>12, ConcatList
<1>15. ToSet(b) \cup ToSet(z) = SnapshotEnds
  BY <1>10 DEF SnapshotEnds
<1> QED BY <1>9, <1>12, <1>13, <1>14, <1>15

LEMMA SnapshotRoutes == TableInv => SnapshotWhole
<1> SUFFICES ASSUME TableInv PROVE SnapshotWhole
  OBVIOUS
<1>1. Provided /\ Owned
  BY Answered
<1>2. ServicesIndexed /\ PayloadsIndexed
  BY DEF TableInv, IndexExact
<1>3. /\ services \in Seq(ServiceEntries) /\ payloads \in Seq(PayloadEntries)
      /\ regIndex \subseteq Regions /\ payIndex \subseteq Payloads
  BY DEF TableInv, Typed, RegionsTyped, ServicesTyped, PayloadsTyped
<1>4. NoRegion \notin regIndex
  BY <1>3, TableAssumption
<1> DEFINE routed == {<<"Service", r, s>> : r \in Regions, s \in Services}
           Svc == {x \in routed : x[3] \in providers[x[2]]}
           Pay == {<<"Payload", routePayload(p), p>> :
                     p \in {q \in Payloads : routePayload(q) # NoRegion}}
           Marks == {<<k, r>> : k \in {"RegionBegin", "RegionEnd"}, r \in knownRegions}
<1>5. \A e \in ToSet(services) : e.region \in regIndex /\ e.name \in Services
  <2>1. ToSet(services) \subseteq ServiceEntries
    BY <1>3, ListSet
  <2> QED BY <1>2, <2>1 DEF ServicesIndexed, ServiceEntries
<1>6. \A e \in ToSet(payloads) : e.region \in regIndex /\ e.id \in Payloads
  <2>1. ToSet(payloads) \subseteq PayloadEntries
    BY <1>3, ListSet
  <2> QED BY <1>2, <2>1 DEF PayloadsIndexed, PayloadEntries
<1>7. \A r \in Regions : \A s \in Services : s \in providers[r] <=>
        \E e \in ToSet(services) : e.name = s /\ e.region = r
  BY <1>1, <1>2, IndexMembers DEF Provided, ServicesIndexed
<1>8. \A x : x \in Svc <=> \E r \in Regions, s \in Services : x = <<"Service", r, s>> /\ s \in providers[r]
  <2>1. \A x : x \in routed <=> \E r \in Regions, s \in Services : x = <<"Service", r, s>>
    OBVIOUS
  <2>2. \A r, s : <<"Service", r, s>>[3] = s /\ <<"Service", r, s>>[2] = r
    OBVIOUS
  <2> HIDE DEF routed
  <2> QED BY <2>1, <2>2
<1>9. \A x : x \in Svc <=> \E r \in regIndex : x \in ServiceItems(r)
  <2>1. ASSUME NEW r \in Regions, NEW s \in Services, s \in providers[r]
        PROVE  r \in regIndex /\ <<"Service", r, s>> \in ServiceItems(r)
    <3>1. PICK e \in ToSet(services) : e.name = s /\ e.region = r
      BY <1>7, <2>1
    <3> QED BY <1>5, <3>1 DEF ServiceItems
  <2>2. ASSUME NEW r \in regIndex, NEW x \in ServiceItems(r)
        PROVE  \E q \in Regions, s \in Services : x = <<"Service", q, s>> /\ s \in providers[q]
    <3>1. PICK e \in ToSet(services) : e.region = r /\ x = <<"Service", r, e.name>>
      BY DEF ServiceItems
    <3>2. e.name \in Services /\ r \in Regions
      BY <1>3, <1>5
    <3>3. e.name \in providers[r]
      BY <1>7, <3>1, <3>2
    <3> QED BY <3>1, <3>2, <3>3
  <2> HIDE DEF Svc
  <2> QED BY <1>8, <2>1, <2>2
<1>10. \A x : x \in Pay <=> \E r \in regIndex : x \in PayloadItems(r)
  <2>1. ASSUME NEW p \in Payloads, routePayload(p) # NoRegion
        PROVE  \E r \in regIndex : <<"Payload", routePayload(p), p>> \in PayloadItems(r)
    <3>1. PICK e \in ToSet(payloads) : e.id = p /\ routePayload(p) = e.region
      BY <1>1, <2>1 DEF Owned
    <3>2. e.region \in regIndex
      BY <1>6
    <3>3. <<"Payload", routePayload(p), p>> \in PayloadItems(e.region)
      BY <3>1 DEF PayloadItems
    <3> QED BY <3>2, <3>3
  <2>2. ASSUME NEW r \in regIndex, NEW x \in PayloadItems(r)
        PROVE  x \in Pay
    <3>1. PICK e \in ToSet(payloads) : e.region = r /\ x = <<"Payload", r, e.id>>
      BY DEF PayloadItems
    <3>2. e.id \in Payloads /\ routePayload(e.id) = r /\ r # NoRegion
      BY <1>1, <1>4, <1>6, <3>1 DEF Owned
    <3> QED BY <3>1, <3>2
  <2> QED BY <2>1, <2>2
<1>11. \A x : x \in Marks <=> \E r \in regIndex : x \in RegionMarks(r)
  BY DEF knownRegions, RegionMarks
<1> HIDE DEF Svc, Pay, Marks
<1>12. \A x : x \in ToSet(buildSnapshot) <=>
         x \in SnapshotEnds \/ \E r \in regIndex : x \in Items(r)
  BY SnapshotItems
<1>13. \A x : x \in ToSet(buildSnapshot) <=>
         x \in SnapshotEnds \/ x \in Marks \/ x \in Svc \/ x \in Pay
  BY <1>9, <1>10, <1>11, <1>12 DEF Items
<1>14. ToSet(buildSnapshot) = SnapshotEnds \cup Marks \cup Svc \cup Pay
  BY <1>13
<1> QED BY <1>14 DEF SnapshotWhole, SnapshotEnds, Marks, Svc, Pay

(* A snapshot taken in any state of the table has every region with all    *)
(* that is routed to it, and nothing else.                                 *)
THEOREM TableSnapshotWhole == Spec => []SnapshotWhole
<1>1. TableInv => SnapshotWhole
  BY SnapshotRoutes
<1>2. QED BY <1>1, TableTypedIndexed, PTL
=============================================================================

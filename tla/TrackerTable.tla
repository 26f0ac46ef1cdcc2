---------------------------- MODULE TrackerTable ----------------------------
(***************************************************************************)
(* RITrackerTable with its three lists, each in the order of last update,  *)
(* and the three indexes into them.  An entry carries its age, the time    *)
(* since its timeval, in ticks; the ages stop the timer's loops at the     *)
(* first young entry, so the order of the lists decides when an entry that *)
(* is over goes.  A service's index is the list of the regions whose       *)
(* entries it points to, in the order of the round robin.  An iterator is  *)
(* named by the key of its entry, a shared_ptr<Region> by the region's id. *)
(* Messages about regions the table does not know leave it as it is (they  *)
(* go to PubTracker, module RegionSync); the version an entry takes        *)
(* (updateRegionVersion) decides nothing here and is modelled there too.   *)
(***************************************************************************)
EXTENDS Lists

CONSTANTS
  Regions,          \* the region ids
  Services,         \* service names
  Payloads,         \* payload ids
  NoRegion,         \* no region
  RegionTimeout,    \* TRACKER_REGION_TIMEOUT_MS in ticks
  EntryTimeout,     \* TRACKER_SERVICE_TIMEOUT_MS, TRACKER_PAYLOAD_TIMEOUT_MS
  RegionLimit,      \* the regions one call of the timer removes at most
  EntryLimit,       \* the services, and the payloads, it removes at most
  MergeAge          \* the greatest age of an entry of a merged product

ASSUME TableAssumption ==
  /\ IsFiniteSet(Regions) /\ IsFiniteSet(Services) /\ IsFiniteSet(Payloads)
  /\ NoRegion \notin Regions
  /\ RegionTimeout \in Nat \ {0} /\ EntryTimeout \in Nat \ {0}
  /\ RegionLimit \in Nat \ {0} /\ EntryLimit \in Nat \ {0}
  /\ MergeAge \in Nat

VARIABLES
  regions,    \* m_regions
  regIndex,   \* the keys of m_regions_index
  services,   \* m_services
  svcIndex,   \* m_services_index, <<>> for a name it does not have
  payloads,   \* m_payloads
  payIndex,   \* the keys of m_payloads_index
  checked     \* the timer's callback ran since the last tick

lists == <<regions, services, payloads>>
indexes == <<regIndex, svcIndex, payIndex>>
vars == <<lists, indexes, checked>>

RegionEntry(r, a) == [id |-> r, age |-> a]
ServiceEntry(r, s, a) == [region |-> r, name |-> s, age |-> a]
PayloadEntry(r, p, a) == [region |-> r, id |-> p, age |-> a]

Init ==
  /\ regions = <<>> /\ regIndex = {}
  /\ services = <<>> /\ svcIndex = [s \in Services |-> <<>>]
  /\ payloads = <<>> /\ payIndex = {}
  /\ checked = FALSE

-----------------------------------------------------------------------------
(* What the handlers do to the lists.                                      *)

(* Mutant of PutServices: an update moves the region to the end of the     *)
(* round robin as well.                                                    *)
PutServicesLosesTurn(r, S, a) ==
  LET old == {e \in ToSet(services) :
                e.region = r /\ e.name \in ToSet(S) /\ Contains(svcIndex[e.name], r)}
  IN
  /\ services' = Without(services, old)
                   \o [i \in 1..Len(S) |-> ServiceEntry(r, S[i], a)]
  /\ svcIndex' = [s \in Services |->
       IF s \in ToSet(S)
         THEN Append(Without(svcIndex[s], {r}), r) ELSE svcIndex[s]]

(* The services S of r, one after the other: the entry the index has for r *)
(* is updated and moved to the end, otherwise one is made and indexed.     *)
PutServices(r, S, a) ==
  LET old == {e \in ToSet(services) :
                e.region = r /\ e.name \in ToSet(S) /\ Contains(svcIndex[e.name], r)}
  IN
  /\ services' = Without(services, old)
                   \o [i \in 1..Len(S) |-> ServiceEntry(r, S[i], a)]
  /\ svcIndex' = [s \in Services |->
       IF s \in ToSet(S) /\ ~ Contains(svcIndex[s], r)
         THEN Append(svcIndex[s], r) ELSE svcIndex[s]]

(* Mutant of PutPayloads: the payload keeps the entry of its old region.   *)
PutPayloadsTwice(r, P, a) ==
  LET old == {e \in ToSet(payloads) : e.region = r /\ e.id \in ToSet(P) /\ e.id \in payIndex} IN
  /\ payloads' = Without(payloads, old)
                   \o [i \in 1..Len(P) |-> PayloadEntry(r, P[i], a)]
  /\ payIndex' = payIndex \cup ToSet(P)

(* Mutant of PutPayloads: the entry's region is not set.                   *)
PutPayloadsNowhere(r, P, a) ==
  LET old == {e \in ToSet(payloads) : e.id \in ToSet(P) /\ e.id \in payIndex} IN
  /\ payloads' = Without(payloads, old)
                   \o [i \in 1..Len(P) |-> PayloadEntry(NoRegion, P[i], a)]
  /\ payIndex' = payIndex \cup ToSet(P)

(* The payloads P of r: an entry the index has is given to r and moved to  *)
(* the end, whichever region had it.                                       *)
PutPayloads(r, P, a) ==
  LET old == {e \in ToSet(payloads) : e.id \in ToSet(P) /\ e.id \in payIndex} IN
  /\ payloads' = Without(payloads, old)
                   \o [i \in 1..Len(P) |-> PayloadEntry(r, P[i], a)]
  /\ payIndex' = payIndex \cup ToSet(P)

(* Mutant of Drop: the services of a removed region keep their place in    *)
(* the index.                                                              *)
DropKeepsTurn(R, L, O) ==
  LET goneSvc == {e \in ToSet(services) : e.region \in R \/ <<e.region, e.name>> \in L}
      gonePay == {e \in ToSet(payloads) : e.region \in R \/ e.id \in O}
  IN
  /\ regions' = Without(regions, {e \in ToSet(regions) : e.id \in R})
  /\ regIndex' = regIndex \ R
  /\ services' = Without(services, goneSvc)
  /\ svcIndex' = [s \in Services |-> Without(svcIndex[s], {r \in Regions : <<r, s>> \in L})]
  /\ payloads' = Without(payloads, gonePay)
  /\ payIndex' = payIndex \ {e.id : e \in gonePay}

(* Mutant of Drop: the payloads of a removed region stay.                  *)
DropKeepsPayloads(R, L, O) ==
  LET goneSvc == {e \in ToSet(services) : e.region \in R \/ <<e.region, e.name>> \in L}
      gone(s) == {e.region : e \in {x \in goneSvc : x.name = s}}
  IN
  /\ regions' = Without(regions, {e \in ToSet(regions) : e.id \in R})
  /\ regIndex' = regIndex \ R
  /\ services' = Without(services, goneSvc)
  /\ svcIndex' = [s \in Services |-> Without(svcIndex[s], gone(s))]
  /\ payloads' = Without(payloads, {e \in ToSet(payloads) : e.id \in O})
  /\ payIndex' = payIndex \ O

(* doRmRegion for the regions R with every entry that points to them,      *)
(* doRmService for the pairs L and doRmPayload for the payloads O: list    *)
(* and index lose the entry, and an index list that is empty its name.     *)
Drop(R, L, O) ==
  LET goneSvc == {e \in ToSet(services) : e.region \in R \/ <<e.region, e.name>> \in L}
      gonePay == {e \in ToSet(payloads) : e.region \in R \/ e.id \in O}
      gone(s) == {e.region : e \in {x \in goneSvc : x.name = s}}
  IN
  /\ regions' = Without(regions, {e \in ToSet(regions) : e.id \in R})
  /\ regIndex' = regIndex \ R
  /\ services' = Without(services, goneSvc)
  /\ svcIndex' = [s \in Services |-> Without(svcIndex[s], gone(s))]
  /\ payloads' = Without(payloads, gonePay)
  /\ payIndex' = payIndex \ {e.id : e \in gonePay}

-----------------------------------------------------------------------------
(* The handlers.                                                           *)

(* A product of PubTracker: the region, the services S and the payloads P  *)
(* in the product's order, with the time stamps they got on the way in.    *)
merge(r, S, P, a) ==
  /\ r \notin regIndex
  /\ regions' = Append(regions, RegionEntry(r, a))
  /\ regIndex' = regIndex \cup {r}
  /\ PutServices(r, S, a)
  /\ PutPayloads(r, P, a)
  /\ UNCHANGED checked

(* Mutant of onRegion: the entry is updated where it stands.               *)
onRegionInPlace(r) ==
  /\ r \in regIndex
  /\ regions' = [i \in 1..Len(regions) |->
       IF regions[i].id = r THEN RegionEntry(r, 0) ELSE regions[i]]
  /\ UNCHANGED <<services, payloads, indexes, checked>>

(* Region::Region(const ris::Region&) stamps what arrives with the time.   *)
onRegion(r) ==
  /\ r \in regIndex
  /\ regions' = Append(Without(regions, {e \in ToSet(regions) : e.id = r}), RegionEntry(r, 0))
  /\ UNCHANGED <<services, payloads, indexes, checked>>

onRmRegion(r) ==
  /\ r \in regIndex
  /\ Drop({r}, {}, {})
  /\ UNCHANGED checked

onService(r, s) ==
  /\ r \in regIndex
  /\ PutServices(r, <<s>>, 0)
  /\ UNCHANGED <<regions, regIndex, payloads, payIndex, checked>>

onRmService(r, s) ==
  /\ r \in regIndex
  /\ Contains(svcIndex[s], r)
  /\ Drop({}, {<<r, s>>}, {})
  /\ UNCHANGED checked

onPayload(r, p) ==
  /\ r \in regIndex
  /\ PutPayloads(r, <<p>>, 0)
  /\ UNCHANGED <<regions, regIndex, services, svcIndex, checked>>

(* Only the region an entry points to may remove it.                       *)
onRmPayload(r, p) ==
  /\ r \in regIndex
  /\ p \in payIndex
  /\ \E e \in ToSet(payloads) : e.id = p /\ e.region = r
  /\ Drop({}, {}, {p})
  /\ UNCHANGED checked

(* The region at the front of the service's list answers and goes to the   *)
(* end.                                                                    *)
robinRouteService(s) ==
  /\ svcIndex[s] # <<>>
  /\ svcIndex' = [svcIndex EXCEPT ![s] = Append(Tail(@), Head(@))]
  /\ UNCHANGED <<lists, regIndex, payIndex, checked>>

(* The entries one loop of the timer removes: from the front, while they   *)
(* are over and the limit lasts.                                           *)
Over(list, limit, timeout) ==
  {list[k] : k \in {n \in 1..Len(list) :
     n <= limit /\ \A i \in 1..n : list[i].age >= timeout}}

onCheckTimer ==
  LET R == {e.id : e \in Over(regions, RegionLimit, RegionTimeout)}
      left(list) == Without(list, {e \in ToSet(list) : e.region \in R})
      L == {<<e.region, e.name>> : e \in Over(left(services), EntryLimit, EntryTimeout)}
      O == {e.id : e \in Over(left(payloads), EntryLimit, EntryTimeout)}
  IN
  /\ Drop(R, L, O)
  /\ checked' = TRUE

(* A tick of the clock; the timer's callback, due every 20 ms, runs at     *)
(* least once between two of them.                                         *)
Tick ==
  LET older(list) == [i \in 1..Len(list) |-> [list[i] EXCEPT !.age = @ + 1]] IN
  /\ checked
  /\ regions' = older(regions)
  /\ services' = older(services)
  /\ payloads' = older(payloads)
  /\ checked' = FALSE
  /\ UNCHANGED indexes

(* What a product may have of T: any part of it, in any order.             *)
Orders(T) == UNION {SetToSeqs(D) : D \in SUBSET T}

Next ==
  \/ \E r \in Regions, S \in Orders(Services), P \in Orders(Payloads), a \in 0..MergeAge :
       merge(r, S, P, a)
  \/ \E r \in Regions : onRegion(r) \/ onRmRegion(r)
  \/ \E r \in Regions, s \in Services : onService(r, s) \/ onRmService(r, s)
  \/ \E r \in Regions, p \in Payloads : onPayload(r, p) \/ onRmPayload(r, p)
  \/ \E s \in Services : robinRouteService(s)
  \/ onCheckTimer
  \/ Tick

Spec == Init /\ [][Next]_vars

-----------------------------------------------------------------------------
(* What the table answers.                                                 *)

(* getRegion finds a region by the index.                                  *)
knownRegions == regIndex

(* The regions a service's index points to.                                *)
providers == [r \in Regions |-> {s \in Services : Contains(svcIndex[s], r)}]

(* The region of the entry the index points to.                            *)
routePayload(p) ==
  IF p \in payIndex
    THEN (CHOOSE e \in ToSet(payloads) : e.id = p).region
    ELSE NoRegion

(* buildSnapshot: the lists, grouped by region.                            *)
buildSnapshot ==
  LET of(list, r) == Without(list, {e \in ToSet(list) : e.region # r})
      block(r) == <<<<"RegionBegin", r>>>>
                    \o [i \in 1..Len(of(services, r)) |->
                          <<"Service", r, of(services, r)[i].name>>]
                    \o [i \in 1..Len(of(payloads, r)) |->
                          <<"Payload", r, of(payloads, r)[i].id>>]
                    \o <<<<"RegionEnd", r>>>>
  IN <<<<"SnapshotBegin">>>>
       \o FlattenSeq([i \in 1..Len(regions) |-> block(regions[i].id)])
       \o <<<<"SnapshotEnd">>>>

-----------------------------------------------------------------------------
(* Properties.                                                             *)

(* The lists hold entries of the program and the indexes keys of it.       *)
TypeOK ==
  /\ regions \in Seq([id : Regions, age : Nat])
  /\ regIndex \subseteq Regions
  /\ services \in Seq([region : Regions, name : Services, age : Nat])
  /\ svcIndex \in [Services -> Seq(Regions)]
  /\ payloads \in Seq([region : Regions, id : Payloads, age : Nat])
  /\ payIndex \subseteq Payloads
  /\ checked \in BOOLEAN

Distinct(list, key(_)) ==
  \A i, j \in 1..Len(list) : key(list[i]) = key(list[j]) => i = j

(* Lists and indexes agree: no list has two entries of one key, every      *)
(* entry is indexed and every index entry points to one, and no entry      *)
(* points to a region that is not in the table (doRmRegion's CHECKs rely   *)
(* on it, and so does every erase of an iterator).                         *)
RegionsIndexed ==
  /\ Distinct(regions, LAMBDA e : e.id)
  /\ {e.id : e \in ToSet(regions)} = regIndex
ServicesIndexed ==
  /\ Distinct(services, LAMBDA e : <<e.region, e.name>>)
  /\ \A s \in Services :
       /\ Distinct(svcIndex[s], LAMBDA r : r)
       /\ ToSet(svcIndex[s]) = {e.region : e \in {x \in ToSet(services) : x.name = s}}
  /\ \A e \in ToSet(services) : e.region \in regIndex
PayloadsIndexed ==
  /\ Distinct(payloads, LAMBDA e : e.id)
  /\ {e.id : e \in ToSet(payloads)} = payIndex
  /\ \A e \in ToSet(payloads) : e.region \in regIndex
IndexExact == RegionsIndexed /\ ServicesIndexed /\ PayloadsIndexed

(* The region at place i of a service's list is not put back by this step: *)
(* it leaves the list, or its place is no later, or it was asked.          *)
TurnKept(s, i) ==
  \/ svcIndex[s][i] \notin ToSet(svcIndex'[s])
  \/ \E j \in 1..Len(svcIndex'[s]) : j <= i /\ svcIndex'[s][j] = svcIndex[s][i]
  \/ i = 1 /\ robinRouteService(s)

(* Round robin is fair whatever joins, leaves, repeats itself or times out *)
(* meanwhile: a region's place in a service's list is put back only by     *)
(* having been asked, so after as many answers as stand before it it is    *)
(* asked, unless it leaves.                                                *)
TurnsKept ==
  [][\A s \in Services : \A i \in 1..Len(svcIndex[s]) : TurnKept(s, i)]_vars

(* Although the timer stops at the first young entry and merged products   *)
(* are appended with older time stamps, nothing outlives its timeout by    *)
(* more than the greatest age at merging and the calls the limit costs:    *)
(* what stands before an entry leaves or moves behind it in time.          *)
NothingLongOver ==
  LET late(n, limit) == MergeAge + (IF n = 0 THEN 0 ELSE (n - 1) \div limit) IN
  /\ \A e \in ToSet(regions) :
       e.age <= RegionTimeout + late(Cardinality(Regions), RegionLimit)
  /\ \A e \in ToSet(services) :
       e.age <= EntryTimeout + late(Cardinality(Regions) * Cardinality(Services), EntryLimit)
  /\ \A e \in ToSet(payloads) :
       e.age <= EntryTimeout + late(Cardinality(Payloads), EntryLimit)

(* A snapshot of the table has every region with every service and payload *)
(* the table routes to it, and nothing else.                               *)
SnapshotWhole ==
  LET routed == {<<"Service", r, s>> : r \in Regions, s \in Services} IN
  ToSet(buildSnapshot) =
    {<<"SnapshotBegin">>, <<"SnapshotEnd">>}
      \cup {<<k, r>> : k \in {"RegionBegin", "RegionEnd"}, r \in knownRegions}
      \cup {x \in routed : x[3] \in providers[x[2]]}
      \cup {<<"Payload", routePayload(p), p>> :
              p \in {q \in Payloads : routePayload(q) # NoRegion}}

Routes == INSTANCE RouteTable WITH
  known <- knownRegions,
  tsvc <- providers,
  owner <- [p \in Payloads |-> routePayload(p)]

(* What the indexes answer is a route table: the lists, clocks and timer   *)
(* behind them never show.                                                 *)
AnswersRoutes == Routes!Spec
=============================================================================

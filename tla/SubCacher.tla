------------------------------ MODULE SubCacher ------------------------------
(***************************************************************************)
(* RegionSubCacher::present as the loop it is, on the lists RegionProduct  *)
(* keeps.  The factory's snapshot has arrived and filled the product; the  *)
(* cache holds the announcement that started the factory and whatever the  *)
(* region published since.  The lists stand in the order their entries     *)
(* were last published, which is what the table expires them by.           *)
(*                                                                         *)
(* RegionSync uses the closed forms of SyncReplay for what happens here in *)
(* one callback; PresentExact is what it relies on.                        *)
(***************************************************************************)
EXTENDS SyncReplay, Lists

CONSTANTS
  Services, Payloads,   \* the names in play
  NoItem,               \* the item of an announcement
  MaxVersion,           \* bound on versions
  MaxUpdates            \* bound on the cached updates

ASSUME BoundsAssumption ==
  /\ MaxVersion \in Nat /\ MaxUpdates \in Nat \ {0}
  /\ Services \cap Payloads = {}
  /\ IsFiniteSet(Services) /\ IsFiniteSet(Payloads)

VARIABLES
  version,    \* the argument of present(): the snapshot's version
  snapshot,   \* the content of the snapshot (history)
  cached,     \* the updates when present() is called (history)
  m_updates,  \* RegionSubCacher::m_updates
  product,    \* the RegionProduct
  expect,     \* expect_version
  stage       \* where the call is, or how it returned

vars == <<version, snapshot, cached, m_updates, product, expect, stage>>

Updates ==
  [kind : {"region"}, ver : 0..MaxVersion, item : {NoItem}]
    \cup [kind : {"service", "rmservice"}, ver : 0..MaxVersion, item : Services]
    \cup [kind : {"payload", "rmpayload"}, ver : 0..MaxVersion, item : Payloads]

Orders(S) == UNION {SetToSeqs(T) : T \in SUBSET S}   \* lists without a name twice
Elements(list) == {list[k] : k \in 1..Len(list)}
Content(prod) == Elements(prod.services) \cup Elements(prod.payloads)

TypeOK ==
  /\ version \in 0..MaxVersion
  /\ snapshot \subseteq Services \cup Payloads
  /\ product.version \in 0..MaxVersion
  /\ product.services \in Orders(Services)
  /\ product.payloads \in Orders(Payloads)
  /\ Len(m_updates) <= Len(cached)
  /\ expect \in 0..(MaxVersion + 1)
  /\ stage \in {"find", "replay", "presented", "failed"}

Init ==
  /\ version \in 0..MaxVersion
  /\ \E services \in Orders(Services), payloads \in Orders(Payloads) :
       product = [version |-> version, services |-> services, payloads |-> payloads]
  /\ snapshot = Content(product)
  /\ \E n \in 0..(MaxUpdates - 1), v \in 0..MaxVersion : \E rest \in [1..n -> Updates] :
       cached = <<[kind |-> "region", ver |-> v, item |-> NoItem]>> \o rest
  /\ m_updates = cached
  /\ expect = 0
  /\ stage = "find"

-----------------------------------------------------------------------------
(* Mutants of Touched: the old entry stays; the new one takes its place.   *)
TouchedTwice(list, x) == Append(list, x)
TouchedInPlace(list, x) == IF x \in Elements(list) THEN list ELSE Append(list, x)

(* RegionProduct::on...: a name published moves to the end of its list, or *)
(* is appended to it.                                                      *)
Touched(list, x) == Append(Without(list, {x}), x)

Observed(prod, m) ==
  [version  |-> m.ver,
   services |-> CASE m.kind = "service"   -> Touched(prod.services, m.item)
                  [] m.kind = "rmservice" -> Without(prod.services, {m.item})
                  [] OTHER                -> prod.services,
   payloads |-> CASE m.kind = "payload"   -> Touched(prod.payloads, m.item)
                  [] m.kind = "rmpayload" -> Without(prod.payloads, {m.item})
                  [] OTHER                -> prod.payloads]

(* The first loop drops updates until one carries the snapshot's version.  *)
Find ==
  /\ stage = "find"
  /\ m_updates # <<>>
  /\ m_updates' = Tail(m_updates)
  /\ \/ /\ Head(m_updates).ver = version
        /\ expect' = version + 1
        /\ stage' = "replay"
     \/ /\ Head(m_updates).ver # version
        /\ UNCHANGED <<expect, stage>>
  /\ UNCHANGED <<version, snapshot, cached, product>>

NotFound ==
  /\ stage = "find"
  /\ m_updates = <<>>
  /\ stage' = "failed"
  /\ UNCHANGED <<version, snapshot, cached, m_updates, product, expect>>

(* The second loop replays what carries the expected version ...           *)
Replay ==
  /\ stage = "replay"
  /\ m_updates # <<>>
  /\ Head(m_updates).ver = expect
  /\ product' = Observed(product, Head(m_updates))
  /\ m_updates' = Tail(m_updates)
  /\ expect' = expect + 1
  /\ UNCHANGED <<version, snapshot, cached, stage>>

(* Mutant of Broken: the update is dropped and the loop goes on.           *)
BrokenSkips ==
  /\ stage = "replay"
  /\ m_updates # <<>>
  /\ Head(m_updates).ver # expect
  /\ m_updates' = Tail(m_updates)
  /\ UNCHANGED <<version, snapshot, cached, product, expect, stage>>

(* ... and gives up at the first that does not.                            *)
Broken ==
  /\ stage = "replay"
  /\ m_updates # <<>>
  /\ Head(m_updates).ver # expect
  /\ m_updates' = <<>>
  /\ stage' = "failed"
  /\ UNCHANGED <<version, snapshot, cached, product, expect>>

Presented ==
  /\ stage = "replay"
  /\ m_updates = <<>>
  /\ stage' = "presented"
  /\ UNCHANGED <<version, snapshot, cached, m_updates, product, expect>>

Next == Find \/ NotFound \/ Replay \/ Broken \/ Presented

Spec == Init /\ [][Next]_vars

-----------------------------------------------------------------------------
(* The closed forms say what the loop computes: present() succeeds exactly *)
(* when Presents holds, and then the product is the snapshot with every    *)
(* update behind the match replayed, under the last one's version.         *)
PresentExact ==
  /\ stage = "presented" =>
       \E i \in 1..Len(cached) :
         /\ FirstMatch(cached, version, i)
         /\ Consecutive(cached, version, i)
         /\ Content(product) = Replayed(snapshot, cached, i, Len(cached))
         /\ product.version = version + (Len(cached) - i)
  /\ stage = "failed" => ~ Presents(cached, version)

(* The lists come out in the order of the last publication: what was       *)
(* published while the snapshot was on its way stands behind what was not, *)
(* and later behind earlier.                                               *)
LastPublished(x, i) ==
  LET at == {k \in (i+1)..Len(cached) : Adds(cached[k], x)}
  IN  IF at = {} THEN 0 ELSE CHOOSE k \in at : \A j \in at : j <= k

RecentLast ==
  stage = "presented" =>
    \A i \in 1..Len(cached) : FirstMatch(cached, version, i) =>
      \A list \in {product.services, product.payloads} :
        \A j, k \in 1..Len(list) :
          LastPublished(list[j], i) < LastPublished(list[k], i) => j < k
=============================================================================

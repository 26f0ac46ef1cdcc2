----------------------------- MODULE RegionSync -----------------------------
(***************************************************************************)
(* Regions and one tracker.  A region keeps a table of services and        *)
(* payloads under a version counter (RIRegionTable) and publishes every    *)
(* change, and its announcement every second, over one FIFO channel        *)
(* (RIPublisher -> ribroker -> RISubscriber).  The tracker keeps a table   *)
(* of the regions it knows (RITrackerTable).  A message of a region it     *)
(* does not know goes to PubTracker: an announcement starts a factory      *)
(* (RegionFactory), which asks the region for a snapshot, caches what the  *)
(* region publishes meanwhile (RegionSubCacher), and merges the snapshot   *)
(* with the cached updates replayed on it into the table.                  *)
(*                                                                         *)
(* The variables hist, inc, tinc, synced, losses and the fields inc and    *)
(* fresh of a message are history: no guard of the code's actions reads    *)
(* them, except that losses and inc carry the bounds MaxLoss and MaxInc.   *)
(***************************************************************************)
EXTENDS SyncReplay, FiniteSets

CONSTANTS
  Regions,      \* the region ids
  Services,     \* service names
  Payloads,     \* payload ids
  Capacity,     \* PubTracker::m_capacity, the factories that may run at once
  Unreachable,  \* regions whose announced snapshot address cannot be connected to
  Faults,       \* which of "crash", "refuse", "silence", "restart" happen
  Prompt,       \* a region announces itself less often than a snapshot takes
  NoRegion,     \* no owner
  EmptyId,      \* the empty string, the id of a region nobody filled in
  NoItem,       \* the item of a message that carries none
  MaxVersion,   \* bound on the version counter of a region
  MaxInc,       \* bound on the starts of a region
  MaxChan,      \* bound on the messages in flight from a region
  MaxUpdates,   \* bound on the updates a factory caches
  MaxLoss       \* bound on the lost messages

Items == Services \cup Payloads

ASSUME ConstantsAssumption ==
  /\ Services \cap Payloads = {}
  /\ NoItem \notin Items
  /\ NoRegion \notin Regions
  /\ EmptyId \notin Regions
  /\ Unreachable \subseteq Regions
  /\ Capacity \in Nat
  /\ Prompt \in BOOLEAN
  /\ MaxVersion \in Nat /\ MaxInc \in Nat /\ MaxLoss \in Nat
  /\ MaxChan \in Nat \ {0} /\ MaxUpdates \in Nat \ {0}

VARIABLES
  alive,    \* the regions whose actor runs
  inc,      \* how often a region was started
  version,  \* m_region.version of RIRegionTable
  content,  \* the names in the lists of RIRegionTable
  hist,     \* hist[r][i][v]: the content of r at version v of its i-th run
  chan,     \* the messages in flight from a region to the tracker
  losses,   \* how many messages were lost
  known,    \* the keys of RITrackerTable::m_regions_index
  tver,     \* the version in the table's entry of a known region
  tsvc,     \* the services in m_services that point to a region
  owner,    \* the region an entry of m_payloads points to
  tinc,     \* which run of the region the table's entry comes from
  synced,   \* the entry was built from a snapshot and every later change
  factory,  \* the stage of PubTracker's factory for a region
  snap,     \* the snapshot the region has built for the factory
  updates   \* RegionSubCacher::m_updates

regionVars  == <<alive, inc, version, content, hist>>
tableVars   == <<known, tver, tsvc, owner, tinc, synced>>
factoryVars == <<factory, snap, updates>>
vars == <<regionVars, chan, losses, tableVars, factoryVars>>

Stages == {"none", "asked", "built"}

Message(kind, v, item, i, fresh) ==
  [kind |-> kind, ver |-> v, item |-> item, inc |-> i, fresh |-> fresh]

MessagesOf(kinds, items) ==
  [kind : kinds, ver : 0..MaxVersion, item : items, inc : 0..MaxInc, fresh : BOOLEAN]

Messages ==
  MessagesOf({"region", "rmregion"}, {NoItem})
    \cup MessagesOf({"service", "rmservice"}, Services)
    \cup MessagesOf({"payload", "rmpayload"}, Payloads)

Snapshot(v, c, i) == [ver |-> v, content |-> c, inc |-> i]
NoSnapshot == Snapshot(0, {}, 0)
Snapshots == [ver : 0..MaxVersion, content : SUBSET Items, inc : 0..MaxInc]

Syncing == {r \in Regions : factory[r] # "none"}   \* keys of m_factories

TypeOK ==
  /\ alive \subseteq Regions
  /\ inc \in [Regions -> 0..MaxInc]
  /\ version \in [Regions -> 0..MaxVersion]
  /\ content \in [Regions -> SUBSET Items]
  /\ hist \in [Regions -> [0..MaxInc -> [0..MaxVersion -> SUBSET Items]]]
  /\ chan \in [Regions -> Seq(Messages)]
  /\ losses \in 0..MaxLoss
  /\ known \subseteq Regions \cup {EmptyId}
  /\ tver \in [Regions -> 0..MaxVersion]
  /\ tsvc \in [Regions -> SUBSET Services]
  /\ owner \in [Payloads -> Regions \cup {NoRegion}]
  /\ tinc \in [Regions -> 0..MaxInc]
  /\ synced \in [Regions -> BOOLEAN]
  /\ factory \in [Regions -> Stages]
  /\ snap \in [Regions -> Snapshots]
  /\ updates \in [Regions -> Seq(Messages)]

Init ==
  /\ alive = {}
  /\ inc = [r \in Regions |-> 0]
  /\ version = [r \in Regions |-> 0]
  /\ content = [r \in Regions |-> {}]
  /\ hist = [r \in Regions |-> [i \in 0..MaxInc |-> [v \in 0..MaxVersion |-> {}]]]
  /\ chan = [r \in Regions |-> <<>>]
  /\ losses = 0
  /\ known = {}
  /\ tver = [r \in Regions |-> 0]
  /\ tsvc = [r \in Regions |-> {}]
  /\ owner = [p \in Payloads |-> NoRegion]
  /\ tinc = [r \in Regions |-> 0]
  /\ synced = [r \in Regions |-> FALSE]
  /\ factory = [r \in Regions |-> "none"]
  /\ snap = [r \in Regions |-> NoSnapshot]
  /\ updates = [r \in Regions |-> <<>>]

-----------------------------------------------------------------------------
(* The region: RIRegionTable, run by the loop of RIRegionActor.            *)

(* RIPublisher sends m on its PUB socket; the socket or the broker drops   *)
(* what a full queue or a missing peer cannot take.                        *)
Publish(r, m) ==
  /\ Len(chan[r]) < MaxChan
  /\ \/ chan' = [chan EXCEPT ![r] = Append(@, m)] /\ UNCHANGED losses
     \/ losses < MaxLoss /\ losses' = losses + 1 /\ UNCHANGED chan

(* RIRegionTable::start publishes the announcement of version 0.           *)
StartRegion(r) ==
  /\ r \notin alive
  /\ inc[r] < MaxInc
  /\ alive' = alive \cup {r}
  /\ inc' = [inc EXCEPT ![r] = @ + 1]
  /\ version' = [version EXCEPT ![r] = 0]
  /\ content' = [content EXCEPT ![r] = {}]
  /\ hist' = [hist EXCEPT ![r][inc[r] + 1][0] = {}]
  /\ Publish(r, Message("region", 0, NoItem, inc[r] + 1, FALSE))
  /\ UNCHANGED <<tableVars, factoryVars>>

(* A change of the table takes the next version and publishes itself       *)
(* under it.                                                               *)
Change(r, kind, item, c) ==
  /\ version[r] < MaxVersion
  /\ version' = [version EXCEPT ![r] = @ + 1]
  /\ content' = [content EXCEPT ![r] = c]
  /\ hist' = [hist EXCEPT ![r][inc[r]][version[r] + 1] = c]
  /\ Publish(r, Message(kind, version[r] + 1, item, inc[r], TRUE))
  /\ UNCHANGED <<alive, inc, tableVars, factoryVars>>

AddService(r, s) ==
  /\ r \in alive
  /\ s \in Services \ content[r]
  /\ Change(r, "service", s, content[r] \cup {s})

RmService(r, s) ==
  /\ r \in alive
  /\ s \in Services \cap content[r]
  /\ Change(r, "rmservice", s, content[r] \ {s})

AddPayload(r, p) ==
  /\ r \in alive
  /\ p \in Payloads \ content[r]
  /\ Change(r, "payload", p, content[r] \cup {p})

RmPayload(r, p) ==
  /\ r \in alive
  /\ p \in Payloads \cap content[r]
  /\ Change(r, "rmpayload", p, content[r] \ {p})

(* Timer callbacks that publish again what has not changed, under the      *)
(* version the table has now.  pubRepeated sends every service and then    *)
(* every payload whose minute is over; a tick that sends several is so     *)
(* many of these actions in a row.                                         *)
Repeat(r, kind, item) ==
  /\ r \in alive
  /\ Prompt => factory[r] = "none" /\ chan[r] = <<>>
  /\ Publish(r, Message(kind, version[r], item, inc[r], FALSE))
  /\ UNCHANGED <<regionVars, tableVars, factoryVars>>

PubRegion(r) == Repeat(r, "region", NoItem)

PubRepeated(r) ==
  \/ \E s \in Services \cap content[r] : Repeat(r, "service", s)
  \/ \E p \in Payloads \cap content[r] : Repeat(r, "payload", p)

(* RIRegionTable::stop publishes the farewell when the actor ends.         *)
StopRegion(r) ==
  /\ r \in alive
  /\ alive' = alive \ {r}
  /\ Publish(r, Message("rmregion", 0, NoItem, inc[r], FALSE))
  /\ UNCHANGED <<inc, version, content, hist, tableVars, factoryVars>>

(* The process dies without a farewell.                                    *)
CrashRegion(r) ==
  /\ "crash" \in Faults
  /\ r \in alive
  /\ alive' = alive \ {r}
  /\ UNCHANGED <<inc, version, content, hist, chan, losses, tableVars, factoryVars>>

-----------------------------------------------------------------------------
(* The tracker: RISubscriber hands each message to RITrackerTable, which   *)
(* passes what it does not know to PubTracker.                             *)

Receive(r, kind) ==
  /\ chan[r] # <<>>
  /\ Head(chan[r]).kind = kind
  /\ chan' = [chan EXCEPT ![r] = Tail(@)]
  /\ UNCHANGED <<regionVars, losses>>

(* The entry of a known region takes the version of whatever it receives:  *)
(* a jump is logged, nothing more.  The entry stays synced while every     *)
(* version arrives with the change that made it.                           *)
Track(r, m) ==
  /\ tver' = [tver EXCEPT ![r] = m.ver]
  /\ tinc' = [tinc EXCEPT ![r] = m.inc]
  /\ synced' = [synced EXCEPT ![r] =
       /\ @
       /\ m.inc = tinc[r]
       /\ m.ver = tver[r] \/ (m.fresh /\ m.ver = tver[r] + 1)]

(* Mutant of Forget: the payloads of the regions stay.                     *)
ForgetServicesOnly(R) ==
  /\ known' = known \ R
  /\ tver' = [r \in Regions |-> IF r \in R THEN 0 ELSE tver[r]]
  /\ tsvc' = [r \in Regions |-> IF r \in R THEN {} ELSE tsvc[r]]
  /\ tinc' = [r \in Regions |-> IF r \in R THEN 0 ELSE tinc[r]]
  /\ synced' = [r \in Regions |-> IF r \in R THEN FALSE ELSE synced[r]]
  /\ UNCHANGED owner

(* RITrackerTable::doRmRegion for every region of R: its services and the  *)
(* payloads it owns go with it.                                            *)
Forget(R) ==
  /\ known' = known \ R
  /\ tver' = [r \in Regions |-> IF r \in R THEN 0 ELSE tver[r]]
  /\ tsvc' = [r \in Regions |-> IF r \in R THEN {} ELSE tsvc[r]]
  /\ owner' = [p \in Payloads |-> IF owner[p] \in R THEN NoRegion ELSE owner[p]]
  /\ tinc' = [r \in Regions |-> IF r \in R THEN 0 ELSE tinc[r]]
  /\ synced' = [r \in Regions |-> IF r \in R THEN FALSE ELSE synced[r]]

(* Mutant of EndFactory: the factory stays in m_factories.                 *)
EndFactoryKept(r) ==
  /\ UNCHANGED factory
  /\ snap' = [snap EXCEPT ![r] = NoSnapshot]
  /\ updates' = [updates EXCEPT ![r] = <<>>]

(* PubTracker erases the factory, and with it the client and the cache.    *)
EndFactory(r) ==
  /\ factory' = [factory EXCEPT ![r] = "none"]
  /\ snap' = [snap EXCEPT ![r] = NoSnapshot]
  /\ updates' = [updates EXCEPT ![r] = <<>>]

(* RegionSubCacher queues m.                                               *)
Cache(r, m) ==
  /\ Len(updates[r]) < MaxUpdates
  /\ updates' = [updates EXCEPT ![r] = Append(@, m)]
  /\ UNCHANGED <<factory, snap>>

(* Mutant of PassOn: updates are only cached until the snapshot is built.  *)
PassOnUntilBuilt(r, m) ==
  \/ factory[r] = "asked" /\ Cache(r, m)
  \/ factory[r] # "asked" /\ UNCHANGED factoryVars

(* PubTracker passes an update of a region it is syncing to the factory's  *)
(* cache and ignores any other.                                            *)
PassOn(r, m) ==
  \/ r \in Syncing /\ Cache(r, m)
  \/ r \notin Syncing /\ UNCHANGED factoryVars

(* RegionFactory::start launches the client and gives the cache the        *)
(* announcement as its first update.                                       *)
StartFactory(r, m) ==
  /\ factory' = [factory EXCEPT ![r] = "asked"]
  /\ updates' = [updates EXCEPT ![r] = <<m>>]
  /\ UNCHANGED snap

(* Mutant of SyncRegion: the capacity is compared with <=.                 *)
SyncRegionOverCapacity(r, m) ==
  \/ r \in Syncing /\ Cache(r, m)
  \/ r \notin Syncing /\ Cardinality(Syncing) <= Capacity /\ StartFactory(r, m)

(* PubTracker::onRegion: an unknown region gets a factory if one is free.  *)
SyncRegion(r, m) ==
  \/ r \in Syncing /\ Cache(r, m)
  \/ r \notin Syncing /\ Cardinality(Syncing) < Capacity /\ StartFactory(r, m)
  \/ r \notin Syncing /\ Cardinality(Syncing) >= Capacity /\ UNCHANGED factoryVars

RecvRegion(r) ==
  LET m == Head(chan[r]) IN
  /\ Receive(r, "region")
  /\ \/ r \in known /\ Track(r, m) /\ UNCHANGED <<known, tsvc, owner, factoryVars>>
     \/ r \notin known /\ SyncRegion(r, m) /\ UNCHANGED tableVars

(* RITrackerTable::onRmRegion, PubTracker::onRmRegion                      *)
RecvRmRegion(r) ==
  /\ Receive(r, "rmregion")
  /\ \/ r \in known /\ Forget({r}) /\ UNCHANGED factoryVars
     \/ r \notin known /\ EndFactory(r) /\ UNCHANGED tableVars

RecvService(r) ==
  LET m == Head(chan[r]) IN
  /\ Receive(r, "service")
  /\ \/ /\ r \in known
        /\ tsvc' = [tsvc EXCEPT ![r] = @ \cup {m.item}]
        /\ Track(r, m)
        /\ UNCHANGED <<known, owner, factoryVars>>
     \/ r \notin known /\ PassOn(r, m) /\ UNCHANGED tableVars

RecvRmService(r) ==
  LET m == Head(chan[r]) IN
  /\ Receive(r, "rmservice")
  /\ \/ /\ r \in known
        /\ tsvc' = [tsvc EXCEPT ![r] = @ \ {m.item}]
        /\ Track(r, m)
        /\ UNCHANGED <<known, owner, factoryVars>>
     \/ r \notin known /\ PassOn(r, m) /\ UNCHANGED tableVars

(* The payload's entry is made, or moved from the region that owned it.    *)
RecvPayload(r) ==
  LET m == Head(chan[r]) IN
  /\ Receive(r, "payload")
  /\ \/ /\ r \in known
        /\ owner' = [owner EXCEPT ![m.item] = r]
        /\ Track(r, m)
        /\ UNCHANGED <<known, tsvc, factoryVars>>
     \/ r \notin known /\ PassOn(r, m) /\ UNCHANGED tableVars

(* RITrackerTable::doRmPayload removes the entry only from its owner.      *)
RecvRmPayload(r) ==
  LET m == Head(chan[r]) IN
  /\ Receive(r, "rmpayload")
  /\ \/ /\ r \in known
        /\ owner' = [owner EXCEPT ![m.item] = IF @ = r THEN NoRegion ELSE @]
        /\ Track(r, m)
        /\ UNCHANGED <<known, tsvc, factoryVars>>
     \/ r \notin known /\ PassOn(r, m) /\ UNCHANGED tableVars

-----------------------------------------------------------------------------
(* The factory: SnapshotClient against the region's SnapshotService.       *)

(* The loop of the region builds the whole snapshot in one callback        *)
(* (RIRegionTable::buildSnapshot); its way to the client is not modelled.  *)
BuildSnapshot(r) ==
  /\ factory[r] = "asked"
  /\ r \in alive
  /\ r \notin Unreachable
  /\ factory' = [factory EXCEPT ![r] = "built"]
  /\ snap' = [snap EXCEPT ![r] = Snapshot(version[r], content[r], inc[r])]
  /\ UNCHANGED <<regionVars, chan, losses, tableVars, updates>>

(* Mutant of Merge: the version is expect_version, one too far.            *)
MergeOneTooFar(r, i) ==
  LET u == updates[r]
      product == Replayed(snap[r].content, u, i, Len(u))
  IN
  /\ known' = known \cup {r}
  /\ tver' = [tver EXCEPT ![r] = snap[r].ver + (Len(u) - i) + 1]
  /\ tsvc' = [tsvc EXCEPT ![r] = @ \cup (product \cap Services)]
  /\ owner' = [p \in Payloads |-> IF p \in product THEN r ELSE owner[p]]
  /\ tinc' = [tinc EXCEPT ![r] = snap[r].inc]
  /\ synced' = [synced EXCEPT ![r] =
       \A k \in (i+1)..Len(u) : u[k].fresh /\ u[k].inc = snap[r].inc]

(* RITrackerTable::merge puts the product of r into the table; a payload   *)
(* another region owns changes hands.                                      *)
Merge(r, i) ==
  LET u == updates[r]
      product == Replayed(snap[r].content, u, i, Len(u))
  IN
  /\ known' = known \cup {r}
  /\ tver' = [tver EXCEPT ![r] = snap[r].ver + (Len(u) - i)]
  /\ tsvc' = [tsvc EXCEPT ![r] = @ \cup (product \cap Services)]
  /\ owner' = [p \in Payloads |-> IF p \in product THEN r ELSE owner[p]]
  /\ tinc' = [tinc EXCEPT ![r] = snap[r].inc]
  /\ synced' = [synced EXCEPT ![r] =
       \A k \in (i+1)..Len(u) : u[k].fresh /\ u[k].inc = snap[r].inc]

(* RegionFactory::onSnapshotCompleted(0) and PubTracker::onFactoryCompleted *)
SnapshotDone(r) ==
  LET u == updates[r] IN
  /\ factory[r] = "built"
  /\ \/ \E i \in 1..Len(u) :
          /\ FirstMatch(u, snap[r].ver, i)
          /\ Consecutive(u, snap[r].ver, i)
          /\ \/ r \notin known /\ Merge(r, i)
             \/ r \in known /\ UNCHANGED tableVars
     \/ ~ Presents(u, snap[r].ver) /\ UNCHANGED tableVars
  /\ EndFactory(r)
  /\ UNCHANGED <<regionVars, chan, losses>>

(* The transfer fails: refused by the service, or cut off because the      *)
(* region that announced itself is gone or was started anew.               *)
SnapshotFailed(r) ==
  /\ r \in Syncing
  /\ r \notin Unreachable
  /\ \/ "refuse" \in Faults
     \/ r \notin alive
     \/ \E k \in 1..Len(updates[r]) : updates[r][k].inc # inc[r]
  /\ EndFactory(r)
  /\ UNCHANGED <<regionVars, chan, losses, tableVars>>

(* SnapshotClient::run signals 0, the value of success, when its worker    *)
(* cannot connect: the product is the empty RegionProduct, of version 0    *)
(* and empty id, and the replay passes it by.                              *)
SnapshotNotStarted(r) ==
  /\ factory[r] = "asked"
  /\ r \in Unreachable
  /\ known' = IF Presents(updates[r], 0) THEN known \cup {EmptyId} ELSE known
  /\ EndFactory(r)
  /\ UNCHANGED <<regionVars, chan, losses, tver, tsvc, owner, tinc, synced>>

-----------------------------------------------------------------------------
(* RITrackerTable::onCheckTimer removes regions not heard of for 30        *)
(* seconds, and services and payloads not published for 125 seconds.  A    *)
(* live region announces itself every second and repeats its entries every *)
(* minute, and a message is not that long on its way, so that without the  *)
(* fault "silence" these times pass only for what the region no longer is  *)
(* or has.                                                                 *)
Silent(r) == "silence" \in Faults \/ (r \notin alive /\ chan[r] = <<>>)

(* Mutant of Unheard: single services and payloads do not time out.        *)
UnheardRegion(r, x) == Silent(r)

Unheard(r, x) == Silent(r) \/ (x \notin content[r] /\ chan[r] = <<>>)

(* Mutant of Expire: the regions themselves stay.                          *)
ExpireEntries(gone, Q, P) ==
  /\ tsvc' = [r \in Regions |-> {s \in tsvc[r] : <<r, s>> \notin Q}]
  /\ owner' = [p \in Payloads |-> IF p \in P THEN NoRegion ELSE owner[p]]
  /\ synced' = [r \in Regions |->
       synced[r] /\ r \notin {rs[1] : rs \in Q} \cup {owner[p] : p \in P}]
  /\ UNCHANGED <<known, tver, tinc, regionVars, chan, losses, factoryVars>>

(* The regions gone, the services Q and the payloads P expire together.    *)
Expire(gone, Q, P) ==
  LET cut == {rs[1] : rs \in Q} \cup {owner[p] : p \in P} IN
  /\ known' = known \ gone
  /\ tver' = [r \in Regions |-> IF r \in gone THEN 0 ELSE tver[r]]
  /\ tsvc' = [r \in Regions |->
                IF r \in gone THEN {} ELSE {s \in tsvc[r] : <<r, s>> \notin Q}]
  /\ owner' = [p \in Payloads |->
                 IF owner[p] \in gone \/ p \in P THEN NoRegion ELSE owner[p]]
  /\ tinc' = [r \in Regions |-> IF r \in gone THEN 0 ELSE tinc[r]]
  /\ synced' = [r \in Regions |-> synced[r] /\ r \notin gone \cup cut]
  /\ UNCHANGED <<regionVars, chan, losses, factoryVars>>

CheckTimer ==
  \E gone \in SUBSET {r \in known : r = EmptyId \/ Silent(r)},
     Q \in SUBSET {rs \in Regions \X Services :
                     rs[2] \in tsvc[rs[1]] /\ Unheard(rs[1], rs[2])},
     P \in SUBSET {p \in Payloads : owner[p] # NoRegion /\ Unheard(owner[p], p)} :
    /\ gone # {} \/ Q # {} \/ P # {}
    /\ Expire(gone, Q, P)

(* The tracker process is replaced: its state and what was on the way to   *)
(* it are gone.                                                            *)
RestartTracker ==
  /\ "restart" \in Faults
  /\ Forget(Regions \cup {EmptyId})
  /\ chan' = [r \in Regions |-> <<>>]
  /\ factory' = [r \in Regions |-> "none"]
  /\ snap' = [r \in Regions |-> NoSnapshot]
  /\ updates' = [r \in Regions |-> <<>>]
  /\ UNCHANGED <<regionVars, losses>>

-----------------------------------------------------------------------------
RegionStep(r) ==
  \/ StartRegion(r) \/ StopRegion(r) \/ CrashRegion(r)
  \/ \E s \in Services : AddService(r, s) \/ RmService(r, s)
  \/ \E p \in Payloads : AddPayload(r, p) \/ RmPayload(r, p)
  \/ PubRegion(r) \/ PubRepeated(r)

Deliver(r) ==
  \/ RecvRegion(r) \/ RecvRmRegion(r)
  \/ RecvService(r) \/ RecvRmService(r)
  \/ RecvPayload(r) \/ RecvRmPayload(r)

FactoryStep(r) ==
  \/ BuildSnapshot(r) \/ SnapshotDone(r)
  \/ SnapshotFailed(r) \/ SnapshotNotStarted(r)

Next ==
  \/ \E r \in Regions : RegionStep(r) \/ Deliver(r) \/ FactoryStep(r)
  \/ CheckTimer
  \/ RestartTracker

Spec == Init /\ [][Next]_vars

(* Everything the two loops have to do is done in the end, and their       *)
(* timers fire again and again whatever happens between: each entry's      *)
(* minute comes, and each entry that timed out is found by a later tick.   *)
(* What the outside decides (starts, stops, changes, faults) is not fair.  *)
Fairness ==
  /\ \A r \in Regions :
       /\ SF_vars(PubRegion(r))
       /\ \A s \in Services : SF_vars(s \in content[r] /\ Repeat(r, "service", s))
       /\ \A p \in Payloads : SF_vars(p \in content[r] /\ Repeat(r, "payload", p))
       /\ WF_vars(Deliver(r))
       /\ WF_vars(FactoryStep(r))
       /\ SF_vars(CheckTimer /\ r \in known /\ r \notin known')
       /\ \A s \in Services : SF_vars(CheckTimer /\ s \in tsvc[r] /\ s \notin tsvc'[r])
       /\ \A p \in Payloads : SF_vars(CheckTimer /\ owner[p] = r /\ owner'[p] # r)

FairSpec == Spec /\ Fairness

-----------------------------------------------------------------------------
(* Only r ever had p: no other region can claim it.                        *)
Exclusive(r, p) ==
  \A q \in Regions \ {r} : \A i \in 0..MaxInc, v \in 0..MaxVersion : p \notin hist[q][i][v]

(* The entry of r in the tracker's table is what r had at the version the  *)
(* entry names.                                                            *)
EntryExact(r) ==
  LET truth == hist[r][tinc[r]][tver[r]] IN
  /\ tsvc[r] = truth \cap Services
  /\ \A p \in Payloads : owner[p] = r => p \in truth
  /\ \A p \in truth \cap Payloads : Exclusive(r, p) => owner[p] = r

(* A merged entry is a true state of its region as long as each version    *)
(* since came with the change that made it: no interleaving of changes,    *)
(* repetitions, losses, restarts and a snapshot in flight, and no merge of *)
(* another region, makes present() and merge() accept a product the region *)
(* never was.                                                              *)
TableExact == \A r \in known \cap Regions : synced[r] => EntryExact(r)

(* Without losses, crashes and restarts every entry is exact, and once the *)
(* messages are drained it is the region as it is now.                     *)
LosslessExact ==
  \A r \in known \cap Regions :
    losses = 0 /\ inc[r] = 1 /\ Faults \cap {"crash", "silence"} = {} =>
      /\ synced[r] /\ EntryExact(r)
      /\ chan[r] = <<>> => tver[r] = version[r]

(* No route leads to a region that left the table: doRmRegion and the      *)
(* timers take its services and payloads with it.                          *)
NoOrphans ==
  \A r \in Regions \ known : tsvc[r] = {} /\ \A p \in Payloads : owner[p] # r

(* PubTracker never syncs a region the table already has, so that merge    *)
(* never refuses a product, and never runs more factories than its         *)
(* capacity.                                                               *)
FactoriesSound ==
  /\ Syncing \cap known = {}
  /\ Cardinality(Syncing) <= Capacity

(* As long as a region was not restarted the version of its entry never    *)
(* goes back, whatever is lost or repeated: what is still on the way when  *)
(* a product is merged is not older than the product.                      *)
NoRollback ==
  [][\A r \in known \cap known' \cap Regions :
       inc[r] = 1 => tver'[r] >= tver[r]]_vars

(* Region ids in the table are not empty, as Region::toProtobuf asserts.   *)
NoEmptyRegion == EmptyId \notin known

(* A region that stays up is known in the end, and its entry settles on    *)
(* what it has; one that stays down is forgotten.                          *)
Settled(r) ==
  /\ r \in known
  /\ tver[r] = version[r]
  /\ tsvc[r] = content[r] \cap Services
  /\ \A p \in Payloads : Exclusive(r, p) => (owner[p] = r <=> p \in content[r])

Converges ==
  \A r \in Regions \ Unreachable : <>[](r \in alive) => <>[]Settled(r)
Forgotten ==
  \A r \in Regions : <>[](r \notin alive) => <>[](r \notin known \cup Syncing)
Discovered ==
  \A r \in Regions : <>[](r \in alive) => <>(r \in known)
=============================================================================

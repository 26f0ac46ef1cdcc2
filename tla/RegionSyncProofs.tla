-------------------------- MODULE RegionSyncProofs --------------------------
(***************************************************************************)
(* Proofs about RegionSync, for any regions, services, payloads, bounds    *)
(* and capacity, in four parts:                                            *)
(*   - its variables keep their types (TypeCorrect);                       *)
(*   - IInv is inductive: the entries a tracker merged and kept in step    *)
(*     are true states of their regions (TableExact), and nothing in its   *)
(*     table points to a region it does not know (NoOrphans);              *)
(*   - RegionSync implements RouteTable: each step maps to a step of the   *)
(*     route table or to none.  That a region leaves with everything it    *)
(*     has rests on NoOrphans in the state the step reaches, that is on    *)
(*     IInv;                                                               *)
(*   - the factories are never more than the capacity and never work for a *)
(*     known region (FactoriesSound).  The regions need not be finitely    *)
(*     many: those that are synced are, since factories are started one at *)
(*     a time.                                                             *)
(***************************************************************************)
EXTENDS RegionSyncRoutes, OperatorLemmas

USE ConstantsAssumption

-----------------------------------------------------------------------------
(* Type correctness.                                                       *)

LEMMA InitType == Init => TypeOK
BY DEF Init, TypeOK, Items, Stages, Snapshots, NoSnapshot, Snapshot

(* A history with one more state is a history, and says the same of the    *)
(* states it had.                                                          *)
LEMMA HistWritten ==
  ASSUME NEW A, NEW B, NEW C, NEW D, NEW H \in [A -> [B -> [C -> D]]],
         NEW a \in A, NEW b \in B, NEW c \in C, NEW d \in D
  PROVE  /\ [H EXCEPT ![a][b][c] = d] \in [A -> [B -> [C -> D]]]
         /\ [H EXCEPT ![a][b][c] = d][a][b][c] = d
         /\ \A x \in A, y \in B, z \in C :
              ~ (x = a /\ y = b /\ z = c) =>
                [H EXCEPT ![a][b][c] = d][x][y][z] = H[x][y][z]
<1> DEFINE row == [H[a][b] EXCEPT ![c] = d]
           plane == [H[a] EXCEPT ![b] = row]
           G == [H EXCEPT ![a] = plane]
<1>1. row \in [C -> D] /\ \A z \in C : row[z] = IF z = c THEN d ELSE H[a][b][z]
  OBVIOUS
<1>2. /\ plane \in [B -> [C -> D]]
      /\ \A y \in B : plane[y] = IF y = b THEN row ELSE H[a][y]
  <2> HIDE DEF row
  <2> QED BY <1>1
<1>3. /\ G \in [A -> [B -> [C -> D]]]
      /\ \A x \in A : G[x] = IF x = a THEN plane ELSE H[x]
  <2> HIDE DEF plane
  <2> QED BY <1>2
<1>4. [H EXCEPT ![a][b][c] = d] = G
  OBVIOUS
<1> HIDE DEF row, plane, G
<1> QED BY <1>1, <1>2, <1>3, <1>4

LEMMA Recorded ==
  ASSUME TypeOK, NEW r \in Regions, NEW i \in 0..MaxInc, NEW v \in 0..MaxVersion,
         NEW c \in SUBSET Items, hist' = [hist EXCEPT ![r][i][v] = c]
  PROVE  /\ hist' \in [Regions -> [0..MaxInc -> [0..MaxVersion -> SUBSET Items]]]
         /\ \A q \in Regions, j \in 0..MaxInc, w \in 0..MaxVersion :
              ~ (q = r /\ j = i /\ w = v) => hist'[q][j][w] = hist[q][j][w]
<1>1. hist \in [Regions -> [0..MaxInc -> [0..MaxVersion -> SUBSET Items]]]
  BY DEF TypeOK
<1> QED BY <1>1, HistWritten

LEMMA RecordedThere ==
  ASSUME TypeOK, NEW r \in Regions, NEW i \in 0..MaxInc, NEW v \in 0..MaxVersion,
         NEW c, hist' = [hist EXCEPT ![r][i][v] = c]
  PROVE  hist'[r][i][v] = c
<1>1. hist \in [Regions -> [0..MaxInc -> [0..MaxVersion -> SUBSET Items]]]
  BY DEF TypeOK
<1>2. hist[r][i] \in [0..MaxVersion -> SUBSET Items]
  BY <1>1
<1> QED BY <1>1, <1>2, Zenon

(* What is published is a message.                                         *)
LEMMA PublishType ==
  ASSUME TypeOK, NEW r \in Regions, NEW m \in Messages, Publish(r, m)
  PROVE  /\ chan' \in [Regions -> Seq(Messages)]
         /\ losses' \in 0..MaxLoss
<1>1. chan \in [Regions -> Seq(Messages)] /\ losses \in 0..MaxLoss
  BY DEF TypeOK
<1>2. chan[r] \in Seq(Messages) /\ Append(chan[r], m) \in Seq(Messages)
  BY <1>1
<1>3. CASE chan' = [chan EXCEPT ![r] = Append(@, m)] /\ UNCHANGED losses
  BY <1>1, <1>2, <1>3
<1>4. CASE losses < MaxLoss /\ losses' = losses + 1 /\ UNCHANGED chan
  BY <1>1, <1>4
<1> QED BY <1>3, <1>4 DEF Publish

LEMMA RegionStepType ==
  ASSUME TypeOK, NEW r \in Regions, RegionStep(r)
  PROVE  TypeOK'
<1> USE DEF TypeOK, Items
<1>1. CASE StartRegion(r)
  <2> DEFINE m == Message("region", 0, NoItem, inc[r] + 1, FALSE)
  <2>1. inc[r] + 1 \in 0..MaxInc
    BY <1>1 DEF StartRegion
  <2>2. m \in Messages
    BY <2>1 DEF Messages, MessagesOf, Message
  <2>3. chan' \in [Regions -> Seq(Messages)] /\ losses' \in 0..MaxLoss
    BY <1>1, <2>2, PublishType DEF StartRegion
  <2>4. 0 \in 0..MaxVersion /\ {} \in SUBSET Items
    OBVIOUS
  <2>5. hist' = [hist EXCEPT ![r][inc[r] + 1][0] = {}]
    BY <1>1 DEF StartRegion
  <2>6. hist' \in [Regions -> [0..MaxInc -> [0..MaxVersion -> SUBSET Items]]]
    <3> HIDE DEF TypeOK, Items
    <3> QED BY <2>1, <2>4, <2>5, Recorded
  <2>7. /\ alive' \subseteq Regions
        /\ inc' \in [Regions -> 0..MaxInc]
        /\ version' \in [Regions -> 0..MaxVersion]
    BY <1>1, <2>1, <2>4 DEF StartRegion
  <2>8. content' \in [Regions -> SUBSET Items]
    BY <1>1, <2>4 DEF StartRegion
  <2>9. UNCHANGED <<tableVars, factoryVars>>
    BY <1>1 DEF StartRegion
  <2> QED BY <2>3, <2>6, <2>7, <2>8, <2>9 DEF tableVars, factoryVars
<1>2. ASSUME NEW kind, NEW item, NEW c \in SUBSET Items,
             version[r] < MaxVersion => Message(kind, version[r] + 1, item, inc[r], TRUE) \in Messages,
             Change(r, kind, item, c)
      PROVE  TypeOK'
  <2>1. version[r] + 1 \in 0..MaxVersion
    BY <1>2 DEF Change
  <2>2. chan' \in [Regions -> Seq(Messages)] /\ losses' \in 0..MaxLoss
    BY <1>2, PublishType DEF Change
  <2>3. hist' \in [Regions -> [0..MaxInc -> [0..MaxVersion -> SUBSET Items]]]
    <3>1. hist' = [hist EXCEPT ![r][inc[r]][version[r] + 1] = c]
      BY <1>2 DEF Change
    <3>2. inc[r] \in 0..MaxInc
      OBVIOUS
    <3> HIDE DEF TypeOK, Items
    <3> QED BY <1>2, <2>1, <3>1, <3>2, Recorded
  <2> QED BY <1>2, <2>1, <2>2, <2>3 DEF Change, tableVars, factoryVars
<1>3. ASSUME NEW s \in Services, AddService(r, s) \/ RmService(r, s)
      PROVE  TypeOK'
  <2>1. version[r] < MaxVersion =>
          /\ Message("service", version[r] + 1, s, inc[r], TRUE) \in Messages
          /\ Message("rmservice", version[r] + 1, s, inc[r], TRUE) \in Messages
    BY DEF Messages, MessagesOf, Message
  <2>2. content[r] \cup {s} \in SUBSET Items /\ content[r] \ {s} \in SUBSET Items
    OBVIOUS
  <2> HIDE DEF TypeOK, Items
  <2>3. CASE AddService(r, s)
    BY <1>2, <2>1, <2>2, <2>3 DEF AddService
  <2>4. CASE RmService(r, s)
    BY <1>2, <2>1, <2>2, <2>4 DEF RmService
  <2> QED BY <1>3, <2>3, <2>4 
<1>4. ASSUME NEW p \in Payloads, AddPayload(r, p) \/ RmPayload(r, p)
      PROVE  TypeOK'
  <2>1. version[r] < MaxVersion =>
          /\ Message("payload", version[r] + 1, p, inc[r], TRUE) \in Messages
          /\ Message("rmpayload", version[r] + 1, p, inc[r], TRUE) \in Messages
    BY DEF Messages, MessagesOf, Message
  <2>2. content[r] \cup {p} \in SUBSET Items /\ content[r] \ {p} \in SUBSET Items
    OBVIOUS
  <2> HIDE DEF TypeOK, Items
  <2>3. CASE AddPayload(r, p)
    BY <1>2, <2>1, <2>2, <2>3 DEF AddPayload
  <2>4. CASE RmPayload(r, p)
    BY <1>2, <2>1, <2>2, <2>4 DEF RmPayload
  <2> QED BY <1>4, <2>3, <2>4
<1>5. ASSUME NEW kind, NEW item,
             Message(kind, version[r], item, inc[r], FALSE) \in Messages,
             Repeat(r, kind, item)
      PROVE  TypeOK'
  <2>1. chan' \in [Regions -> Seq(Messages)] /\ losses' \in 0..MaxLoss
    BY <1>5, PublishType DEF Repeat
  <2> QED BY <1>5, <2>1 DEF Repeat, regionVars, tableVars, factoryVars
<1>6. CASE PubRegion(r)
  BY <1>5, <1>6 DEF PubRegion, Messages, MessagesOf, Message
<1>7. CASE PubRepeated(r)
  BY <1>5, <1>7 DEF PubRepeated, Messages, MessagesOf, Message
<1>8. CASE StopRegion(r)
  <2>1. Message("rmregion", 0, NoItem, inc[r], FALSE) \in Messages
    BY DEF Messages, MessagesOf, Message
  <2>2. chan' \in [Regions -> Seq(Messages)] /\ losses' \in 0..MaxLoss
    BY <1>8, <2>1, PublishType DEF StopRegion
  <2> QED BY <1>8, <2>2 DEF StopRegion, tableVars, factoryVars
<1>9. CASE CrashRegion(r)
  BY <1>9 DEF CrashRegion, tableVars, factoryVars
<1> QED BY <1>1, <1>3, <1>4, <1>6, <1>7, <1>8, <1>9 DEF RegionStep

(* What is received is the head of the channel, and a message.             *)
LEMMA ReceiveType ==
  ASSUME TypeOK, NEW r \in Regions, NEW kind, Receive(r, kind)
  PROVE  /\ Head(chan[r]) \in Messages
         /\ Head(chan[r]).kind = kind
         /\ chan[r] \in Seq(Messages) /\ chan[r] # <<>>
         /\ chan' = [chan EXCEPT ![r] = Tail(@)]
         /\ chan' \in [Regions -> Seq(Messages)]
         /\ UNCHANGED <<alive, inc, version, content, hist, losses>>
BY DEF TypeOK, Receive, regionVars

LEMMA MessageFields ==
  ASSUME NEW m \in Messages
  PROVE  /\ m.ver \in 0..MaxVersion /\ m.inc \in 0..MaxInc /\ m.fresh \in BOOLEAN
         /\ m.kind \in {"service", "rmservice"} => m.item \in Services
         /\ m.kind \in {"payload", "rmpayload"} => m.item \in Payloads
         /\ m.kind \in AddKinds \cup RmKinds => m.item \in Items
BY DEF Messages, MessagesOf, AddKinds, RmKinds, Items

LEMMA TrackType ==
  ASSUME TypeOK, NEW r \in Regions, NEW m \in Messages, Track(r, m)
  PROVE  /\ tver' \in [Regions -> 0..MaxVersion]
         /\ tinc' \in [Regions -> 0..MaxInc]
         /\ synced' \in [Regions -> BOOLEAN]
<1>1. m.ver \in 0..MaxVersion /\ m.inc \in 0..MaxInc
  BY MessageFields
<1> DEFINE b == synced[r] /\ m.inc = tinc[r] /\ (m.ver = tver[r] \/ (m.fresh /\ m.ver = tver[r] + 1))
<1>2. b \in BOOLEAN
  OBVIOUS
<1>3. synced' = [synced EXCEPT ![r] = b]
  BY DEF Track
<1> HIDE DEF b
<1> QED BY <1>1, <1>2, <1>3 DEF TypeOK, Track

LEMMA EndFactoryType ==
  ASSUME TypeOK, NEW r \in Regions, EndFactory(r)
  PROVE  /\ factory' \in [Regions -> Stages]
         /\ snap' \in [Regions -> Snapshots]
         /\ updates' \in [Regions -> Seq(Messages)]
BY DEF TypeOK, EndFactory, Stages, Snapshots, NoSnapshot, Snapshot

LEMMA ForgetType ==
  ASSUME TypeOK, NEW R, Forget(R)
  PROVE  /\ known' \subseteq Regions \cup {EmptyId}
         /\ tver' \in [Regions -> 0..MaxVersion]
         /\ tsvc' \in [Regions -> SUBSET Services]
         /\ owner' \in [Payloads -> Regions \cup {NoRegion}]
         /\ tinc' \in [Regions -> 0..MaxInc]
         /\ synced' \in [Regions -> BOOLEAN]
<1>1. known' \subseteq Regions \cup {EmptyId}
  BY DEF TypeOK, Forget
<1>2. tver' \in [Regions -> 0..MaxVersion] /\ tinc' \in [Regions -> 0..MaxInc]
  BY DEF TypeOK, Forget
<1>3. tsvc' \in [Regions -> SUBSET Services]
  BY DEF TypeOK, Forget
<1>4. owner' \in [Payloads -> Regions \cup {NoRegion}]
  BY DEF TypeOK, Forget
<1>5. synced' \in [Regions -> BOOLEAN]
  BY DEF TypeOK, Forget
<1> QED BY <1>1, <1>2, <1>3, <1>4, <1>5

LEMMA CacheType ==
  ASSUME TypeOK, NEW r \in Regions, NEW m \in Messages, Cache(r, m)
  PROVE  /\ factory' \in [Regions -> Stages]
         /\ snap' \in [Regions -> Snapshots]
         /\ updates' \in [Regions -> Seq(Messages)]
<1>1. updates \in [Regions -> Seq(Messages)]
  BY DEF TypeOK
<1>2. Append(updates[r], m) \in Seq(Messages)
  BY <1>1
<1>3. updates' \in [Regions -> Seq(Messages)]
  BY <1>1, <1>2 DEF Cache
<1> QED BY <1>3 DEF TypeOK, Cache

LEMMA PassOnType ==
  ASSUME TypeOK, NEW r \in Regions, NEW m \in Messages, PassOn(r, m)
  PROVE  /\ factory' \in [Regions -> Stages]
         /\ snap' \in [Regions -> Snapshots]
         /\ updates' \in [Regions -> Seq(Messages)]
BY CacheType DEF TypeOK, PassOn, factoryVars

LEMMA DeliverType ==
  ASSUME TypeOK, NEW r \in Regions, Deliver(r)
  PROVE  TypeOK'
<1> DEFINE m == Head(chan[r])
<1>1. ASSUME NEW kind, Receive(r, kind)
      PROVE  /\ m \in Messages /\ m.kind = kind
             /\ chan' \in [Regions -> Seq(Messages)]
             /\ UNCHANGED <<alive, inc, version, content, hist, losses>>
  BY <1>1, ReceiveType
<1>2. CASE RecvRegion(r)
  <2>1. m \in Messages
        /\ chan' \in [Regions -> Seq(Messages)]
        /\ UNCHANGED <<alive, inc, version, content, hist, losses>>
    BY <1>1, <1>2 DEF RecvRegion
  <2> HIDE DEF m
  <2>2. CASE Track(r, m) /\ UNCHANGED <<known, tsvc, owner, factoryVars>>
    BY <2>1, <2>2, TrackType DEF TypeOK, factoryVars
  <2>3. CASE Cache(r, m) /\ UNCHANGED tableVars
    BY <2>1, <2>3, CacheType DEF TypeOK, tableVars
  <2>4. CASE StartFactory(r, m) /\ UNCHANGED tableVars
    <3>1. <<m>> \in Seq(Messages)
      BY <2>1
    <3>2. updates' \in [Regions -> Seq(Messages)]
      BY <2>4, <3>1 DEF TypeOK, StartFactory
    <3> QED BY <2>1, <2>4, <3>2 DEF TypeOK, tableVars, Stages, StartFactory
  <2>5. CASE UNCHANGED <<tableVars, factoryVars>>
    BY <2>1, <2>5 DEF TypeOK, tableVars, factoryVars
  <2> QED BY <1>2, <2>2, <2>3, <2>4, <2>5 DEF RecvRegion, SyncRegion, m
<1>3. CASE RecvRmRegion(r)
  <2>1. chan' \in [Regions -> Seq(Messages)]
        /\ UNCHANGED <<alive, inc, version, content, hist, losses>>
    BY <1>1, <1>3 DEF RecvRmRegion
  <2>2. CASE Forget({r}) /\ UNCHANGED factoryVars
    BY <2>1, <2>2, ForgetType DEF TypeOK, factoryVars
  <2>3. CASE EndFactory(r) /\ UNCHANGED tableVars
    BY <2>1, <2>3, EndFactoryType DEF TypeOK, tableVars
  <2> QED BY <1>3, <2>2, <2>3 DEF RecvRmRegion
<1>4. CASE RecvService(r) \/ RecvRmService(r)
  <2>1. m \in Messages /\ m.item \in Services
        /\ chan' \in [Regions -> Seq(Messages)]
        /\ UNCHANGED <<alive, inc, version, content, hist, losses>>
    BY <1>1, <1>4, MessageFields DEF RecvService, RecvRmService
  <2> HIDE DEF m
  <2>2. CASE /\ \/ tsvc' = [tsvc EXCEPT ![r] = @ \cup {m.item}]
                \/ tsvc' = [tsvc EXCEPT ![r] = @ \ {m.item}]
             /\ Track(r, m)
             /\ UNCHANGED <<known, owner, factoryVars>>
    <3>1. tsvc[r] \cup {m.item} \in SUBSET Services /\ tsvc[r] \ {m.item} \in SUBSET Services
      BY <2>1 DEF TypeOK
    <3>2. tsvc \in [Regions -> SUBSET Services]
      BY DEF TypeOK
    <3>3. \A c \in SUBSET Services : [tsvc EXCEPT ![r] = c] \in [Regions -> SUBSET Services]
      BY <3>2
    <3>4. tsvc' \in [Regions -> SUBSET Services]
      BY <2>2, <3>1, <3>3
    <3> QED BY <2>1, <2>2, <3>4, TrackType DEF TypeOK, factoryVars
  <2>3. CASE PassOn(r, m) /\ UNCHANGED tableVars
    BY <2>1, <2>3, PassOnType DEF TypeOK, tableVars
  <2> QED BY <1>4, <2>2, <2>3 DEF RecvService, RecvRmService, m
<1>5. CASE RecvPayload(r) \/ RecvRmPayload(r)
  <2>1. m \in Messages /\ m.item \in Payloads
        /\ chan' \in [Regions -> Seq(Messages)]
        /\ UNCHANGED <<alive, inc, version, content, hist, losses>>
    BY <1>1, <1>5, MessageFields DEF RecvPayload, RecvRmPayload
  <2> HIDE DEF m
  <2>2. CASE /\ \/ owner' = [owner EXCEPT ![m.item] = r]
                \/ owner' = [owner EXCEPT ![m.item] = IF @ = r THEN NoRegion ELSE @]
             /\ Track(r, m)
             /\ UNCHANGED <<known, tsvc, factoryVars>>
    <3>1. owner' \in [Payloads -> Regions \cup {NoRegion}]
      BY <2>1, <2>2 DEF TypeOK
    <3> QED BY <2>1, <2>2, <3>1, TrackType DEF TypeOK, factoryVars
  <2>3. CASE PassOn(r, m) /\ UNCHANGED tableVars
    BY <2>1, <2>3, PassOnType DEF TypeOK, tableVars
  <2> QED BY <1>5, <2>2, <2>3 DEF RecvPayload, RecvRmPayload, m
<1> QED BY <1>2, <1>3, <1>4, <1>5 DEF Deliver

(* What the replay makes of a snapshot is a content.                       *)
LEMMA ReplayedType ==
  ASSUME NEW c \in SUBSET Items, NEW u \in Seq(Messages), NEW i \in 1..Len(u)
  PROVE  Replayed(c, u, i, Len(u)) \subseteq Items
<1>1. SUFFICES ASSUME NEW x \in Replayed(c, u, i, Len(u)) PROVE x \in Items
  OBVIOUS
<1>2. CASE x \in c
  BY <1>2
<1>3. CASE \E k \in (i+1)..Len(u) : Adds(u[k], x)
  <2>1. PICK k \in (i+1)..Len(u) : Adds(u[k], x)
    BY <1>3
  <2>2. u[k] \in Messages
    BY <2>1
  <2> QED BY <2>1, <2>2, MessageFields DEF Adds
<1> QED BY <1>2, <1>3, ReplayOrigin

(* The version merge() computes is the one of the last cached update, or   *)
(* the snapshot's.                                                         *)
LEMMA MergedVersion ==
  ASSUME NEW u \in Seq(Messages), NEW v \in 0..MaxVersion, NEW i \in 1..Len(u),
         Consecutive(u, v, i)
  PROVE  v + (Len(u) - i) \in 0..MaxVersion
<1>1. CASE i = Len(u)
  BY <1>1
<1>2. CASE i < Len(u)
  <2>1. Len(u) \in (i+1)..Len(u)
    BY <1>2
  <2>2. u[Len(u)].ver = v + (Len(u) - i)
    BY <2>1 DEF Consecutive
  <2>3. u[Len(u)] \in Messages
    BY <2>1
  <2> QED BY <2>2, <2>3, MessageFields
<1> QED BY <1>1, <1>2

LEMMA MergeType ==
  ASSUME TypeOK, NEW r \in Regions, NEW i \in 1..Len(updates[r]),
         Consecutive(updates[r], snap[r].ver, i), Merge(r, i)
  PROVE  /\ known' \subseteq Regions \cup {EmptyId}
         /\ tver' \in [Regions -> 0..MaxVersion]
         /\ tsvc' \in [Regions -> SUBSET Services]
         /\ owner' \in [Payloads -> Regions \cup {NoRegion}]
         /\ tinc' \in [Regions -> 0..MaxInc]
         /\ synced' \in [Regions -> BOOLEAN]
<1> DEFINE u == updates[r]
           product == Replayed(snap[r].content, u, i, Len(u))
           b == \A k \in (i+1)..Len(u) : u[k].fresh /\ u[k].inc = snap[r].inc
<1>1. /\ u \in Seq(Messages)
      /\ snap[r].ver \in 0..MaxVersion /\ snap[r].inc \in 0..MaxInc
      /\ snap[r].content \in SUBSET Items
  BY DEF TypeOK, Snapshots
<1>2. snap[r].ver + (Len(u) - i) \in 0..MaxVersion
  BY <1>1, MergedVersion
<1>3. tver' = [tver EXCEPT ![r] = snap[r].ver + (Len(u) - i)]
  BY DEF Merge
<1>4. tsvc' = [tsvc EXCEPT ![r] = @ \cup (product \cap Services)]
  BY DEF Merge
<1>5. owner' = [p \in Payloads |-> IF p \in product THEN r ELSE owner[p]]
  BY DEF Merge
<1>6. synced' = [synced EXCEPT ![r] = b]
  BY DEF Merge
<1>7. b \in BOOLEAN
  OBVIOUS
<1>8. known' = known \cup {r} /\ tinc' = [tinc EXCEPT ![r] = snap[r].inc]
  BY DEF Merge
<1> HIDE DEF b, product, u
<1>9. tsvc[r] \cup (product \cap Services) \in SUBSET Services
  BY DEF TypeOK
<1>10. tver' \in [Regions -> 0..MaxVersion] /\ tinc' \in [Regions -> 0..MaxInc]
  BY <1>1, <1>2, <1>3, <1>8 DEF TypeOK
<1>11. tsvc' \in [Regions -> SUBSET Services]
  BY <1>4, <1>9 DEF TypeOK
<1>12. owner' \in [Payloads -> Regions \cup {NoRegion}]
  BY <1>5 DEF TypeOK
<1>13. synced' \in [Regions -> BOOLEAN]
  BY <1>6, <1>7 DEF TypeOK
<1>14. known' \subseteq Regions \cup {EmptyId}
  BY <1>8 DEF TypeOK
<1> QED BY <1>10, <1>11, <1>12, <1>13, <1>14

LEMMA FactoryStepType ==
  ASSUME TypeOK, NEW r \in Regions, FactoryStep(r)
  PROVE  TypeOK'
<1>1. CASE BuildSnapshot(r)
  <2>1. Snapshot(version[r], content[r], inc[r]) \in Snapshots
    BY DEF TypeOK, Snapshot, Snapshots
  <2>2. factory' \in [Regions -> Stages] /\ snap' \in [Regions -> Snapshots]
    BY <1>1, <2>1 DEF BuildSnapshot, TypeOK, Stages
  <2> QED BY <1>1, <2>2 DEF BuildSnapshot, TypeOK, regionVars, tableVars
<1>2. CASE SnapshotDone(r)
  <2>1. /\ UNCHANGED <<alive, inc, version, content, hist, chan, losses>>
        /\ factory' \in [Regions -> Stages]
        /\ snap' \in [Regions -> Snapshots]
        /\ updates' \in [Regions -> Seq(Messages)]
    BY <1>2, EndFactoryType DEF SnapshotDone, regionVars
  <2>2. CASE UNCHANGED tableVars
    BY <2>1, <2>2 DEF TypeOK, tableVars
  <2>3. CASE \E i \in 1..Len(updates[r]) :
               Consecutive(updates[r], snap[r].ver, i) /\ Merge(r, i)
    BY <2>1, <2>3, MergeType DEF TypeOK
  <2> QED BY <1>2, <2>2, <2>3 DEF SnapshotDone
<1>3. CASE SnapshotFailed(r)
  BY <1>3, EndFactoryType DEF SnapshotFailed, TypeOK, regionVars, tableVars
<1>4. CASE SnapshotNotStarted(r)
  BY <1>4, EndFactoryType DEF SnapshotNotStarted, TypeOK, regionVars
<1> QED BY <1>1, <1>2, <1>3, <1>4 DEF FactoryStep

LEMMA CheckTimerType == TypeOK /\ CheckTimer => TypeOK'
<1>1. SUFFICES ASSUME TypeOK, NEW gone, NEW Q, NEW P, Expire(gone, Q, P)
               PROVE  TypeOK'
  BY DEF CheckTimer
<1>2. known' \subseteq Regions \cup {EmptyId}
  BY <1>1 DEF TypeOK, Expire
<1>3. tver' \in [Regions -> 0..MaxVersion] /\ tinc' \in [Regions -> 0..MaxInc]
  BY <1>1 DEF TypeOK, Expire
<1>4. tsvc' \in [Regions -> SUBSET Services]
  BY <1>1 DEF TypeOK, Expire
<1>5. owner' \in [Payloads -> Regions \cup {NoRegion}]
  BY <1>1 DEF TypeOK, Expire
<1>6. synced' \in [Regions -> BOOLEAN]
  BY <1>1 DEF TypeOK, Expire
<1>7. UNCHANGED <<alive, inc, version, content, hist, chan, losses, factory, snap, updates>>
  BY <1>1 DEF Expire, regionVars, factoryVars
<1> QED BY <1>1, <1>2, <1>3, <1>4, <1>5, <1>6, <1>7 DEF TypeOK

LEMMA RestartTrackerType == TypeOK /\ RestartTracker => TypeOK'
<1>1. SUFFICES ASSUME TypeOK, RestartTracker PROVE TypeOK'
  OBVIOUS
<1>2. Forget(Regions \cup {EmptyId}) /\ UNCHANGED <<regionVars, losses>>
  BY <1>1 DEF RestartTracker
<1>3. /\ chan' \in [Regions -> Seq(Messages)]
      /\ updates' \in [Regions -> Seq(Messages)]
      /\ factory' \in [Regions -> Stages]
      /\ snap' \in [Regions -> Snapshots]
  BY <1>1 DEF RestartTracker, Stages, Snapshots, NoSnapshot, Snapshot
<1> QED BY <1>1, <1>2, <1>3, ForgetType DEF TypeOK, regionVars

LEMMA NextType == TypeOK /\ [Next]_vars => TypeOK'
<1>1. CASE UNCHANGED vars
  BY <1>1 DEF TypeOK, vars, regionVars, tableVars, factoryVars
<1> QED BY <1>1, RegionStepType, DeliverType, FactoryStepType, CheckTimerType,
           RestartTrackerType DEF Next

(* Every variable keeps its type, for any regions, items and bounds.       *)
THEOREM TypeCorrect == Spec => []TypeOK
BY InitType, NextType, PTL DEF Spec

-----------------------------------------------------------------------------
(* What a region has been it stays to have been.                           *)
Grows ==
  \A q \in Regions, i \in 0..MaxInc, v \in 0..MaxVersion :
    Past(q, i, v) => Past(q, i, v)' /\ hist'[q][i][v] = hist[q][i][v]

(* Whatever is under way after a step was under way before, or is true.    *)
NothingFalseSent ==
  \A q \in Regions :
    /\ \A k \in 1..Len(chan'[q]) : \E m \in Messages :
         /\ chan'[q][k] = m
         /\ MessageTrue(q, m)' \/ \E j \in 1..Len(chan[q]) : m = chan[q][j]
    /\ \A k \in 1..Len(updates'[q]) : \E m \in Messages :
         /\ updates'[q][k] = m
         /\ \/ \E j \in 1..Len(updates[q]) : m = updates[q][j]
            \/ \E j \in 1..Len(chan[q]) : m = chan[q][j]

-----------------------------------------------------------------------------
(* The history.                                                            *)

LEMMA HistoryKept ==
  ASSUME UNCHANGED <<inc, version, content, hist>>
  PROVE  /\ Grows
         /\ HistoryTrue => HistoryTrue'
BY DEF Grows, Past, HistoryTrue

LEMMA HistoryStarted ==
  ASSUME TypeOK, HistoryTrue, NEW r \in Regions, StartRegion(r)
  PROVE  Grows /\ HistoryTrue'
<1>1. /\ inc[r] \in 0..MaxInc /\ inc[r] + 1 \in 0..MaxInc
      /\ 0 \in 0..MaxVersion /\ {} \in SUBSET Items
  BY DEF StartRegion, TypeOK
<1>2. \A q \in Regions : inc[q] \in 0..MaxInc /\ version[q] \in 0..MaxVersion
  BY DEF TypeOK
<1>3. \A q \in Regions :
        /\ inc'[q] = IF q = r THEN inc[r] + 1 ELSE inc[q]
        /\ version'[q] = IF q = r THEN 0 ELSE version[q]
        /\ content'[q] = IF q = r THEN {} ELSE content[q]
  BY DEF StartRegion, TypeOK
<1> DEFINE i == inc[r] + 1
<1>4. hist' = [hist EXCEPT ![r][i][0] = {}]
  BY DEF StartRegion
<1>5. /\ hist'[r][i][0] = {}
      /\ \A q \in Regions, j \in 0..MaxInc, w \in 0..MaxVersion :
           ~ (q = r /\ j = i /\ w = 0) => hist'[q][j][w] = hist[q][j][w]
  <2>1. i \in 0..MaxInc
    BY <1>1
  <2>2. hist'[r][i][0] = {}
    <3> HIDE DEF i
    <3> QED BY <1>1, <1>4, <2>1, RecordedThere, Zenon
  <2> HIDE DEF i
  <2> QED BY <1>1, <1>4, <2>1, <2>2, Recorded
<1>6. Grows
  BY <1>1, <1>2, <1>3, <1>5 DEF Grows, Past
<1>7. \A q \in Regions : hist'[q][inc'[q]][version'[q]] = content'[q]
  <2>1. inc'[r] = i /\ version'[r] = 0 /\ content'[r] = {}
    BY <1>3
  <2>2. \A q \in Regions \ {r} :
          inc'[q] = inc[q] /\ version'[q] = version[q] /\ content'[q] = content[q]
    BY <1>3
  <2> HIDE DEF i
  <2>3. hist'[r][inc'[r]][version'[r]] = content'[r]
    BY <1>5, <2>1
  <2>4. ASSUME NEW q \in Regions \ {r}
        PROVE  hist'[q][inc'[q]][version'[q]] = content'[q]
    BY <1>2, <1>5, <2>2 DEF HistoryTrue
  <2> QED BY <2>3, <2>4
<1>8. \A q \in Regions, j \in 0..MaxInc, w \in 0..MaxVersion :
        ~ Past(q, j, w)' => hist'[q][j][w] = {}
  BY <1>5, <1>6 DEF HistoryTrue, Grows
<1> QED BY <1>6, <1>7, <1>8 DEF HistoryTrue

LEMMA HistoryChanged ==
  ASSUME TypeOK, HistoryTrue, NEW r \in Regions, NEW kind, NEW item,
         NEW c \in SUBSET Items, Change(r, kind, item, c)
  PROVE  /\ Grows /\ HistoryTrue'
         /\ inc'[r] = inc[r] /\ version'[r] = version[r] + 1
         /\ hist'[r][inc[r]][version[r]] = content[r]
         /\ hist'[r][inc[r]][version[r] + 1] = c
<1>1. inc[r] \in 0..MaxInc /\ version[r] + 1 \in 0..MaxVersion
  BY DEF Change, TypeOK
<1>2. \A q \in Regions : inc[q] \in 0..MaxInc /\ version[q] \in 0..MaxVersion
  BY DEF TypeOK
<1>3. \A q \in Regions :
        /\ inc'[q] = inc[q]
        /\ version'[q] = IF q = r THEN version[r] + 1 ELSE version[q]
        /\ content'[q] = IF q = r THEN c ELSE content[q]
  BY DEF Change, TypeOK
<1> DEFINE i == inc[r]
           v == version[r] + 1
<1>4. hist' = [hist EXCEPT ![r][i][v] = c]
  BY DEF Change
<1>5. /\ hist'[r][i][v] = c
      /\ \A q \in Regions, j \in 0..MaxInc, w \in 0..MaxVersion :
           ~ (q = r /\ j = i /\ w = v) => hist'[q][j][w] = hist[q][j][w]
  <2>1. i \in 0..MaxInc /\ v \in 0..MaxVersion
    BY <1>1
  <2>2. hist'[r][i][v] = c
    <3> HIDE DEF i, v
    <3> QED BY <1>4, <2>1, RecordedThere, Zenon
  <2> HIDE DEF i, v
  <2> QED BY <1>4, <2>1, <2>2, Recorded
<1>6. Grows
  BY <1>1, <1>2, <1>3, <1>5 DEF Grows, Past
<1>7. \A q \in Regions : hist'[q][inc'[q]][version'[q]] = content'[q]
  BY <1>1, <1>2, <1>3, <1>5 DEF HistoryTrue
<1>8. \A j \in 0..MaxInc, w \in 0..MaxVersion : j = i /\ w = v => Past(r, j, w)'
  BY <1>1, <1>3 DEF Past
<1>9. \A q \in Regions, j \in 0..MaxInc, w \in 0..MaxVersion :
        ~ Past(q, j, w)' => hist'[q][j][w] = {}
  <2> HIDE DEF i, v
  <2> QED BY <1>5, <1>6, <1>8 DEF HistoryTrue, Grows
<1>10. hist'[r][inc[r]][version[r]] = content[r]
  BY <1>1, <1>2, <1>5 DEF HistoryTrue
<1>11. hist'[r][inc[r]][version[r] + 1] = c
  BY <1>1, <1>5
<1> QED BY <1>3, <1>6, <1>7, <1>9, <1>10, <1>11 DEF HistoryTrue

(* What is true of the past stays true.                                    *)
LEMMA TruthKept ==
  ASSUME TypeOK, Grows, NEW q \in Regions, NEW m \in Messages, MessageTrue(q, m)
  PROVE  MessageTrue(q, m)'
<1>1. m.ver \in 0..MaxVersion /\ m.inc \in 0..MaxInc /\ m.fresh \in BOOLEAN
  BY MessageFields
<1>2. Past(q, m.inc, m.ver)' /\ hist'[q][m.inc][m.ver] = hist[q][m.inc][m.ver]
  BY <1>1 DEF Grows, MessageTrue
<1>3. ASSUME m.fresh PROVE hist'[q][m.inc][m.ver - 1] = hist[q][m.inc][m.ver - 1]
  <2>1. m.ver > 0 /\ m.ver - 1 \in 0..MaxVersion
    BY <1>1, <1>3 DEF MessageTrue
  <2>2. Past(q, m.inc, m.ver - 1)
    <3>1. inc[q] \in 0..MaxInc /\ version[q] \in 0..MaxVersion
      BY DEF TypeOK
    <3> QED BY <1>1, <2>1, <3>1 DEF MessageTrue, Past
  <2> QED BY <1>1, <2>1, <2>2 DEF Grows
<1> QED BY <1>2, <1>3 DEF MessageTrue

LEMMA MessagesKept ==
  ASSUME TypeOK, MessagesTrue, Grows, NothingFalseSent
  PROVE  MessagesTrue'
<1>1. ASSUME NEW q \in Regions
      PROVE  /\ \A m \in Messages :
                   (\E j \in 1..Len(chan[q]) : m = chan[q][j]) => MessageTrue(q, m)'
             /\ \A m \in Messages :
                   (\E j \in 1..Len(updates[q]) : m = updates[q][j]) => MessageTrue(q, m)'
  BY <1>1, TruthKept DEF MessagesTrue
<1>2. ASSUME NEW q \in Regions
      PROVE  /\ \A k \in 1..Len(chan'[q]) : \E m \in Messages :
                   chan'[q][k] = m /\ MessageTrue(q, m)'
             /\ \A k \in 1..Len(updates'[q]) : \E m \in Messages :
                   updates'[q][k] = m /\ MessageTrue(q, m)'
  <2>1. ASSUME NEW k \in 1..Len(chan'[q])
        PROVE  \E m \in Messages : chan'[q][k] = m /\ MessageTrue(q, m)'
    <3>1. PICK m \in Messages :
            /\ chan'[q][k] = m
            /\ MessageTrue(q, m)' \/ \E j \in 1..Len(chan[q]) : m = chan[q][j]
      BY <2>1 DEF NothingFalseSent
    <3>2. MessageTrue(q, m)'
      BY <3>1, <1>1, Zenon
    <3> QED BY <3>1, <3>2
  <2>2. ASSUME NEW k \in 1..Len(updates'[q])
        PROVE  \E m \in Messages : updates'[q][k] = m /\ MessageTrue(q, m)'
    <3>1. PICK m \in Messages :
            /\ updates'[q][k] = m
            /\ \/ \E j \in 1..Len(updates[q]) : m = updates[q][j]
               \/ \E j \in 1..Len(chan[q]) : m = chan[q][j]
      BY <2>2 DEF NothingFalseSent
    <3>2. MessageTrue(q, m)'
      BY <3>1, <1>1, Zenon
    <3> QED BY <3>1, <3>2
  <2> QED BY <2>1, <2>2
<1>3. ASSUME NEW q \in Regions, NEW k \in 1..Len(chan'[q])
      PROVE  MessageTrue(q, chan[q][k])'
  <2>1. PICK m \in Messages : chan'[q][k] = m /\ MessageTrue(q, m)'
    BY <1>2, <1>3
  <2> QED BY <2>1 DEF MessageTrue
<1>4. ASSUME NEW q \in Regions, NEW k \in 1..Len(updates'[q])
      PROVE  MessageTrue(q, updates[q][k])'
  <2>1. PICK m \in Messages : updates'[q][k] = m /\ MessageTrue(q, m)'
    BY <1>2, <1>4
  <2> QED BY <2>1 DEF MessageTrue
<1> QED BY <1>3, <1>4 DEF MessagesTrue

LEMMA MessagesUnchanged ==
  ASSUME TypeOK, MessagesTrue, Grows, UNCHANGED <<chan, updates>>
  PROVE  MessagesTrue'
<1>1. \A q \in Regions : chan[q] \in Seq(Messages) /\ updates[q] \in Seq(Messages)
  BY DEF TypeOK
<1>2. ASSUME NEW q \in Regions
      PROVE  /\ \A k \in 1..Len(chan[q]) : chan[q][k] \in Messages
             /\ \A k \in 1..Len(updates[q]) : updates[q][k] \in Messages
             /\ chan'[q] = chan[q] /\ updates'[q] = updates[q]
  BY <1>1, <1>2
<1>3. NothingFalseSent
  BY <1>2 DEF NothingFalseSent
<1> QED BY <1>3, MessagesKept

(* A claim of another region, once made, is not taken back.                *)
LEMMA ClaimsKept ==
  ASSUME HistoryTrue, Grows, NEW q \in Regions, NEW p, Exclusive(q, p)'
  PROVE  Exclusive(q, p)
BY DEF HistoryTrue, Grows, Exclusive

-----------------------------------------------------------------------------
(* The steps of a region.                                                  *)

LEMMA PublishedTrue ==
  ASSUME TypeOK, MessagesTrue, Grows, NEW r \in Regions, NEW m \in Messages,
         Publish(r, m), MessageTrue(r, m)', UNCHANGED updates
  PROVE  MessagesTrue'
<1>1. /\ chan \in [Regions -> Seq(Messages)]
      /\ \A q \in Regions : chan[q] \in Seq(Messages) /\ updates[q] \in Seq(Messages)
  BY DEF TypeOK
<1>2. \A q \in Regions : chan'[q] = chan[q] \/ (q = r /\ chan'[q] = Append(chan[q], m))
  BY <1>1 DEF Publish
<1>3. ASSUME NEW q \in Regions, NEW k \in 1..Len(chan'[q])
      PROVE  \E x \in Messages :
               /\ chan'[q][k] = x
               /\ MessageTrue(q, x)' \/ \E j \in 1..Len(chan[q]) : x = chan[q][j]
  <2>1. CASE chan'[q] = chan[q]
    <3>1. k \in 1..Len(chan[q]) /\ chan[q][k] \in Messages
      BY <1>1, <1>3, <2>1
    <3> QED BY <2>1, <3>1
  <2>2. CASE q = r /\ chan'[q] = Append(chan[q], m) /\ k = Len(chan[q]) + 1
    <3>1. chan'[q][k] = m
      BY <1>1, <2>2
    <3> QED BY <2>2, <3>1
  <2>3. CASE q = r /\ chan'[q] = Append(chan[q], m) /\ k # Len(chan[q]) + 1
    <3>1. k \in 1..Len(chan[q]) /\ chan[q][k] \in Messages /\ chan'[q][k] = chan[q][k]
      BY <1>1, <1>3, <2>3
    <3> QED BY <3>1
  <2> QED BY <1>2, <2>1, <2>2, <2>3
<1>4. ASSUME NEW q \in Regions, NEW k \in 1..Len(updates'[q])
      PROVE  \E x \in Messages :
               updates'[q][k] = x /\ \E j \in 1..Len(updates[q]) : x = updates[q][j]
  BY <1>1, <1>4
<1>5. NothingFalseSent
  BY <1>3, <1>4 DEF NothingFalseSent
<1> QED BY <1>5, MessagesKept

LEMMA ChangeTrue ==
  ASSUME TypeOK, HistoryTrue, MessagesTrue, NEW r \in Regions, NEW kind, NEW item,
         NEW c \in SUBSET Items, Change(r, kind, item, c),
         version[r] < MaxVersion => Message(kind, version[r] + 1, item, inc[r], TRUE) \in Messages,
         \/ kind \in AddKinds /\ c = content[r] \cup {item}
         \/ kind \in RmKinds /\ c = content[r] \ {item}
  PROVE  Grows /\ HistoryTrue' /\ MessagesTrue'
<1>1. /\ Grows /\ HistoryTrue'
      /\ inc'[r] = inc[r] /\ version'[r] = version[r] + 1
      /\ hist'[r][inc[r]][version[r]] = content[r]
      /\ hist'[r][inc[r]][version[r] + 1] = c
  BY HistoryChanged
<1>2. PICK m \in Messages : m = Message(kind, version[r] + 1, item, inc[r], TRUE)
  BY DEF Change
<1>3. /\ m.kind = kind /\ m.item = item /\ m.inc = inc[r] /\ m.fresh
      /\ m.ver = version[r] + 1 /\ m.ver - 1 = version[r] /\ m.ver > 0
  BY <1>2 DEF Message, TypeOK
<1>4. hist'[r][m.inc][m.ver] = Apply(hist'[r][m.inc][m.ver - 1], m)
  <2>1. hist'[r][m.inc][m.ver] = c /\ hist'[r][m.inc][m.ver - 1] = content[r]
    BY <1>1, <1>3
  <2>2. c = Apply(content[r], m)
    BY <1>3 DEF Apply, AddKinds, RmKinds
  <2> QED BY <2>1, <2>2
<1>5. (m.kind \in AddKinds => m.item \in c) /\ (m.kind \in RmKinds => m.item \notin c)
  BY <1>3 DEF AddKinds, RmKinds
<1>6. Past(r, m.inc, m.ver)'
  BY <1>1, <1>3 DEF Past, TypeOK
<1>7. hist'[r][m.inc][m.ver] = c
  BY <1>1, <1>3
<1>8. MessageTrue(r, m)'
  BY <1>3, <1>4, <1>5, <1>6, <1>7 DEF MessageTrue
<1>9. Publish(r, m) /\ UNCHANGED updates
  BY <1>2 DEF Change, factoryVars
<1> QED BY <1>1, <1>8, <1>9, PublishedTrue

(* A repetition is true of the version the table has now.                  *)
LEMMA RepeatTrue ==
  ASSUME TypeOK, HistoryTrue, MessagesTrue, NEW r \in Regions, NEW kind, NEW item,
         Repeat(r, kind, item), Message(kind, version[r], item, inc[r], FALSE) \in Messages,
         kind \in AddKinds => item \in content[r], kind \notin RmKinds
  PROVE  Grows /\ HistoryTrue' /\ MessagesTrue'
<1>1. Grows /\ HistoryTrue'
  BY HistoryKept DEF Repeat, regionVars
<1>2. PICK m \in Messages : m = Message(kind, version[r], item, inc[r], FALSE)
  OBVIOUS
<1>3. /\ m.kind = kind /\ m.item = item /\ m.inc = inc[r] /\ m.ver = version[r] /\ ~ m.fresh
  BY <1>2 DEF Message
<1>4. hist[r][m.inc][m.ver] = content[r]
  BY <1>3 DEF HistoryTrue
<1>5. Past(r, m.inc, m.ver)
  BY <1>3 DEF Past, TypeOK
<1>6. MessageTrue(r, m)
  BY <1>3, <1>4, <1>5 DEF MessageTrue
<1>7. MessageTrue(r, m)'
  BY <1>1, <1>6, TruthKept
<1>8. Publish(r, m) /\ UNCHANGED updates
  BY <1>2 DEF Repeat, factoryVars
<1> QED BY <1>1, <1>7, <1>8, PublishedTrue

LEMMA RegionStepTrue ==
  ASSUME TypeOK, HistoryTrue, MessagesTrue, NEW r \in Regions, RegionStep(r)
  PROVE  /\ Grows /\ HistoryTrue' /\ MessagesTrue'
         /\ UNCHANGED <<tableVars, factoryVars>>
<1>1. UNCHANGED <<tableVars, factoryVars>>
  BY DEF RegionStep, StartRegion, StopRegion, CrashRegion, AddService, RmService,
         AddPayload, RmPayload, Change, PubRegion, PubRepeated, Repeat
<1>2. CASE StartRegion(r)
  <2>1. Grows /\ HistoryTrue'
    BY <1>2, HistoryStarted
  <2>2. inc[r] + 1 \in 0..MaxInc /\ inc'[r] = inc[r] + 1 /\ version'[r] = 0
    BY <1>2 DEF StartRegion, TypeOK
  <2>3. PICK m \in Messages : m = Message("region", 0, NoItem, inc[r] + 1, FALSE)
    <3>1. Message("region", 0, NoItem, inc[r] + 1, FALSE) \in Messages
      BY <2>2 DEF Messages, MessagesOf, Message
    <3> QED BY <3>1
  <2>4. /\ m.kind = "region" /\ m.inc = inc[r] + 1 /\ m.ver = 0 /\ ~ m.fresh
    BY <2>3 DEF Message
  <2>5. MessageTrue(r, m)'
    <3>1. Past(r, m.inc, m.ver)'
      BY <2>2, <2>4 DEF Past
    <3>2. m.kind \notin AddKinds /\ m.kind \notin RmKinds
      BY <2>4 DEF AddKinds, RmKinds
    <3> QED BY <2>4, <3>1, <3>2 DEF MessageTrue
  <2>6. Publish(r, m) /\ UNCHANGED updates
    BY <1>2, <2>3 DEF StartRegion, factoryVars
  <2> QED BY <1>1, <2>1, <2>5, <2>6, PublishedTrue
<1>3. CASE StopRegion(r)
  <2>1. Grows /\ HistoryTrue'
    BY <1>3, HistoryKept DEF StopRegion
  <2>2. PICK m \in Messages : m = Message("rmregion", 0, NoItem, inc[r], FALSE)
    <3>1. Message("rmregion", 0, NoItem, inc[r], FALSE) \in Messages
      BY DEF Messages, MessagesOf, Message, TypeOK
    <3> QED BY <3>1
  <2>3. /\ m.kind = "rmregion" /\ m.inc = inc[r] /\ m.ver = 0 /\ ~ m.fresh
    BY <2>2 DEF Message
  <2>4. MessageTrue(r, m)
    <3>1. Past(r, m.inc, m.ver)
      BY <2>3 DEF Past, TypeOK
    <3>2. m.kind \notin AddKinds /\ m.kind \notin RmKinds
      BY <2>3 DEF AddKinds, RmKinds
    <3> QED BY <2>3, <3>1, <3>2 DEF MessageTrue
  <2>5. MessageTrue(r, m)'
    BY <2>1, <2>4, TruthKept
  <2>6. Publish(r, m) /\ UNCHANGED updates
    BY <1>3, <2>2 DEF StopRegion, factoryVars
  <2> QED BY <1>1, <2>1, <2>5, <2>6, PublishedTrue
<1>4. CASE CrashRegion(r)
  <2>1. Grows /\ HistoryTrue'
    BY <1>4, HistoryKept DEF CrashRegion
  <2>2. UNCHANGED <<chan, updates, hist, inc, version>>
    BY <1>4 DEF CrashRegion, factoryVars
  <2>3. MessagesTrue'
    BY <2>1, <2>2, MessagesUnchanged
  <2> QED BY <1>1, <2>1, <2>3
<1>5. ASSUME NEW s \in Services, AddService(r, s) \/ RmService(r, s)
      PROVE  Grows /\ HistoryTrue' /\ MessagesTrue'
  <2>1. version[r] < MaxVersion =>
          /\ Message("service", version[r] + 1, s, inc[r], TRUE) \in Messages
          /\ Message("rmservice", version[r] + 1, s, inc[r], TRUE) \in Messages
    BY DEF Messages, MessagesOf, Message, TypeOK
  <2>2. content[r] \cup {s} \in SUBSET Items /\ content[r] \ {s} \in SUBSET Items
    BY DEF TypeOK, Items
  <2>3. CASE AddService(r, s)
    BY <2>1, <2>2, <2>3, ChangeTrue DEF AddService, AddKinds
  <2>4. CASE RmService(r, s)
    BY <2>1, <2>2, <2>4, ChangeTrue DEF RmService, RmKinds
  <2> QED BY <1>5, <2>3, <2>4
<1>6. ASSUME NEW p \in Payloads, AddPayload(r, p) \/ RmPayload(r, p)
      PROVE  Grows /\ HistoryTrue' /\ MessagesTrue'
  <2>1. version[r] < MaxVersion =>
          /\ Message("payload", version[r] + 1, p, inc[r], TRUE) \in Messages
          /\ Message("rmpayload", version[r] + 1, p, inc[r], TRUE) \in Messages
    BY DEF Messages, MessagesOf, Message, TypeOK
  <2>2. content[r] \cup {p} \in SUBSET Items /\ content[r] \ {p} \in SUBSET Items
    BY DEF TypeOK, Items
  <2>3. CASE AddPayload(r, p)
    BY <2>1, <2>2, <2>3, ChangeTrue DEF AddPayload, AddKinds
  <2>4. CASE RmPayload(r, p)
    BY <2>1, <2>2, <2>4, ChangeTrue DEF RmPayload, RmKinds
  <2> QED BY <1>6, <2>3, <2>4
<1>7. CASE PubRegion(r)
  <2>1. Message("region", version[r], NoItem, inc[r], FALSE) \in Messages
    BY DEF Messages, MessagesOf, Message, TypeOK
  <2> QED BY <1>1, <1>7, <2>1, RepeatTrue DEF PubRegion, AddKinds, RmKinds
<1>8. CASE PubRepeated(r)
  <2>1. ASSUME NEW s \in Services \cap content[r], Repeat(r, "service", s)
        PROVE  Grows /\ HistoryTrue' /\ MessagesTrue'
    <3>1. Message("service", version[r], s, inc[r], FALSE) \in Messages
      BY DEF Messages, MessagesOf, Message, TypeOK
    <3> QED BY <2>1, <3>1, RepeatTrue DEF RmKinds
  <2>2. ASSUME NEW p \in Payloads \cap content[r], Repeat(r, "payload", p)
        PROVE  Grows /\ HistoryTrue' /\ MessagesTrue'
    <3>1. Message("payload", version[r], p, inc[r], FALSE) \in Messages
      BY DEF Messages, MessagesOf, Message, TypeOK
    <3> QED BY <2>2, <3>1, RepeatTrue DEF RmKinds
  <2> QED BY <1>1, <1>8, <2>1, <2>2 DEF PubRepeated
<1> QED BY <1>1, <1>2, <1>3, <1>4, <1>5, <1>6, <1>7, <1>8 DEF RegionStep

-----------------------------------------------------------------------------
(* The entries.                                                            *)

(* What TableExact and EntriesPast say of one region.                      *)
EntryTrue(q) ==
  q \in known /\ synced[q] => Past(q, tinc[q], tver[q]) /\ EntryExact(q)

Orphanless(q) == q \notin known => tsvc[q] = {} /\ \A p \in Payloads : owner[p] # q

LEMMA EntriesTrue == TableExact /\ EntriesPast <=> \A q \in Regions : EntryTrue(q)
BY DEF TableExact, EntriesPast, EntryTrue

LEMMA Orphanlesses == NoOrphans <=> \A q \in Regions : Orphanless(q)
BY DEF NoOrphans, Orphanless

(* A step that leaves the entry of q alone, except that it may cease to be *)
(* synced and that a payload others claim may leave it.                    *)
EntryKept(q) ==
  /\ q \in known' => q \in known
  /\ q \in known' /\ synced'[q] =>
       /\ synced[q] /\ tver'[q] = tver[q] /\ tinc'[q] = tinc[q] /\ tsvc'[q] = tsvc[q]
       /\ \A p \in Payloads :
            /\ owner'[p] = q => owner[p] = q
            /\ owner[p] = q => owner'[p] = q \/ ~ Exclusive(q, p)

LEMMA KeptTrue ==
  ASSUME TypeOK, HistoryTrue, Grows, NEW q \in Regions, EntryTrue(q), EntryKept(q)
  PROVE  EntryTrue(q)'
<1>1. SUFFICES ASSUME q \in known', synced'[q]
               PROVE  Past(q, tinc[q], tver[q])' /\ EntryExact(q)'
  BY DEF EntryTrue
<1>2. /\ Past(q, tinc[q], tver[q]) /\ EntryExact(q)
      /\ tver'[q] = tver[q] /\ tinc'[q] = tinc[q] /\ tsvc'[q] = tsvc[q]
      /\ \A p \in Payloads :
           /\ owner'[p] = q => owner[p] = q
           /\ owner[p] = q => owner'[p] = q \/ ~ Exclusive(q, p)
  BY <1>1 DEF EntryTrue, EntryKept
<1>3. PICK i \in 0..MaxInc, v \in 0..MaxVersion : i = tinc[q] /\ v = tver[q]
  BY DEF TypeOK
<1>4. Past(q, i, v)' /\ hist'[q][i][v] = hist[q][i][v]
  BY <1>2, <1>3 DEF Grows
<1>5. Past(q, tinc[q], tver[q])'
  BY <1>2, <1>3, <1>4 DEF Past
<1>6. hist'[q][tinc'[q]][tver'[q]] = hist[q][tinc[q]][tver[q]]
  BY <1>2, <1>3, <1>4
<1>7. tsvc'[q] = hist'[q][tinc'[q]][tver'[q]] \cap Services
  BY <1>2, <1>6 DEF EntryExact
<1>8. ASSUME NEW p \in Payloads, owner'[p] = q
      PROVE  p \in hist'[q][tinc'[q]][tver'[q]]
  BY <1>2, <1>6, <1>8 DEF EntryExact
<1>9. ASSUME NEW p \in hist'[q][tinc'[q]][tver'[q]] \cap Payloads, Exclusive(q, p)'
      PROVE  owner'[p] = q
  <2>1. Exclusive(q, p)
    BY <1>9, ClaimsKept
  <2> QED BY <1>2, <1>6, <1>9, <2>1 DEF EntryExact
<1> QED BY <1>5, <1>7, <1>8, <1>9 DEF EntryExact

(* A region whose table variables no step touches keeps its entry.         *)
LEMMA UntouchedKept ==
  ASSUME UNCHANGED tableVars, NEW q \in Regions
  PROVE  EntryKept(q) /\ (Orphanless(q) => Orphanless(q)')
BY DEF tableVars, EntryKept, Orphanless

LEMMA ForgetKept ==
  ASSUME TypeOK, NEW R, Forget(R), NEW q \in Regions
  PROVE  EntryKept(q) /\ (Orphanless(q) => Orphanless(q)')
<1>1. /\ known' = known \ R
      /\ tsvc'[q] = IF q \in R THEN {} ELSE tsvc[q]
      /\ tver'[q] = IF q \in R THEN 0 ELSE tver[q]
      /\ tinc'[q] = IF q \in R THEN 0 ELSE tinc[q]
      /\ synced'[q] = IF q \in R THEN FALSE ELSE synced[q]
      /\ \A p \in Payloads : owner'[p] = IF owner[p] \in R THEN NoRegion ELSE owner[p]
  BY DEF Forget
<1>2. CASE q \in R
  BY <1>1, <1>2 DEF EntryKept, Orphanless
<1>3. CASE q \notin R
  <2>1. \A p \in Payloads : owner'[p] = q <=> owner[p] = q
    BY <1>1, <1>3
  <2> QED BY <1>1, <1>3, <2>1 DEF EntryKept, Orphanless
<1> QED BY <1>2, <1>3

LEMMA ExpireKept ==
  ASSUME TypeOK, NEW gone, NEW Q, NEW P, Expire(gone, Q, P), NEW q \in Regions
  PROVE  EntryKept(q) /\ (Orphanless(q) => Orphanless(q)')
<1>1. /\ known' = known \ gone
      /\ q \in gone => tsvc'[q] = {}
      /\ q \notin gone => tsvc'[q] = {s \in tsvc[q] : <<q, s>> \notin Q}
      /\ q \notin gone => tver'[q] = tver[q] /\ tinc'[q] = tinc[q]
  BY DEF Expire
<1>2. \A p \in Payloads :
        owner'[p] = IF owner[p] \in gone \/ p \in P THEN NoRegion ELSE owner[p]
  BY DEF Expire
<1>3. synced'[q] <=> /\ synced[q] /\ q \notin gone
                     /\ q \notin {rs[1] : rs \in Q} /\ q \notin {owner[p] : p \in P}
  BY DEF Expire
<1>4. Orphanless(q) => Orphanless(q)'
  <2>1. \A p \in Payloads : owner'[p] = q => owner[p] = q /\ q \notin gone
    BY <1>2
  <2>2. tsvc[q] = {} => tsvc'[q] = {}
    BY <1>1
  <2> QED BY <1>1, <2>1, <2>2 DEF Orphanless
<1>5. ASSUME q \in known', synced'[q]
      PROVE  /\ synced[q] /\ tver'[q] = tver[q] /\ tinc'[q] = tinc[q] /\ tsvc'[q] = tsvc[q]
             /\ \A p \in Payloads : owner'[p] = q <=> owner[p] = q
  <2>1. \A s : <<q, s>> \notin Q
    <3>1. \A s : <<q, s>> \in Q => q \in {rs[1] : rs \in Q}
      OBVIOUS
    <3> QED BY <1>3, <1>5, <3>1
  <2>2. \A p \in P : owner[p] # q
    BY <1>3, <1>5
  <2>3. tsvc'[q] = tsvc[q]
    BY <1>1, <1>3, <1>5, <2>1
  <2>4. \A p \in Payloads : owner'[p] = q <=> owner[p] = q
    BY <1>2, <1>3, <1>5, <2>2
  <2> QED BY <1>1, <1>3, <1>5, <2>3, <2>4
<1> QED BY <1>1, <1>4, <1>5 DEF EntryKept

-----------------------------------------------------------------------------
(* Messages delivered to the table.                                        *)

(* An entry that stays synced moves by the change the message names.       *)
LEMMA TrackedTruth ==
  ASSUME TypeOK, NEW r \in Regions, NEW m \in Messages, r \in known,
         EntryTrue(r), MessageTrue(r, m), Track(r, m), synced'[r]
  PROVE  /\ EntryExact(r)
         /\ hist[r][m.inc][m.ver] = Apply(hist[r][tinc[r]][tver[r]], m)
<1>1. synced[r] /\ m.inc = tinc[r] /\ (m.ver = tver[r] \/ (m.fresh /\ m.ver = tver[r] + 1))
  BY DEF Track, TypeOK
<1>2. EntryExact(r)
  BY <1>1 DEF EntryTrue
<1>3. tver[r] \in 0..MaxVersion /\ m.ver \in 0..MaxVersion
  BY MessageFields DEF TypeOK
<1>4. CASE m.ver = tver[r]
  <2>1. /\ m.kind \in AddKinds => m.item \in hist[r][tinc[r]][tver[r]]
        /\ m.kind \in RmKinds => m.item \notin hist[r][tinc[r]][tver[r]]
    BY <1>1, <1>4 DEF MessageTrue
  <2>2. Apply(hist[r][tinc[r]][tver[r]], m) = hist[r][tinc[r]][tver[r]]
    BY <2>1 DEF Apply
  <2> QED BY <1>1, <1>2, <1>4, <2>2
<1>5. CASE m.fresh /\ m.ver = tver[r] + 1
  <2>1. m.ver - 1 = tver[r]
    BY <1>3, <1>5
  <2>2. hist[r][m.inc][m.ver] = Apply(hist[r][m.inc][m.ver - 1], m)
    BY <1>5 DEF MessageTrue
  <2> QED BY <1>1, <1>2, <2>1, <2>2
<1> QED BY <1>1, <1>4, <1>5

(* The table's own handlers do to the entry what Apply does to the         *)
(* content.                                                                *)
Handled(r, m) ==
  \/ m.kind = "region" /\ UNCHANGED <<tsvc, owner>>
  \/ m.kind = "service" /\ tsvc' = [tsvc EXCEPT ![r] = @ \cup {m.item}] /\ UNCHANGED owner
  \/ m.kind = "rmservice" /\ tsvc' = [tsvc EXCEPT ![r] = @ \ {m.item}] /\ UNCHANGED owner
  \/ m.kind = "payload" /\ owner' = [owner EXCEPT ![m.item] = r] /\ UNCHANGED tsvc
  \/ /\ m.kind = "rmpayload"
     /\ owner' = [owner EXCEPT ![m.item] = IF @ = r THEN NoRegion ELSE @]
     /\ UNCHANGED tsvc

LEMMA HandledEntry ==
  ASSUME TypeOK, NEW r \in Regions, NEW m \in Messages, Handled(r, m)
  PROVE  /\ \A x : x \in tsvc'[r] <=>
              \/ m.kind = "service" /\ x = m.item
              \/ x \in tsvc[r] /\ ~ (m.kind = "rmservice" /\ x = m.item)
         /\ \A q \in Regions \ {r} : tsvc'[q] = tsvc[q]
         /\ \A p \in Payloads :
              /\ owner'[p] = r <=>
                   \/ m.kind = "payload" /\ p = m.item
                   \/ owner[p] = r /\ ~ (m.kind = "rmpayload" /\ p = m.item)
              /\ \A q \in Regions \ {r} :
                   owner'[p] = q <=> owner[p] = q /\ ~ (m.kind = "payload" /\ p = m.item)
<1>1. /\ m.kind \in {"service", "rmservice"} => m.item \in Services
      /\ m.kind \in {"payload", "rmpayload"} => m.item \in Payloads
  BY MessageFields
<1>2. CASE m.kind = "region" /\ UNCHANGED <<tsvc, owner>>
  BY <1>2
<1>3. CASE m.kind = "service" /\ tsvc' = [tsvc EXCEPT ![r] = @ \cup {m.item}] /\ UNCHANGED owner
  BY <1>3 DEF TypeOK
<1>4. CASE m.kind = "rmservice" /\ tsvc' = [tsvc EXCEPT ![r] = @ \ {m.item}] /\ UNCHANGED owner
  BY <1>4 DEF TypeOK
<1>5. CASE m.kind = "payload" /\ owner' = [owner EXCEPT ![m.item] = r] /\ UNCHANGED tsvc
  BY <1>1, <1>5 DEF TypeOK
<1>6. CASE /\ m.kind = "rmpayload"
           /\ owner' = [owner EXCEPT ![m.item] = IF @ = r THEN NoRegion ELSE @]
           /\ UNCHANGED tsvc
  BY <1>1, <1>6 DEF TypeOK
<1> QED BY <1>2, <1>3, <1>4, <1>5, <1>6 DEF Handled

LEMMA TrackTrue ==
  ASSUME TypeOK, NEW r \in Regions, NEW m \in Messages, r \in known, EntryTrue(r),
         MessageTrue(r, m), Track(r, m), Handled(r, m),
         UNCHANGED <<inc, version, hist>>
  PROVE  EntryTrue(r)'
<1>1. SUFFICES ASSUME synced'[r]
               PROVE  Past(r, tinc[r], tver[r])' /\ EntryExact(r)'
  BY DEF EntryTrue
<1>2. tver'[r] = m.ver /\ tinc'[r] = m.inc
  BY DEF Track, TypeOK
<1>3. Past(r, tinc[r], tver[r])'
  BY <1>2 DEF MessageTrue, Past
<1> DEFINE old == hist[r][tinc[r]][tver[r]]
           new == hist[r][m.inc][m.ver]
<1>4. hist'[r][tinc'[r]][tver'[r]] = new
  BY <1>2
<1>5. EntryExact(r) /\ new = Apply(old, m)
  BY <1>1, TrackedTruth
<1>6. /\ tsvc[r] = old \cap Services
      /\ \A p \in Payloads : owner[p] = r => p \in old
      /\ \A p \in old \cap Payloads : Exclusive(r, p) => owner[p] = r
  BY <1>5 DEF EntryExact
<1>7. /\ m.kind \in {"region", "service", "rmservice", "payload", "rmpayload"}
      /\ m.kind \in {"service", "rmservice"} => m.item \in Services /\ m.item \notin Payloads
      /\ m.kind \in {"payload", "rmpayload"} => m.item \in Payloads /\ m.item \notin Services
  BY MessageFields DEF Handled
<1>8. \A x : x \in new <=>
        \/ m.kind \in {"service", "payload"} /\ x = m.item
        \/ x \in old /\ ~ (m.kind \in {"rmservice", "rmpayload"} /\ x = m.item)
  BY <1>5 DEF Apply, AddKinds, RmKinds
<1>9. \A p : Exclusive(r, p)' <=> Exclusive(r, p)
  BY DEF Exclusive
<1> HIDE DEF old, new
<1>10. /\ \A x : x \in tsvc'[r] <=>
             \/ m.kind = "service" /\ x = m.item
             \/ x \in tsvc[r] /\ ~ (m.kind = "rmservice" /\ x = m.item)
       /\ \A p \in Payloads : owner'[p] = r <=>
             \/ m.kind = "payload" /\ p = m.item
             \/ owner[p] = r /\ ~ (m.kind = "rmpayload" /\ p = m.item)
  BY HandledEntry
<1>11. tsvc'[r] = new \cap Services
  <2>1. \A x : x \in tsvc'[r] <=> x \in new \cap Services
    BY <1>6, <1>7, <1>8, <1>10
  <2> QED BY <2>1
<1>12. \A p \in Payloads : owner'[p] = r => p \in new
  BY <1>6, <1>7, <1>8, <1>10
<1>13. \A p \in new \cap Payloads : Exclusive(r, p)' => owner'[p] = r
  BY <1>6, <1>7, <1>8, <1>9, <1>10
<1> QED BY <1>3, <1>4, <1>11, <1>12, <1>13 DEF EntryExact

(* The entries of the others: a payload message only takes what its        *)
(* region claims.                                                          *)
LEMMA TrackKept ==
  ASSUME TypeOK, NEW r \in Regions, NEW m \in Messages, MessageTrue(r, m),
         Track(r, m), Handled(r, m), known' = known, NEW q \in Regions \ {r}
  PROVE  EntryKept(q) /\ (Orphanless(q) => Orphanless(q)')
<1>1. tver'[q] = tver[q] /\ tinc'[q] = tinc[q] /\ synced'[q] = synced[q]
  BY DEF Track, TypeOK
<1>2. m.ver \in 0..MaxVersion /\ m.inc \in 0..MaxInc
  BY MessageFields
<1>3. m.kind = "payload" => ~ Exclusive(q, m.item)
  BY <1>2 DEF MessageTrue, Exclusive, AddKinds
<1>4. tsvc'[q] = tsvc[q]
  BY HandledEntry
<1>5. \A p \in Payloads :
        owner'[p] = q <=> owner[p] = q /\ ~ (m.kind = "payload" /\ p = m.item)
  BY HandledEntry
<1> QED BY <1>1, <1>3, <1>4, <1>5 DEF EntryKept, Orphanless

(* What was received leaves the channel, and may be cached.                *)
LEMMA ReceivedSound ==
  ASSUME TypeOK, NEW r \in Regions, NEW kind, Receive(r, kind),
         \/ UNCHANGED updates
         \/ updates' = [updates EXCEPT ![r] = Append(@, Head(chan[r]))]
         \/ updates' = [updates EXCEPT ![r] = <<Head(chan[r])>>]
         \/ updates' = [updates EXCEPT ![r] = <<>>]
  PROVE  NothingFalseSent
<1>1. /\ chan \in [Regions -> Seq(Messages)] /\ updates \in [Regions -> Seq(Messages)]
      /\ \A q \in Regions : chan[q] \in Seq(Messages) /\ updates[q] \in Seq(Messages)
  BY DEF TypeOK
<1>2. /\ chan[r] # <<>> /\ chan'[r] = Tail(chan[r])
      /\ \A q \in Regions \ {r} : chan'[q] = chan[q]
  BY <1>1 DEF Receive
<1>3. ASSUME NEW q \in Regions, NEW k \in 1..Len(chan'[q])
      PROVE  \E x \in Messages :
               chan'[q][k] = x /\ \E j \in 1..Len(chan[q]) : x = chan[q][j]
  <2>1. CASE q = r
    <3> DEFINE c == chan[r]
    <3>0. c \in Seq(Messages) /\ c # <<>> /\ chan'[q] = Tail(c) /\ chan[q] = c
      BY <1>1, <1>2, <2>1
    <3> HIDE DEF c
    <3>1. k + 1 \in 1..Len(chan[q]) /\ chan'[q][k] = chan[q][k + 1]
      BY <1>3, <3>0
    <3>2. chan[q][k + 1] \in Messages
      BY <1>1, <3>1
    <3> QED BY <3>1, <3>2
  <2>2. CASE q # r
    BY <1>1, <1>2, <1>3, <2>2
  <2> QED BY <2>1, <2>2
<1>4. Head(chan[r]) = chan[r][1] /\ chan[r][1] \in Messages /\ 1 \in 1..Len(chan[r])
  BY <1>1, <1>2
<1>5. ASSUME NEW q \in Regions, NEW k \in 1..Len(updates'[q])
      PROVE  \E x \in Messages :
               /\ updates'[q][k] = x
               /\ \/ \E j \in 1..Len(updates[q]) : x = updates[q][j]
                  \/ \E j \in 1..Len(chan[q]) : x = chan[q][j]
  <2>1. CASE updates'[q] = updates[q]
    BY <1>1, <1>5, <2>1
  <2>2. CASE q = r /\ updates'[r] = Append(updates[r], Head(chan[r]))
    <3>1. CASE k = Len(updates[r]) + 1
      <4>1. updates'[q][k] = chan[r][1]
        BY <1>1, <1>4, <2>2, <3>1
      <4> QED BY <1>4, <2>2, <4>1
    <3>2. CASE k # Len(updates[r]) + 1
      <4>1. /\ k \in 1..Len(updates[r]) /\ updates[r][k] \in Messages
            /\ updates'[q][k] = updates[r][k]
        BY <1>1, <1>4, <1>5, <2>2, <3>2
      <4> QED BY <2>2, <4>1
    <3> QED BY <3>1, <3>2
  <2>3. CASE q = r /\ updates'[r] = <<Head(chan[r])>>
    <3>1. k = 1
      BY <1>5, <2>3
    <3> QED BY <1>4, <2>3, <3>1
  <2>4. CASE q = r /\ updates'[r] = <<>>
    BY <1>5, <2>4
  <2> QED BY <1>1, <2>1, <2>2, <2>3, <2>4
<1> QED BY <1>3, <1>5 DEF NothingFalseSent

LEMMA SnapshotsKept ==
  ASSUME TypeOK, Grows, SnapshotsTrue,
         \A q \in Regions : factory'[q] = "built" => factory[q] = "built" /\ snap'[q] = snap[q]
  PROVE  SnapshotsTrue'
<1>1. SUFFICES ASSUME NEW q \in Regions, factory'[q] = "built"
               PROVE  /\ Past(q, snap[q].inc, snap[q].ver)'
                      /\ snap'[q].content = hist'[q][snap'[q].inc][snap'[q].ver]
  BY DEF SnapshotsTrue
<1>2. /\ Past(q, snap[q].inc, snap[q].ver) /\ snap'[q] = snap[q]
      /\ snap[q].content = hist[q][snap[q].inc][snap[q].ver]
  BY <1>1 DEF SnapshotsTrue
<1>3. PICK i \in 0..MaxInc, v \in 0..MaxVersion : i = snap[q].inc /\ v = snap[q].ver
  BY DEF TypeOK, Snapshots
<1>4. Past(q, i, v)' /\ hist'[q][i][v] = hist[q][i][v]
  BY <1>2, <1>3 DEF Grows
<1>5. Past(q, snap[q].inc, snap[q].ver)'
  BY <1>2, <1>3, <1>4 DEF Past
<1> QED BY <1>2, <1>3, <1>4, <1>5

-----------------------------------------------------------------------------
(* The merge of a product.                                                 *)

(* Everything in the product was in r at some time.                        *)
LEMMA ProductClaimed ==
  ASSUME TypeOK, MessagesTrue, SnapshotsTrue, NEW r \in Regions, factory[r] = "built",
         NEW i \in 1..Len(updates[r]),
         NEW p \in Replayed(snap[r].content, updates[r], i, Len(updates[r])),
         NEW q \in Regions \ {r}
  PROVE  ~ Exclusive(q, p)
<1>1. updates[r] \in Seq(Messages) /\ snap[r].inc \in 0..MaxInc /\ snap[r].ver \in 0..MaxVersion
  BY DEF TypeOK, Snapshots
<1>2. CASE p \in snap[r].content
  <2>1. p \in hist[r][snap[r].inc][snap[r].ver]
    BY <1>2 DEF SnapshotsTrue
  <2> QED BY <1>1, <2>1 DEF Exclusive
<1>3. CASE \E k \in (i+1)..Len(updates[r]) : Adds(updates[r][k], p)
  <2>1. PICK k \in (i+1)..Len(updates[r]) : Adds(updates[r][k], p)
    BY <1>3
  <2>2. k \in 1..Len(updates[r]) /\ updates[r][k] \in Messages
    BY <1>1
  <2>3. p \in hist[r][updates[r][k].inc][updates[r][k].ver]
    BY <2>1, <2>2 DEF MessagesTrue, MessageTrue, Adds
  <2>4. updates[r][k].inc \in 0..MaxInc /\ updates[r][k].ver \in 0..MaxVersion
    BY <2>2, MessageFields
  <2> QED BY <2>3, <2>4 DEF Exclusive
<1> QED BY <1>2, <1>3, ReplayOrigin

(* A product replayed from changes of the snapshot's run is what r was at  *)
(* the version the product names.                                          *)
LEMMA ProductTrue ==
  ASSUME TypeOK, MessagesTrue, SnapshotsTrue, NEW r \in Regions, factory[r] = "built",
         NEW i \in 1..Len(updates[r]), Consecutive(updates[r], snap[r].ver, i),
         \A k \in (i+1)..Len(updates[r]) :
           updates[r][k].fresh /\ updates[r][k].inc = snap[r].inc
  PROVE  LET n == Len(updates[r])
             v == snap[r].ver + (n - i)
         IN  /\ Replayed(snap[r].content, updates[r], i, n) = hist[r][snap[r].inc][v]
             /\ Past(r, snap[r].inc, v)
<1> DEFINE u == updates[r]
           n == Len(u)
           a == snap[r].inc
           w == snap[r].ver
           h == [k \in 0..n |-> hist[r][a][w + (k - i)]]
<1>1. /\ u \in Seq(Messages) /\ n \in Nat /\ i \in 1..n
      /\ a \in 0..MaxInc /\ w \in 0..MaxVersion
  BY DEF TypeOK, Snapshots
<1>2. ASSUME NEW k \in (i+1)..n
      PROVE  /\ u[k].ver = w + (k - i) /\ u[k].inc = a /\ u[k].fresh
             /\ MessageTrue(r, u[k])
  <2>1. k \in 1..n
    BY <1>1
  <2> QED BY <2>1 DEF Consecutive, MessagesTrue
<1>3. snap[r].content = hist[r][a][w] /\ Past(r, a, w)
  BY DEF SnapshotsTrue
<1> HIDE DEF u, n, a, w
<1>4. ASSUME NEW k \in (i+1)..n PROVE h[k] = Apply(h[k - 1], u[k])
  <2>1. k \in 0..n /\ k - 1 \in 0..n
    BY <1>1
  <2>2. h[k] = hist[r][a][w + (k - i)] /\ h[k - 1] = hist[r][a][w + ((k - 1) - i)]
    BY <2>1
  <2>3. (w + (k - i)) - 1 = w + ((k - 1) - i)
    BY <1>1
  <2>4. hist[r][a][w + (k - i)] = Apply(hist[r][a][(w + (k - i)) - 1], u[k])
    BY <1>2 DEF MessageTrue
  <2> QED BY <2>2, <2>3, <2>4
<1>5. h[i] = hist[r][a][w] /\ h[n] = hist[r][a][w + (n - i)]
  <2>1. i \in 0..n /\ n \in 0..n /\ w + (i - i) = w
    BY <1>1
  <2> QED BY <2>1
<1> HIDE DEF h
<1>6. Replayed(h[i], u, i, n) = h[n]
  <2>1. i \in Nat /\ n \in Nat /\ i <= n
    BY <1>1
  <2> QED BY <1>4, <2>1, ReplayExact
<1>7. Past(r, a, w + (n - i))
  <2>1. CASE i = n
    BY <1>1, <1>3, <2>1
  <2>2. CASE i # n
    <3>1. n \in (i+1)..n
      BY <1>1, <2>2
    <3> QED BY <1>2, <3>1 DEF MessageTrue
  <2> QED BY <2>1, <2>2
<1> QED BY <1>3, <1>5, <1>6, <1>7 DEF u, n, a, w

LEMMA MergeTrue ==
  ASSUME TypeOK, MessagesTrue, SnapshotsTrue, NEW r \in Regions, factory[r] = "built",
         r \notin known, Orphanless(r),
         NEW i \in 1..Len(updates[r]), Consecutive(updates[r], snap[r].ver, i),
         Merge(r, i), UNCHANGED <<inc, version, hist>>
  PROVE  EntryTrue(r)' /\ Orphanless(r)'
<1> DEFINE u == updates[r]
           n == Len(u)
           product == Replayed(snap[r].content, u, i, n)
           v == snap[r].ver + (n - i)
           b == \A k \in (i+1)..n : u[k].fresh /\ u[k].inc = snap[r].inc
<1>1. r \in known'
  BY DEF Merge
<1>2. tver'[r] = v /\ tinc'[r] = snap[r].inc
  BY DEF Merge, TypeOK
<1>3. tsvc'[r] = tsvc[r] \cup (product \cap Services)
  BY DEF Merge, TypeOK
<1>4. \A p \in Payloads : owner'[p] = r <=> p \in product \/ owner[p] = r
  BY DEF Merge
<1>5. synced'[r] = b
  BY DEF Merge, TypeOK
<1>6. tsvc[r] = {} /\ \A p \in Payloads : owner[p] # r
  BY DEF Orphanless
<1>7. ASSUME synced'[r]
      PROVE  Past(r, tinc[r], tver[r])' /\ EntryExact(r)'
  <2>1. product = hist[r][snap[r].inc][v] /\ Past(r, snap[r].inc, v)
    BY <1>5, <1>7, ProductTrue
  <2> HIDE DEF product, v, b
  <2>2. hist'[r][tinc'[r]][tver'[r]] = product
    BY <1>2, <2>1
  <2>3. Past(r, tinc[r], tver[r])'
    BY <1>2, <2>1 DEF Past
  <2>4. tsvc'[r] = product \cap Services
    BY <1>3, <1>6
  <2>5. \A p \in Payloads : owner'[p] = r <=> p \in product
    BY <1>4, <1>6
  <2> QED BY <2>2, <2>3, <2>4, <2>5 DEF EntryExact
<1> QED BY <1>1, <1>7 DEF EntryTrue, Orphanless

LEMMA MergeKept ==
  ASSUME TypeOK, MessagesTrue, SnapshotsTrue, NEW r \in Regions, factory[r] = "built",
         NEW i \in 1..Len(updates[r]), Merge(r, i), NEW q \in Regions \ {r}
  PROVE  EntryKept(q) /\ (Orphanless(q) => Orphanless(q)')
<1> DEFINE product == Replayed(snap[r].content, updates[r], i, Len(updates[r]))
<1>1. /\ q \in known' <=> q \in known
      /\ tver'[q] = tver[q] /\ tinc'[q] = tinc[q] /\ tsvc'[q] = tsvc[q]
      /\ synced'[q] = synced[q]
  BY DEF Merge, TypeOK
<1>2. \A p \in Payloads : owner'[p] = q <=> owner[p] = q /\ p \notin product
  BY DEF Merge
<1>3. \A p \in product : ~ Exclusive(q, p)
  BY ProductClaimed
<1> HIDE DEF product
<1> QED BY <1>1, <1>2, <1>3 DEF EntryKept, Orphanless

-----------------------------------------------------------------------------
(* The steps, and the theorems.                                            *)

(* A step that leaves the regions alone.                                   *)
LEMMA TrackerStepTrue ==
  ASSUME IInv, UNCHANGED <<inc, version, content, hist>>, NothingFalseSent,
         \A q \in Regions : factory'[q] = "built" => factory[q] = "built" /\ snap'[q] = snap[q]
  PROVE  Grows /\ HistoryTrue' /\ MessagesTrue' /\ SnapshotsTrue'
<1>1. Grows /\ HistoryTrue'
  BY HistoryKept DEF IInv
<1> QED BY <1>1, MessagesKept, SnapshotsKept DEF IInv

LEMMA EachTrue ==
  ASSUME IInv
  PROVE  \A q \in Regions : EntryTrue(q) /\ Orphanless(q)
BY EntriesTrue, Orphanlesses DEF IInv

LEMMA KeptAll ==
  ASSUME IInv, Grows, NEW q \in Regions, EntryKept(q), Orphanless(q) => Orphanless(q)'
  PROVE  EntryTrue(q)' /\ Orphanless(q)'
BY EachTrue, KeptTrue DEF IInv

(* The invariant, region by region.                                        *)
LEMMA Assembled ==
  ASSUME TypeOK', HistoryTrue', MessagesTrue', SnapshotsTrue',
         \A q \in Regions : EntryTrue(q)' /\ Orphanless(q)'
  PROVE  IInv'
BY DEF IInv, TableExact, EntriesPast, NoOrphans, EntryTrue, Orphanless

LEMMA InitTrue == Init => IInv
<1>1. SUFFICES ASSUME Init PROVE IInv
  OBVIOUS
<1>2. TypeOK
  BY <1>1, InitType
<1>3. HistoryTrue
  BY <1>1 DEF Init, HistoryTrue
<1>4. MessagesTrue /\ SnapshotsTrue
  BY <1>1 DEF Init, MessagesTrue, SnapshotsTrue
<1>5. EntriesPast /\ TableExact
  BY <1>1 DEF Init, EntriesPast, TableExact
<1>6. NoOrphans
  BY <1>1 DEF Init, NoOrphans
<1> QED BY <1>2, <1>3, <1>4, <1>5, <1>6 DEF IInv

LEMMA RegionStepInv ==
  ASSUME IInv, NEW r \in Regions, RegionStep(r)
  PROVE  IInv'
<1>1. /\ Grows /\ HistoryTrue' /\ MessagesTrue'
      /\ UNCHANGED <<tableVars, factoryVars>>
  BY RegionStepTrue DEF IInv
<1>2. SnapshotsTrue'
  BY <1>1, SnapshotsKept DEF IInv, factoryVars
<1>3. \A q \in Regions : EntryTrue(q)' /\ Orphanless(q)'
  BY <1>1, UntouchedKept, KeptAll
<1>4. TypeOK'
  BY RegionStepType DEF IInv
<1> QED BY <1>1, <1>2, <1>3, <1>4, Assembled

LEMMA DeliverInv ==
  ASSUME IInv, NEW r \in Regions, Deliver(r)
  PROVE  IInv'
<1> DEFINE m == Head(chan[r])
<1>1. PICK kind : Receive(r, kind)
  BY DEF Deliver, RecvRegion, RecvRmRegion, RecvService, RecvRmService, RecvPayload, RecvRmPayload
<1>2. /\ m \in Messages /\ m.kind = kind /\ MessageTrue(r, m)
      /\ UNCHANGED <<inc, version, content, hist>>
  <2>1. /\ m \in Messages /\ m.kind = kind /\ UNCHANGED <<inc, version, content, hist>>
        /\ chan[r] \in Seq(Messages) /\ chan[r] # <<>>
    BY <1>1, ReceiveType DEF IInv
  <2>2. m = chan[r][1] /\ 1 \in 1..Len(chan[r])
    BY <2>1
  <2> QED BY <2>1, <2>2 DEF IInv, MessagesTrue
<1>3. CASE /\ r \in known /\ known' = known /\ Track(r, m) /\ Handled(r, m)
           /\ UNCHANGED factoryVars
  <2>1. /\ updates' = updates
        /\ \A q \in Regions : factory'[q] = "built" => factory[q] = "built" /\ snap'[q] = snap[q]
    BY <1>3 DEF factoryVars
  <2>2. NothingFalseSent
    BY <1>1, <2>1, ReceivedSound DEF IInv
  <2>3. Grows /\ HistoryTrue' /\ MessagesTrue' /\ SnapshotsTrue'
    BY <1>2, <2>1, <2>2, TrackerStepTrue
  <2> HIDE DEF m
  <2>4. \A q \in Regions \ {r} : EntryTrue(q)' /\ Orphanless(q)'
    BY <1>2, <1>3, <2>3, TrackKept, KeptAll DEF IInv
  <2>5. EntryTrue(r)'
    BY <1>2, <1>3, EachTrue, TrackTrue DEF IInv
  <2>6. Orphanless(r)'
    BY <1>3 DEF Orphanless
  <2>7. TypeOK'
    BY DeliverType DEF IInv
  <2> QED BY <2>3, <2>4, <2>5, <2>6, <2>7, Assembled
<1>4. CASE /\ \A q \in Regions : EntryKept(q) /\ (Orphanless(q) => Orphanless(q)')
           /\ \/ UNCHANGED updates
              \/ updates' = [updates EXCEPT ![r] = Append(@, Head(chan[r]))]
              \/ updates' = [updates EXCEPT ![r] = <<Head(chan[r])>>]
              \/ updates' = [updates EXCEPT ![r] = <<>>]
           /\ \A q \in Regions : factory'[q] = "built" => factory[q] = "built" /\ snap'[q] = snap[q]
  <2>1. NothingFalseSent
    BY <1>1, <1>4, ReceivedSound DEF IInv
  <2>2. Grows /\ HistoryTrue' /\ MessagesTrue' /\ SnapshotsTrue'
    BY <1>2, <1>4, <2>1, TrackerStepTrue
  <2>3. \A q \in Regions : EntryTrue(q)' /\ Orphanless(q)'
    BY <1>4, <2>2, KeptAll
  <2>4. TypeOK'
    BY DeliverType DEF IInv
  <2> QED BY <2>2, <2>3, <2>4, Assembled
<1>5. CASE UNCHANGED tableVars /\ (UNCHANGED factoryVars \/ Cache(r, m))
  <2>1. \A q \in Regions : EntryKept(q) /\ (Orphanless(q) => Orphanless(q)')
    BY <1>5, UntouchedKept
  <2> QED BY <1>4, <1>5, <2>1 DEF Cache, factoryVars
<1>6. CASE RecvRegion(r)
  <2>1. CASE r \in known /\ Track(r, m) /\ UNCHANGED <<known, tsvc, owner, factoryVars>>
    <3>1. m.kind = "region"
      BY <1>6 DEF RecvRegion, Receive
    <3> QED BY <1>3, <2>1, <3>1 DEF Handled
  <2>2. CASE UNCHANGED tableVars /\ (UNCHANGED factoryVars \/ Cache(r, m))
    BY <1>5, <2>2
  <2>3. CASE StartFactory(r, m) /\ UNCHANGED tableVars
    <3>1. \A q \in Regions : EntryKept(q) /\ (Orphanless(q) => Orphanless(q)')
      BY <2>3, UntouchedKept
    <3>2. \A q \in Regions : factory'[q] = "built" => factory[q] = "built" /\ snap'[q] = snap[q]
      BY <2>3 DEF IInv, TypeOK, StartFactory
    <3> QED BY <1>4, <2>3, <3>1, <3>2 DEF StartFactory
  <2> QED BY <1>6, <2>1, <2>2, <2>3 DEF RecvRegion, SyncRegion, factoryVars
<1>7. CASE RecvRmRegion(r)
  <2>1. CASE Forget({r}) /\ UNCHANGED factoryVars
    <3>1. \A q \in Regions : EntryKept(q) /\ (Orphanless(q) => Orphanless(q)')
      BY <2>1, ForgetKept DEF IInv
    <3> QED BY <1>4, <2>1, <3>1 DEF factoryVars
  <2>2. CASE EndFactory(r) /\ UNCHANGED tableVars
    <3>1. \A q \in Regions : EntryKept(q) /\ (Orphanless(q) => Orphanless(q)')
      BY <2>2, UntouchedKept
    <3>2. \A q \in Regions : factory'[q] = "built" => factory[q] = "built" /\ snap'[q] = snap[q]
      BY <2>2 DEF IInv, TypeOK, EndFactory
    <3> QED BY <1>4, <2>2, <3>1, <3>2 DEF EndFactory
  <2> QED BY <1>7, <2>1, <2>2 DEF RecvRmRegion
<1>8. CASE RecvService(r)
  <2>1. m.kind = "service"
    BY <1>8 DEF RecvService, Receive
  <2> QED BY <1>3, <1>5, <1>8, <2>1 DEF RecvService, Handled, PassOn
<1>9. CASE RecvRmService(r)
  <2>1. m.kind = "rmservice"
    BY <1>9 DEF RecvRmService, Receive
  <2> QED BY <1>3, <1>5, <1>9, <2>1 DEF RecvRmService, Handled, PassOn
<1>10. CASE RecvPayload(r)
  <2>1. m.kind = "payload"
    BY <1>10 DEF RecvPayload, Receive
  <2> QED BY <1>3, <1>5, <1>10, <2>1 DEF RecvPayload, Handled, PassOn
<1>11. CASE RecvRmPayload(r)
  <2>1. m.kind = "rmpayload"
    BY <1>11 DEF RecvRmPayload, Receive
  <2> QED BY <1>3, <1>5, <1>11, <2>1 DEF RecvRmPayload, Handled, PassOn
<1> QED BY <1>6, <1>7, <1>8, <1>9, <1>10, <1>11 DEF Deliver

(* Ending a factory says nothing new.                                      *)
LEMMA EndFactorySound ==
  ASSUME TypeOK, NEW r \in Regions, EndFactory(r), UNCHANGED chan
  PROVE  /\ NothingFalseSent
         /\ \A q \in Regions : factory'[q] = "built" => factory[q] = "built" /\ snap'[q] = snap[q]
<1>1. \A q \in Regions : chan[q] \in Seq(Messages) /\ updates[q] \in Seq(Messages)
  BY DEF TypeOK
<1>2. \A q \in Regions : updates'[q] = updates[q] \/ updates'[q] = <<>>
  BY DEF TypeOK, EndFactory
<1>3. ASSUME NEW q \in Regions, NEW k \in 1..Len(updates'[q])
      PROVE  updates'[q] = updates[q] /\ k \in 1..Len(updates[q])
  BY <1>2, <1>3
<1>4. NothingFalseSent
  BY <1>1, <1>3 DEF NothingFalseSent
<1> QED BY <1>4 DEF TypeOK, EndFactory

LEMMA FactoryStepInv ==
  ASSUME IInv, NEW r \in Regions, FactoryStep(r)
  PROVE  IInv'
<1>1. TypeOK /\ TypeOK'
  BY FactoryStepType DEF IInv
<1>2. CASE BuildSnapshot(r)
  <2>1. /\ UNCHANGED <<inc, version, content, hist, chan, updates, tableVars>>
        /\ snap'[r] = Snapshot(version[r], content[r], inc[r])
        /\ \A q \in Regions \ {r} : factory'[q] = factory[q] /\ snap'[q] = snap[q]
    BY <1>1, <1>2 DEF BuildSnapshot, TypeOK, regionVars
  <2>2. Grows /\ HistoryTrue'
    BY <2>1, HistoryKept DEF IInv
  <2>3. MessagesTrue'
    BY <2>1, <2>2, MessagesUnchanged DEF IInv
  <2>4. /\ snap'[r].inc = inc'[r] /\ snap'[r].ver = version'[r]
        /\ snap'[r].content = content'[r]
    BY <2>1 DEF Snapshot
  <2>5. /\ Past(r, snap[r].inc, snap[r].ver)'
        /\ snap'[r].content = hist'[r][snap'[r].inc][snap'[r].ver]
    <3>1. \A n \in Nat : n <= n
      OBVIOUS
    <3>2. version'[r] \in Nat
      BY <1>1 DEF TypeOK
    <3>3. hist'[r][inc'[r]][version'[r]] = content'[r]
      BY <2>2 DEF HistoryTrue
    <3> QED BY <2>4, <3>1, <3>2, <3>3 DEF Past
  <2>6. ASSUME NEW q \in Regions \ {r}, factory'[q] = "built"
        PROVE  /\ Past(q, snap[q].inc, snap[q].ver)'
               /\ snap'[q].content = hist'[q][snap'[q].inc][snap'[q].ver]
    BY <2>1, <2>6 DEF IInv, SnapshotsTrue, Past
  <2>7. SnapshotsTrue'
    BY <2>5, <2>6 DEF SnapshotsTrue
  <2>8. \A q \in Regions : EntryTrue(q)' /\ Orphanless(q)'
    BY <2>1, <2>2, UntouchedKept, KeptAll
  <2> QED BY <1>1, <2>2, <2>3, <2>7, <2>8, Assembled
<1>3. CASE /\ EndFactory(r) /\ UNCHANGED <<regionVars, chan>>
           /\ \A q \in Regions :
                \/ EntryKept(q) /\ (Orphanless(q) => Orphanless(q)')
                \/ EntryTrue(q)' /\ Orphanless(q)'
  <2>1. Grows /\ HistoryTrue' /\ MessagesTrue' /\ SnapshotsTrue'
    BY <1>1, <1>3, EndFactorySound, TrackerStepTrue DEF regionVars
  <2>2. \A q \in Regions : EntryTrue(q)' /\ Orphanless(q)'
    BY <1>3, <2>1, KeptAll
  <2> QED BY <1>1, <2>1, <2>2, Assembled
<1>4. CASE SnapshotDone(r)
  <2>1. EndFactory(r) /\ UNCHANGED <<regionVars, chan>> /\ factory[r] = "built"
    BY <1>4 DEF SnapshotDone
  <2>2. CASE UNCHANGED tableVars
    BY <1>3, <2>1, <2>2, UntouchedKept
  <2>3. CASE \E i \in 1..Len(updates[r]) :
               Consecutive(updates[r], snap[r].ver, i) /\ r \notin known /\ Merge(r, i)
    <3>1. PICK i \in 1..Len(updates[r]) :
            Consecutive(updates[r], snap[r].ver, i) /\ r \notin known /\ Merge(r, i)
      BY <2>3
    <3>2. EntryTrue(r)' /\ Orphanless(r)'
      BY <2>1, <3>1, EachTrue, MergeTrue DEF IInv, regionVars
    <3>3. \A q \in Regions \ {r} : EntryKept(q) /\ (Orphanless(q) => Orphanless(q)')
      BY <2>1, <3>1, MergeKept DEF IInv
    <3> QED BY <1>3, <2>1, <3>2, <3>3
  <2> QED BY <1>4, <2>2, <2>3 DEF SnapshotDone
<1>5. CASE SnapshotFailed(r)
  BY <1>3, <1>5, UntouchedKept DEF SnapshotFailed
<1>6. CASE SnapshotNotStarted(r)
  <2>1. \A q \in Regions : EntryKept(q) /\ (Orphanless(q) => Orphanless(q)')
    BY <1>6 DEF SnapshotNotStarted, EntryKept, Orphanless
  <2> QED BY <1>3, <1>6, <2>1 DEF SnapshotNotStarted
<1> QED BY <1>2, <1>4, <1>5, <1>6 DEF FactoryStep

LEMMA CheckTimerInv == IInv /\ CheckTimer => IInv'
<1>1. SUFFICES ASSUME IInv, CheckTimer, NEW gone, NEW Q, NEW P, Expire(gone, Q, P)
               PROVE  IInv'
  BY DEF CheckTimer
<1>2. Expire(gone, Q, P)
  BY <1>1
<1>3. UNCHANGED <<regionVars, chan, factoryVars>>
  BY <1>2 DEF Expire
<1>4. Grows /\ HistoryTrue'
  BY <1>1, <1>3, HistoryKept DEF IInv, regionVars
<1>5. MessagesTrue' /\ SnapshotsTrue'
  <2>1. /\ UNCHANGED <<chan, updates>>
        /\ \A q \in Regions : factory'[q] = "built" => factory[q] = "built" /\ snap'[q] = snap[q]
    BY <1>3 DEF factoryVars
  <2> QED BY <1>1, <1>4, <2>1, MessagesUnchanged, SnapshotsKept DEF IInv
<1>6. \A q \in Regions : EntryTrue(q)' /\ Orphanless(q)'
  BY <1>1, <1>2, <1>4, ExpireKept, KeptAll DEF IInv
<1>7. TypeOK'
  BY <1>1, CheckTimerType DEF IInv
<1> QED BY <1>4, <1>5, <1>6, <1>7, Assembled

LEMMA RestartTrackerInv == IInv /\ RestartTracker => IInv'
<1>1. SUFFICES ASSUME IInv, RestartTracker PROVE IInv'
  OBVIOUS
<1>2. /\ Forget(Regions \cup {EmptyId}) /\ UNCHANGED regionVars
      /\ \A q \in Regions : chan'[q] = <<>> /\ updates'[q] = <<>> /\ factory'[q] = "none"
  BY <1>1 DEF RestartTracker
<1>3. Grows /\ HistoryTrue'
  BY <1>1, <1>2, HistoryKept DEF IInv, regionVars
<1>4. MessagesTrue' /\ SnapshotsTrue'
  BY <1>2 DEF MessagesTrue, SnapshotsTrue
<1>5. \A q \in Regions : EntryTrue(q)' /\ Orphanless(q)'
  BY <1>1, <1>2, <1>3, ForgetKept, KeptAll DEF IInv
<1>6. TypeOK'
  BY <1>1, RestartTrackerType DEF IInv
<1> QED BY <1>3, <1>4, <1>5, <1>6, Assembled

LEMMA NextInv == IInv /\ [Next]_vars => IInv'
<1>1. SUFFICES ASSUME IInv, [Next]_vars PROVE IInv'
  OBVIOUS
<1>2. CASE UNCHANGED vars
  <2>1. UNCHANGED <<alive, inc, version, content, hist, chan, losses, known, tver, tsvc,
                    owner, tinc, synced, factory, snap, updates>>
    BY <1>2 DEF vars, regionVars, tableVars, factoryVars
  <2>2. TypeOK'
    BY <1>1, <2>1 DEF IInv, TypeOK
  <2>3. Grows /\ HistoryTrue'
    BY <1>1, <2>1, HistoryKept DEF IInv
  <2>4. MessagesTrue' /\ SnapshotsTrue'
    BY <1>1, <2>1, <2>3, MessagesUnchanged, SnapshotsKept DEF IInv
  <2>5. \A q \in Regions : EntryTrue(q)' /\ Orphanless(q)'
    BY <1>1, <2>1, <2>3, UntouchedKept, KeptAll DEF tableVars
  <2> QED BY <2>2, <2>3, <2>4, <2>5, Assembled
<1> QED BY <1>1, <1>2, RegionStepInv, DeliverInv, FactoryStepInv, CheckTimerInv,
           RestartTrackerInv DEF Next

(* The invariant holds in every reachable state, whatever is lost,         *)
(* repeated, restarted or merged.                                          *)
THEOREM Invariant == Spec => []IInv
BY InitTrue, NextInv, PTL DEF Spec

(* An entry merged and kept in step by the code of present(), merge() and  *)
(* the handlers is a true state of its region.                             *)
THEOREM MergedEntriesExact == Spec => []TableExact
<1>1. IInv => TableExact
  BY DEF IInv
<1> QED BY <1>1, Invariant, PTL

(* doRmRegion and the timers leave nothing behind of a region.             *)
THEOREM NothingOrphaned == Spec => []NoOrphans
<1>1. IInv => NoOrphans
  BY DEF IInv
<1> QED BY <1>1, Invariant, PTL

-----------------------------------------------------------------------------
(* The steps of RouteTable in terms of the variables of RegionSync.        *)

LEMMA ProvidersType ==
  ASSUME TypeOK
  PROVE  /\ providers \in [Ids -> SUBSET Services]
         /\ \A r \in Regions : providers[r] = tsvc[r]
         /\ \A r \in Ids \ Regions : providers[r] = {}
BY DEF TypeOK, providers, Ids

LEMMA Stutters ==
  ASSUME UNCHANGED <<known, tsvc, owner>>
  PROVE  UNCHANGED Routes!vars
BY DEF Routes!vars, providers

LEMMA Leaves ==
  ASSUME TypeOK, TypeOK', NoOrphans',
         known' \subseteq known,
         \A r \in Regions : tsvc'[r] \subseteq tsvc[r],
         \A p \in Payloads : owner'[p] \in {owner[p], NoRegion}
  PROVE  Routes!Leave
<1>1. known' \in SUBSET known
  OBVIOUS
<1>2. providers' \in [Ids -> SUBSET Services]
  BY DEF TypeOK, providers, Ids
<1>3. \A r \in Ids : providers'[r] \subseteq providers[r]
  BY DEF providers
<1>4. \A r \in known \ known' : providers'[r] = {}
  <2>1. SUFFICES ASSUME NEW r \in Ids, r \notin known'
                 PROVE  providers'[r] = {}
    BY DEF TypeOK, Ids
  <2>2. r \in Regions => tsvc'[r] = {}
    BY <2>1 DEF NoOrphans
  <2> QED BY <2>1, <2>2 DEF providers
<1>5. owner' \in [Payloads -> known' \cup {NoRegion}]
  <2>1. owner' \in [Payloads -> Regions \cup {NoRegion}]
    BY DEF TypeOK
  <2>2. ASSUME NEW p \in Payloads
        PROVE  owner'[p] \in known' \cup {NoRegion}
    BY <2>1 DEF NoOrphans
  <2> QED BY <2>1, <2>2
<1> QED BY <1>1, <1>2, <1>3, <1>4, <1>5 DEF Routes!Leave

LEMMA Enters ==
  ASSUME TypeOK, TypeOK', NEW r \in Ids, r \notin known,
         known' = known \cup {r},
         \A q \in Regions \ {r} : tsvc'[q] = tsvc[q],
         \A p \in Payloads : owner'[p] \in {owner[p], r}
  PROVE  Routes!Enter(r)
<1>1. providers' \in [Ids -> SUBSET Services]
  BY DEF TypeOK, providers, Ids
<1>2. \A q \in Ids \ {r} : providers'[q] = providers[q]
  BY DEF providers
<1>3. owner' \in [Payloads -> Ids \cup {NoRegion}]
  BY DEF TypeOK, Ids
<1> QED BY <1>1, <1>2, <1>3 DEF Routes!Enter

LEMMA Provides ==
  ASSUME TypeOK, NEW r \in Regions, NEW s \in Services, r \in known,
         tsvc' = [tsvc EXCEPT ![r] = @ \cup {s}],
         UNCHANGED <<known, owner>>
  PROVE  Routes!Provide(r, s)
<1>1. \A q \in Regions : tsvc'[q] = IF q = r THEN tsvc[r] \cup {s} ELSE tsvc[q]
  BY DEF TypeOK
<1>2. \A q \in Ids : providers'[q] = IF q = r THEN providers[r] \cup {s} ELSE providers[q]
  BY <1>1 DEF providers, Ids
<1>3. providers' = [providers EXCEPT ![r] = @ \cup {s}]
  <2>1. providers' = [q \in Ids |-> providers'[q]]
    BY DEF providers
  <2>2. providers = [q \in Ids |-> providers[q]]
    BY DEF providers
  <2> HIDE DEF providers
  <2> QED BY <1>2, <2>1, <2>2
<1> QED BY <1>3 DEF Routes!Provide

LEMMA Carries ==
  ASSUME NEW r \in Regions, NEW p \in Payloads, r \in known,
         owner' = [owner EXCEPT ![p] = r],
         UNCHANGED <<known, tsvc>>
  PROVE  Routes!Carry(r, p)
BY DEF Routes!Carry, providers

-----------------------------------------------------------------------------
(* The steps of the system.                                                *)

LEMMA ForgetLeaves ==
  ASSUME TypeOK, TypeOK', NoOrphans', NEW R, Forget(R)
  PROVE  Routes!Leave
<1>1. known' \subseteq known
  BY DEF Forget
<1>2. \A r \in Regions : tsvc'[r] \subseteq tsvc[r]
  BY DEF Forget
<1>3. \A p \in Payloads : owner'[p] \in {owner[p], NoRegion}
  BY DEF Forget
<1> QED BY <1>1, <1>2, <1>3, Leaves

LEMMA DeliverRoutes ==
  ASSUME IInv, IInv', NEW r \in Regions, Deliver(r)
  PROVE  [Routes!Next]_(Routes!vars)
<1> DEFINE m == Head(chan[r])
<1>1. TypeOK /\ TypeOK' /\ NoOrphans'
  BY DEF IInv
<1>2. r \in Ids
  BY DEF Ids
<1>3. ASSUME UNCHANGED tableVars PROVE UNCHANGED Routes!vars
  BY <1>3, Stutters DEF tableVars
<1>4. CASE RecvRegion(r)
  <2>1. UNCHANGED tableVars \/ UNCHANGED <<known, tsvc, owner>>
    BY <1>4 DEF RecvRegion
  <2> QED BY <1>3, <2>1, Stutters
<1>5. CASE RecvRmRegion(r)
  <2>1. UNCHANGED tableVars \/ Forget({r})
    BY <1>5 DEF RecvRmRegion
  <2> QED BY <1>1, <1>3, <2>1, ForgetLeaves DEF Routes!Next
<1>6. CASE RecvService(r)
  <2>1. m \in Messages /\ m.kind = "service"
    BY <1>1, <1>6, ReceiveType DEF RecvService
  <2>2. m.item \in Services
    BY <2>1, MessageFields
  <2>3. CASE r \in known /\ tsvc' = [tsvc EXCEPT ![r] = @ \cup {m.item}]
               /\ UNCHANGED <<known, owner>>
    <3>1. Routes!Provide(r, m.item)
      BY <1>1, <2>2, <2>3, Provides
    <3> QED BY <1>2, <2>2, <3>1 DEF Routes!Next
  <2> QED BY <1>3, <1>6, <2>3 DEF RecvService
<1>7. CASE RecvRmService(r)
  <2>1. CASE tsvc' = [tsvc EXCEPT ![r] = @ \ {m.item}] /\ UNCHANGED <<known, owner>>
    <3>1. \A q \in Regions : tsvc'[q] \subseteq tsvc[q]
      BY <1>1, <2>1 DEF TypeOK
    <3>2. Routes!Leave
      BY <1>1, <2>1, <3>1, Leaves
    <3> QED BY <3>2 DEF Routes!Next
  <2> QED BY <1>3, <1>7, <2>1 DEF RecvRmService
<1>8. CASE RecvPayload(r)
  <2>1. m \in Messages /\ m.kind = "payload"
    BY <1>1, <1>8, ReceiveType DEF RecvPayload
  <2>2. m.item \in Payloads
    BY <2>1, MessageFields
  <2>3. CASE r \in known /\ owner' = [owner EXCEPT ![m.item] = r]
               /\ UNCHANGED <<known, tsvc>>
    <3>1. Routes!Carry(r, m.item)
      BY <2>2, <2>3, Carries
    <3> QED BY <1>2, <2>2, <3>1 DEF Routes!Next
  <2> QED BY <1>3, <1>8, <2>3 DEF RecvPayload
<1>9. CASE RecvRmPayload(r)
  <2>1. CASE owner' = [owner EXCEPT ![m.item] = IF @ = r THEN NoRegion ELSE @]
               /\ UNCHANGED <<known, tsvc>>
    <3>1. \A p \in Payloads : owner'[p] \in {owner[p], NoRegion}
      BY <1>1, <2>1 DEF TypeOK
    <3>2. Routes!Leave
      BY <1>1, <2>1, <3>1, Leaves
    <3> QED BY <3>2 DEF Routes!Next
  <2> QED BY <1>3, <1>9, <2>1 DEF RecvRmPayload
<1> QED BY <1>4, <1>5, <1>6, <1>7, <1>8, <1>9 DEF Deliver

LEMMA MergeEnters ==
  ASSUME TypeOK, TypeOK', NEW r \in Regions, NEW i, r \notin known, Merge(r, i)
  PROVE  Routes!Enter(r)
<1>1. r \in Ids /\ known' = known \cup {r}
  BY DEF Ids, Merge
<1>2. PICK c : tsvc' = [tsvc EXCEPT ![r] = c]
  BY DEF Merge
<1>3. \A q \in Regions \ {r} : tsvc'[q] = tsvc[q]
  BY <1>2 DEF TypeOK
<1>4. PICK product : owner' = [p \in Payloads |-> IF p \in product THEN r ELSE owner[p]]
  BY DEF Merge
<1>5. \A p \in Payloads : owner'[p] \in {owner[p], r}
  BY <1>4
<1> QED BY <1>1, <1>3, <1>5, Enters

LEMMA FactoryStepRoutes ==
  ASSUME IInv, IInv', NEW r \in Regions, FactoryStep(r)
  PROVE  [Routes!Next]_(Routes!vars)
<1>1. TypeOK /\ TypeOK'
  BY DEF IInv
<1>2. ASSUME UNCHANGED tableVars PROVE UNCHANGED Routes!vars
  BY <1>2, Stutters DEF tableVars
<1>3. CASE BuildSnapshot(r) \/ SnapshotFailed(r)
  BY <1>2, <1>3 DEF BuildSnapshot, SnapshotFailed
<1>4. CASE SnapshotDone(r)
  <2>1. ASSUME NEW i, r \notin known, Merge(r, i) PROVE Routes!Next
    <3>1. Routes!Enter(r) /\ r \in Ids
      BY <1>1, <2>1, MergeEnters DEF Ids
    <3> QED BY <3>1 DEF Routes!Next
  <2> QED BY <1>2, <1>4, <2>1 DEF SnapshotDone
<1>5. CASE SnapshotNotStarted(r)
  <2>1. UNCHANGED <<tsvc, owner>> /\ (known' = known \cup {EmptyId} \/ known' = known)
    BY <1>5 DEF SnapshotNotStarted
  <2>2. CASE known' = known
    BY <2>1, <2>2, Stutters
  <2>3. CASE known' = known \cup {EmptyId} /\ EmptyId \notin known
    <3>1. EmptyId \in Ids
      BY DEF Ids
    <3>2. Routes!Enter(EmptyId)
      BY <1>1, <2>1, <2>3, <3>1, Enters
    <3> QED BY <3>1, <3>2 DEF Routes!Next
  <2> QED BY <2>1, <2>2, <2>3
<1> QED BY <1>3, <1>4, <1>5 DEF FactoryStep

LEMMA CheckTimerRoutes ==
  ASSUME IInv, IInv', CheckTimer
  PROVE  Routes!Next
<1>1. TypeOK /\ TypeOK' /\ NoOrphans'
  BY DEF IInv
<1>2. PICK gone, Q, P : Expire(gone, Q, P)
  BY DEF CheckTimer
<1>3. known' \subseteq known
  BY <1>2 DEF Expire
<1>4. \A r \in Regions : tsvc'[r] \subseteq tsvc[r]
  BY <1>2 DEF Expire
<1>5. \A p \in Payloads : owner'[p] \in {owner[p], NoRegion}
  BY <1>2 DEF Expire
<1>6. Routes!Leave
  BY <1>1, <1>3, <1>4, <1>5, Leaves
<1> QED BY <1>6 DEF Routes!Next

LEMMA NextRoutes == IInv /\ IInv' /\ [Next]_vars => [Routes!Next]_(Routes!vars)
<1>1. SUFFICES ASSUME IInv, IInv', [Next]_vars
               PROVE  [Routes!Next]_(Routes!vars)
  OBVIOUS
<1>2. CASE UNCHANGED vars
  BY <1>2, Stutters DEF vars, tableVars
<1>3. ASSUME NEW r \in Regions, RegionStep(r)
      PROVE  UNCHANGED Routes!vars
  <2>1. UNCHANGED tableVars
    BY <1>3 DEF RegionStep, StartRegion, StopRegion, CrashRegion, AddService, RmService,
                AddPayload, RmPayload, Change, PubRegion, PubRepeated, Repeat
  <2> QED BY <2>1, Stutters DEF tableVars
<1>4. CASE RestartTracker
  <2>1. Routes!Leave
    BY <1>1, <1>4, ForgetLeaves DEF RestartTracker, IInv
  <2> QED BY <2>1 DEF Routes!Next
<1> QED BY <1>1, <1>2, <1>3, <1>4, DeliverRoutes, FactoryStepRoutes, CheckTimerRoutes
        DEF Next

LEMMA InitRoutes == Init => Routes!Init
BY DEF Init, Routes!Init, providers, Ids

(* Whatever the regions do and the channels lose, and however snapshots    *)
(* race with publications, the tracker's table is only ever seen to take a *)
(* region in with all it has, to add an entry to a region it has, and to   *)
(* let entries and whole regions go.                                       *)
THEOREM RegionsAreRoutes == Spec => AnswersRoutes
<1>1. Spec => Init /\ []IInv /\ [][Next]_vars
  BY Invariant DEF Spec
<1>2. Init /\ []IInv /\ [][Next]_vars => Routes!Init /\ [][Routes!Next]_(Routes!vars)
  BY InitRoutes, NextRoutes, PTL
<1> QED BY <1>1, <1>2 DEF AnswersRoutes, Routes!Spec

-----------------------------------------------------------------------------
FactoriesInv ==
  /\ TypeOK
  /\ IsFiniteSet(Syncing)
  /\ FactoriesSound

(* Ending factories, and regions that leave the table, do no harm.         *)
LEMMA FewerFactories ==
  ASSUME FactoriesInv, TypeOK', Syncing' \subseteq Syncing,
         known' \cap Regions \subseteq known \cup (Regions \ Syncing')
  PROVE  FactoriesInv'
<1>1. IsFiniteSet(Syncing') /\ Cardinality(Syncing') <= Cardinality(Syncing)
  BY FS_Subset DEF FactoriesInv
<1>2. Cardinality(Syncing) \in Nat /\ Cardinality(Syncing') \in Nat
  BY <1>1, FS_CardinalityType DEF FactoriesInv
<1>3. Cardinality(Syncing') <= Capacity
  <2>1. Cardinality(Syncing) <= Capacity
    BY DEF FactoriesInv, FactoriesSound
  <2> HIDE DEF Syncing
  <2> QED BY <1>1, <1>2, <2>1
<1>4. Syncing' \cap known' = {}
  BY DEF FactoriesInv, FactoriesSound, Syncing
<1> QED BY <1>1, <1>3, <1>4 DEF FactoriesInv, FactoriesSound

LEMMA FactoriesUntouched ==
  ASSUME FactoriesInv, TypeOK', UNCHANGED factory, known' \subseteq known
  PROVE  FactoriesInv'
BY FewerFactories DEF Syncing

LEMMA FactoryEnded ==
  ASSUME FactoriesInv, TypeOK', NEW r \in Regions, EndFactory(r),
         known' \subseteq known \cup {r, EmptyId}
  PROVE  FactoriesInv'
<1>1. Syncing' \subseteq Syncing /\ r \notin Syncing'
  BY DEF Syncing, EndFactory, FactoriesInv, TypeOK
<1>2. known' \cap Regions \subseteq known \cup (Regions \ Syncing')
  BY <1>1
<1> QED BY <1>1, <1>2, FewerFactories

LEMMA FactoryStarted ==
  ASSUME FactoriesInv, TypeOK', NEW r \in Regions, NEW m, StartFactory(r, m),
         r \notin Syncing, r \notin known, Cardinality(Syncing) < Capacity,
         UNCHANGED known
  PROVE  FactoriesInv'
<1>1. Syncing' = Syncing \cup {r}
  BY DEF Syncing, StartFactory, FactoriesInv, TypeOK
<1>2. /\ IsFiniteSet(Syncing')
      /\ Cardinality(Syncing') = Cardinality(Syncing) + 1
      /\ Cardinality(Syncing) \in Nat
  BY <1>1, FS_AddElement, FS_CardinalityType DEF FactoriesInv
<1>3. Cardinality(Syncing') <= Capacity
  <2> HIDE DEF Syncing
  <2> QED BY <1>2
<1>4. Syncing' \cap known' = {}
  <2> HIDE DEF Syncing
  <2> QED BY <1>1 DEF FactoriesInv, FactoriesSound
<1> QED BY <1>2, <1>3, <1>4 DEF FactoriesInv, FactoriesSound

LEMMA DeliverFactories ==
  ASSUME FactoriesInv, TypeOK', NEW r \in Regions, Deliver(r)
  PROVE  FactoriesInv'
<1> DEFINE m == Head(chan[r])
<1>1. ASSUME UNCHANGED tableVars, PassOn(r, m) PROVE FactoriesInv'
  BY <1>1, FactoriesUntouched DEF PassOn, Cache, tableVars, factoryVars
<1>2. CASE RecvRegion(r)
  <2>1. CASE UNCHANGED <<known, factory>>
    BY <2>1, FactoriesUntouched
  <2>2. CASE /\ r \notin known /\ UNCHANGED known
             /\ r \notin Syncing /\ Cardinality(Syncing) < Capacity /\ StartFactory(r, m)
    BY <2>2, FactoryStarted
  <2> QED BY <1>2, <2>1, <2>2 DEF RecvRegion, SyncRegion, Cache, tableVars, factoryVars
<1>3. CASE RecvRmRegion(r)
  <2>1. CASE Forget({r}) /\ UNCHANGED factoryVars
    BY <2>1, FactoriesUntouched DEF Forget, factoryVars
  <2>2. CASE EndFactory(r) /\ UNCHANGED tableVars
    BY <2>2, FactoryEnded DEF tableVars
  <2> QED BY <1>3, <2>1, <2>2 DEF RecvRmRegion
<1>4. CASE RecvService(r) \/ RecvRmService(r) \/ RecvPayload(r) \/ RecvRmPayload(r)
  <2>1. CASE UNCHANGED <<known, factoryVars>>
    BY <2>1, FactoriesUntouched DEF factoryVars
  <2> QED BY <1>1, <1>4, <2>1
          DEF RecvService, RecvRmService, RecvPayload, RecvRmPayload
<1> QED BY <1>2, <1>3, <1>4 DEF Deliver

LEMMA FactoryStepFactories ==
  ASSUME FactoriesInv, TypeOK', NEW r \in Regions, FactoryStep(r)
  PROVE  FactoriesInv'
<1>1. CASE BuildSnapshot(r)
  <2>1. Syncing' = Syncing /\ UNCHANGED known
    BY <1>1 DEF BuildSnapshot, Syncing, tableVars, FactoriesInv, TypeOK
  <2> QED BY <2>1, FewerFactories
<1>2. CASE SnapshotDone(r)
  <2>1. EndFactory(r) /\ known' \subseteq known \cup {r, EmptyId}
    BY <1>2 DEF SnapshotDone, Merge, tableVars
  <2> QED BY <2>1, FactoryEnded
<1>3. CASE SnapshotFailed(r)
  BY <1>3, FactoryEnded DEF SnapshotFailed, tableVars
<1>4. CASE SnapshotNotStarted(r)
  <2>1. EndFactory(r) /\ known' \subseteq known \cup {r, EmptyId}
    BY <1>4 DEF SnapshotNotStarted
  <2> QED BY <2>1, FactoryEnded
<1> QED BY <1>1, <1>2, <1>3, <1>4 DEF FactoryStep

LEMMA InitFactories == Init => FactoriesInv
<1>1. SUFFICES ASSUME Init PROVE FactoriesInv
  OBVIOUS
<1>2. Syncing = {}
  BY <1>1 DEF Init, Syncing
<1>3. IsFiniteSet(Syncing) /\ Cardinality(Syncing) = 0
  BY <1>2, FS_EmptySet
<1>4. FactoriesSound
  <2> HIDE DEF Syncing
  <2> QED BY <1>2, <1>3 DEF FactoriesSound
<1> QED BY <1>1, <1>3, <1>4, InitType DEF FactoriesInv

LEMMA NextFactories == FactoriesInv /\ [Next]_vars => FactoriesInv'
<1>1. SUFFICES ASSUME FactoriesInv, [Next]_vars PROVE FactoriesInv'
  OBVIOUS
<1>2. TypeOK'
  BY <1>1, NextType DEF FactoriesInv
<1>3. CASE UNCHANGED vars
  BY <1>1, <1>2, <1>3, FactoriesUntouched DEF vars, tableVars, factoryVars
<1>4. ASSUME NEW r \in Regions, RegionStep(r) PROVE FactoriesInv'
  <2>1. UNCHANGED <<tableVars, factoryVars>>
    BY <1>4 DEF RegionStep, StartRegion, StopRegion, CrashRegion, AddService, RmService,
                AddPayload, RmPayload, Change, PubRegion, PubRepeated, Repeat
  <2> QED BY <1>1, <1>2, <2>1, FactoriesUntouched DEF tableVars, factoryVars
<1>5. CASE CheckTimer
  <2>1. known' \subseteq known /\ UNCHANGED factoryVars
    BY <1>5 DEF CheckTimer, Expire
  <2> QED BY <1>1, <1>2, <2>1, FactoriesUntouched DEF factoryVars
<1>6. CASE RestartTracker
  <2>1. known' \subseteq known /\ Syncing' = {}
    BY <1>6 DEF RestartTracker, Forget, Syncing
  <2> QED BY <1>1, <1>2, <2>1, FewerFactories
<1> QED BY <1>1, <1>2, <1>3, <1>4, <1>5, <1>6, DeliverFactories, FactoryStepFactories
        DEF Next

(* PubTracker's factories never exceed its capacity, and none runs for a   *)
(* region the table already has, so that merge refuses no product.         *)
THEOREM FactoriesAlwaysSound == Spec => []FactoriesSound
<1>1. FactoriesInv => FactoriesSound
  BY DEF FactoriesInv
<1> QED BY <1>1, InitFactories, NextFactories, PTL DEF Spec
=============================================================================

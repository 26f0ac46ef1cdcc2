----------------------- MODULE RegionSyncOrderProofs -----------------------
(***************************************************************************)
(* NoRollback and LosslessExact hold of RegionSync, for any regions, items *)
(* and bounds.                                                             *)
(*                                                                         *)
(* In the first run of a region its versions reach the tracker in order:   *)
(* the channel is FIFO, every message carries the version the table has    *)
(* when it is sent, and what a factory caches came before what is still on *)
(* its way.  The product of a merge has the version of the last update     *)
(* cached, so nothing that arrives after the merge is older.  A farewell   *)
(* carries version 0, but removes the entry.                               *)
(*                                                                         *)
(* With nothing lost the versions are moreover a chain without a gap, in   *)
(* which each new one comes with the change that made it, from the entry   *)
(* or the cache through the channel to the region; and nothing of a region *)
(* that is followed times out.                                             *)
(***************************************************************************)
EXTENDS RegionSyncProofs

USE ConstantsAssumption

-----------------------------------------------------------------------------
(* The order of one region's versions.                                     *)

(* No message of c but a farewell is older than x.                         *)
NotBefore(c, x) == \A k \in 1..Len(c) : c[k].kind # "rmregion" => x <= c[k].ver

(* The channel c, the cache u, the entry's version t if the region has one *)
(* in the table, and the region's version v.                               *)
InOrder(c, u, entered, t, v) ==
  /\ \A j, k \in 1..Len(c) :
       j < k /\ c[j].kind # "rmregion" /\ c[k].kind # "rmregion" => c[j].ver <= c[k].ver
  /\ \A k \in 1..Len(c) : c[k].kind # "rmregion" => c[k].ver <= v
  /\ \A j \in 1..Len(u) : u[j].ver <= v /\ NotBefore(c, u[j].ver)
  /\ entered => t <= v /\ NotBefore(c, t)

OrderInv ==
  /\ TypeOK
  /\ \A r \in Regions :
       /\ inc[r] = 0 => version[r] = 0 /\ r \notin alive
       /\ inc[r] <= 1 => InOrder(chan[r], updates[r], r \in known, tver[r], version[r])

NoVersionBack ==
  \A r \in known \cap known' \cap Regions : inc[r] = 1 => tver'[r] >= tver[r]

LEMMA NothingInOrder ==
  ASSUME NEW v \in Nat, NEW t
  PROVE  InOrder(<<>>, <<>>, FALSE, t, v)
BY DEF InOrder

LEMMA SentInOrder ==
  ASSUME NEW c \in Seq(Messages), NEW u \in Seq(Messages), NEW entered, NEW t \in Nat,
         NEW v \in Nat, NEW w \in Nat, v <= w, InOrder(c, u, entered, t, v),
         NEW m \in Messages, m.kind = "rmregion" \/ m.ver = w
  PROVE  /\ InOrder(Append(c, m), u, entered, t, w)
         /\ InOrder(c, u, entered, t, w)
<1> DEFINE d == Append(c, m)
<1>1. /\ Len(d) = Len(c) + 1 /\ Len(c) \in Nat /\ d[Len(d)] = m
      /\ \A k \in 1..Len(c) : d[k] = c[k] /\ c[k].ver \in Nat
  BY MessageFields
<1>2. \A j \in 1..Len(u) : u[j].ver \in Nat
  BY MessageFields
<1>3. m.ver \in Nat
  BY MessageFields
<1>4. ASSUME NEW x \in Nat, x <= v, NotBefore(c, x)
      PROVE  NotBefore(d, x)
  BY <1>1, <1>3, <1>4 DEF NotBefore
<1>5. \A j \in 1..Len(u) : u[j].ver <= w /\ NotBefore(d, u[j].ver)
  BY <1>2, <1>4 DEF InOrder
<1>6. entered => t <= w /\ NotBefore(d, t)
  BY <1>4 DEF InOrder
<1>7. \A k \in 1..Len(c) : c[k].kind # "rmregion" => c[k].ver <= w
  BY <1>1 DEF InOrder
<1>8. \A k \in 1..Len(d) : d[k].kind # "rmregion" => d[k].ver <= w
  BY <1>1, <1>3, <1>7
<1>9. \A j, k \in 1..Len(d) :
        j < k /\ d[j].kind # "rmregion" /\ d[k].kind # "rmregion" => d[j].ver <= d[k].ver
  <2>1. SUFFICES ASSUME NEW j \in 1..Len(d), NEW k \in 1..Len(d), j < k,
                        d[j].kind # "rmregion", d[k].kind # "rmregion"
                 PROVE  d[j].ver <= d[k].ver
    OBVIOUS
  <2>2. j \in 1..Len(c)
    BY <1>1, <2>1
  <2>3. CASE k \in 1..Len(c)
    BY <1>1, <2>1, <2>2, <2>3 DEF InOrder
  <2>4. CASE k = Len(d)
    BY <1>1, <1>7, <2>1, <2>2, <2>4
  <2> QED BY <1>1, <2>3, <2>4
<1>10. InOrder(d, u, entered, t, w)
  <2> HIDE DEF d
  <2> QED BY <1>5, <1>6, <1>8, <1>9 DEF InOrder
<1>11. InOrder(c, u, entered, t, w)
  BY <1>2, <1>7 DEF InOrder
<1> QED BY <1>10, <1>11

(* The head of the channel is dropped, taken as the entry's version, or    *)
(* cached.                                                                 *)
LEMMA ReceivedInOrder ==
  ASSUME NEW c \in Seq(Messages), c # <<>>, NEW u \in Seq(Messages), NEW entered,
         NEW t \in Nat, NEW v \in Nat, InOrder(c, u, entered, t, v)
  PROVE  /\ InOrder(Tail(c), u, entered, t, v)
         /\ Head(c).kind # "rmregion" =>
              /\ InOrder(Tail(c), u, TRUE, Head(c).ver, v)
              /\ InOrder(Tail(c), Append(u, Head(c)), entered, t, v)
              /\ InOrder(Tail(c), <<Head(c)>>, entered, t, v)
<1> DEFINE d == Tail(c)
           m == Head(c)
<1>1. /\ Len(c) \in Nat /\ Len(d) = Len(c) - 1 /\ m = c[1] /\ 1 \in 1..Len(c)
      /\ \A k \in 1..Len(d) : k + 1 \in 1..Len(c) /\ d[k] = c[k + 1]
  OBVIOUS
<1>2. \A x : NotBefore(c, x) => NotBefore(d, x)
  BY <1>1 DEF NotBefore
<1>3. InOrder(d, u, entered, t, v)
  <2>1. \A k \in 1..Len(d) : d[k].kind # "rmregion" => d[k].ver <= v
    BY <1>1 DEF InOrder
  <2>2. \A j, k \in 1..Len(d) :
          j < k /\ d[j].kind # "rmregion" /\ d[k].kind # "rmregion" => d[j].ver <= d[k].ver
    <3>1. SUFFICES ASSUME NEW j \in 1..Len(d), NEW k \in 1..Len(d), j < k,
                          d[j].kind # "rmregion", d[k].kind # "rmregion"
                   PROVE  d[j].ver <= d[k].ver
      OBVIOUS
    <3>2. j + 1 \in 1..Len(c) /\ k + 1 \in 1..Len(c) /\ j + 1 < k + 1
      BY <1>1, <3>1
    <3> QED BY <1>1, <3>1, <3>2 DEF InOrder
  <2>3. /\ \A j \in 1..Len(u) : u[j].ver <= v /\ NotBefore(d, u[j].ver)
        /\ entered => t <= v /\ NotBefore(d, t)
    BY <1>2 DEF InOrder
  <2> HIDE DEF d
  <2> QED BY <2>1, <2>2, <2>3 DEF InOrder
<1>4. ASSUME m.kind # "rmregion"
      PROVE  m.ver <= v /\ NotBefore(d, m.ver)
  <2>1. \A k \in 1..Len(d) : 1 < k + 1
    BY <1>1
  <2>2. NotBefore(d, m.ver)
    BY <1>1, <1>4, <2>1 DEF InOrder, NotBefore
  <2> QED BY <1>1, <1>4, <2>2 DEF InOrder, NotBefore
<1>5. \A j \in 1..Len(Append(u, m)) : Append(u, m)[j] = m \/ (j \in 1..Len(u) /\ Append(u, m)[j] = u[j])
  OBVIOUS
<1>6. \A j \in 1..Len(<<m>>) : <<m>>[j] = m
  OBVIOUS
<1> HIDE DEF d, m
<1>7. ASSUME m.kind # "rmregion"
      PROVE  /\ InOrder(d, u, TRUE, m.ver, v)
             /\ InOrder(d, Append(u, m), entered, t, v)
             /\ InOrder(d, <<m>>, entered, t, v)
  BY <1>3, <1>4, <1>5, <1>6, <1>7 DEF InOrder
<1> QED BY <1>3, <1>7 DEF d, m

(* It is not older than the entry.                                         *)
LEMMA ReceivedNotOlder ==
  ASSUME NEW c \in Seq(Messages), c # <<>>, NEW u, NEW t, NEW v,
         InOrder(c, u, TRUE, t, v), Head(c).kind # "rmregion"
  PROVE  t <= Head(c).ver
<1>1. Head(c) = c[1] /\ 1 \in 1..Len(c)
  OBVIOUS
<1> QED BY <1>1 DEF InOrder, NotBefore

(* The cache, or the entry, goes.                                          *)
LEMMA LessInOrder ==
  ASSUME NEW c, NEW u, NEW entered, NEW t, NEW v, InOrder(c, u, entered, t, v), NEW x
  PROVE  /\ InOrder(c, <<>>, entered, t, v)
         /\ InOrder(c, u, FALSE, x, v)
         /\ InOrder(c, <<>>, FALSE, x, v)
BY DEF InOrder

(* The product's version is that of the last update.                       *)
LEMMA MergedInOrder ==
  ASSUME NEW c, NEW u \in Seq(Messages), NEW entered, NEW t, NEW v,
         InOrder(c, u, entered, t, v),
         NEW x \in Nat, NEW i, FirstMatch(u, x, i), Consecutive(u, x, i)
  PROVE  InOrder(c, <<>>, TRUE, x + (Len(u) - i), v)
<1>1. Len(u) \in Nat /\ i \in 1..Len(u) /\ Len(u) \in 1..Len(u)
  BY DEF FirstMatch
<1>2. u[Len(u)].ver = x + (Len(u) - i)
  <2>1. CASE i = Len(u)
    BY <1>1, <2>1 DEF FirstMatch
  <2>2. CASE i < Len(u)
    BY <1>1, <2>2 DEF Consecutive
  <2> QED BY <1>1, <2>1, <2>2
<1>3. u[Len(u)].ver <= v /\ NotBefore(c, u[Len(u)].ver)
  BY <1>1 DEF InOrder
<1> QED BY <1>2, <1>3 DEF InOrder

-----------------------------------------------------------------------------
(* The steps.                                                              *)

Kept(q) ==
  /\ UNCHANGED <<inc[q], version[q], chan[q], updates[q], tver[q]>>
  /\ q \in known' <=> q \in known
  /\ q \in alive' <=> q \in alive

(* The step of a region r, which keeps what belongs to the others.         *)
LEMMA StepInOrder ==
  ASSUME OrderInv, TypeOK', NEW r \in Regions,
         \A q \in Regions \ {r} : Kept(q),
         inc'[r] = 0 => version'[r] = 0 /\ r \notin alive',
         inc'[r] <= 1 =>
           InOrder(chan'[r], updates'[r], r \in known', tver'[r], version'[r])
  PROVE  OrderInv'
BY DEF OrderInv, Kept

LEMMA InvTypes ==
  ASSUME OrderInv, NEW r \in Regions
  PROVE  /\ chan[r] \in Seq(Messages) /\ updates[r] \in Seq(Messages)
         /\ tver[r] \in Nat /\ version[r] \in Nat /\ inc[r] \in Nat
         /\ snap[r].ver \in Nat
BY DEF OrderInv, TypeOK, Snapshots

LEMMA PublishInOrder ==
  ASSUME OrderInv, TypeOK', NEW r \in Regions, NEW m \in Messages, Publish(r, m),
         version' = [version EXCEPT ![r] = version'[r]],
         inc' = [inc EXCEPT ![r] = inc'[r]],
         \A q \in Regions \ {r} : q \in alive' <=> q \in alive,
         UNCHANGED <<tableVars, factoryVars>>,
         inc'[r] <= 1 => inc[r] <= 1 /\ inc'[r] # 0 /\ version[r] <= version'[r],
         m.kind = "rmregion" \/ m.ver = version'[r]
  PROVE  OrderInv' /\ NoVersionBack
<1>1. /\ UNCHANGED <<known, tver, updates>>
      /\ chan' \in [Regions -> Seq(Messages)]
      /\ version \in [Regions -> 0..MaxVersion] /\ version' \in [Regions -> 0..MaxVersion]
      /\ inc \in [Regions -> 0..MaxInc] /\ inc' \in [Regions -> 0..MaxInc]
  BY DEF tableVars, factoryVars, OrderInv, TypeOK
<1>2. chan'[r] = Append(chan[r], m) \/ chan'[r] = chan[r]
  BY DEF Publish, OrderInv, TypeOK
<1>3. \A q \in Regions \ {r} : Kept(q)
  <2>1. \A q \in Regions \ {r} : chan'[q] = chan[q]
    BY DEF Publish, OrderInv, TypeOK
  <2> QED BY <1>1, <2>1 DEF Kept
<1>4. ASSUME inc'[r] <= 1
      PROVE  InOrder(chan'[r], updates[r], r \in known, tver[r], version'[r])
  <2>1. InOrder(chan[r], updates[r], r \in known, tver[r], version[r])
    BY <1>4 DEF OrderInv
  <2>2. version'[r] \in Nat
    BY <1>1
  <2>3. /\ InOrder(Append(chan[r], m), updates[r], r \in known, tver[r], version'[r])
        /\ InOrder(chan[r], updates[r], r \in known, tver[r], version'[r])
    BY <1>4, <2>1, <2>2, InvTypes, SentInOrder
  <2> QED BY <1>2, <2>3
<1>5. inc'[r] = 0 => version'[r] = 0 /\ r \notin alive'
  BY <1>1
<1>6. OrderInv'
  BY <1>1, <1>3, <1>4, <1>5, StepInOrder
<1>7. NoVersionBack
  BY <1>1, InvTypes DEF NoVersionBack
<1> QED BY <1>6, <1>7

LEMMA RegionStepInOrder ==
  ASSUME OrderInv, NEW r \in Regions, RegionStep(r)
  PROVE  OrderInv' /\ NoVersionBack
<1>1. /\ TypeOK' /\ TypeOK
  BY RegionStepType DEF OrderInv
<1>2. /\ version \in [Regions -> 0..MaxVersion] /\ inc \in [Regions -> 0..MaxInc]
      /\ 0 \in 0..MaxVersion
  <2>1. version \in [Regions -> 0..MaxVersion] /\ inc \in [Regions -> 0..MaxInc]
    BY <1>1, Zenon DEF TypeOK
  <2> QED BY <2>1
<1>3. \A x \in 0..MaxVersion : [version EXCEPT ![r] = x][r] = x
  BY <1>2
<1>4. \A x \in 0..MaxInc : [inc EXCEPT ![r] = x][r] = x
  BY <1>2
<1>5. version = [version EXCEPT ![r] = version[r]] /\ inc = [inc EXCEPT ![r] = inc[r]]
  BY <1>2
<1>6. r \in alive => inc[r] # 0
  BY DEF OrderInv
<1>7. CASE StartRegion(r)
  <2> DEFINE m == Message("region", 0, NoItem, inc[r] + 1, FALSE)
  <2>1. inc[r] + 1 \in 0..MaxInc
    BY <1>2, <1>7 DEF StartRegion
  <2>2. m \in Messages /\ m.kind = "region" /\ m.ver = 0
    BY <1>2, <2>1 DEF Messages, MessagesOf, Message
  <2>3. version' = [version EXCEPT ![r] = 0] /\ inc' = [inc EXCEPT ![r] = inc[r] + 1]
    BY <1>7 DEF StartRegion
  <2>4. version'[r] = 0 /\ inc'[r] = inc[r] + 1
    BY <1>2, <1>3, <1>4, <2>1, <2>3
  <2>5. inc'[r] <= 1 => inc[r] <= 1 /\ inc'[r] # 0 /\ version[r] <= version'[r]
    <3>1. inc'[r] <= 1 => inc[r] = 0
      BY <1>2, <2>4
    <3> QED BY <1>2, <2>4, <3>1 DEF OrderInv
  <2>6. Publish(r, m) /\ UNCHANGED <<tableVars, factoryVars>>
    BY <1>7 DEF StartRegion
  <2>7. \A q \in Regions \ {r} : q \in alive' <=> q \in alive
    BY <1>7 DEF StartRegion
  <2> HIDE DEF m
  <2> QED BY <1>1, <2>2, <2>3, <2>4, <2>5, <2>6, <2>7, PublishInOrder
<1>8. ASSUME NEW kind, NEW item, NEW c, Change(r, kind, item, c), r \in alive,
             version[r] < MaxVersion => Message(kind, version[r] + 1, item, inc[r], TRUE) \in Messages
      PROVE  OrderInv' /\ NoVersionBack
  <2> DEFINE m == Message(kind, version[r] + 1, item, inc[r], TRUE)
  <2>0. version[r] < MaxVersion
    BY <1>8 DEF Change
  <2>1. version[r] + 1 \in 0..MaxVersion /\ m \in Messages
    <3>1. version[r] + 1 \in 0..MaxVersion
      BY <1>2, <2>0
    <3>2. m \in Messages
      BY <1>8, <2>0
    <3> QED BY <3>1, <3>2
  <2>2. m.ver = version[r] + 1
    BY DEF Message
  <2>3. version' = [version EXCEPT ![r] = version[r] + 1] /\ inc' = inc /\ alive' = alive
    BY <1>8 DEF Change
  <2>4. version'[r] = version[r] + 1
    BY <1>3, <2>1, <2>3
  <2>5. inc'[r] # 0 /\ version[r] <= version'[r] /\ inc' = [inc EXCEPT ![r] = inc'[r]]
    BY <1>2, <1>5, <1>6, <1>8, <2>3, <2>4
  <2>6. Publish(r, m) /\ UNCHANGED <<tableVars, factoryVars>>
    BY <1>8 DEF Change
  <2> HIDE DEF m
  <2> QED BY <1>1, <2>1, <2>2, <2>3, <2>4, <2>5, <2>6, PublishInOrder
<1>9. ASSUME NEW s \in Services, AddService(r, s) \/ RmService(r, s)
      PROVE  OrderInv' /\ NoVersionBack
  <2>1. version[r] < MaxVersion =>
          /\ Message("service", version[r] + 1, s, inc[r], TRUE) \in Messages
          /\ Message("rmservice", version[r] + 1, s, inc[r], TRUE) \in Messages
    BY <1>2 DEF Messages, MessagesOf, Message
  <2> QED BY <1>8, <1>9, <2>1 DEF AddService, RmService
<1>10. ASSUME NEW p \in Payloads, AddPayload(r, p) \/ RmPayload(r, p)
       PROVE  OrderInv' /\ NoVersionBack
  <2>1. version[r] < MaxVersion =>
          /\ Message("payload", version[r] + 1, p, inc[r], TRUE) \in Messages
          /\ Message("rmpayload", version[r] + 1, p, inc[r], TRUE) \in Messages
    BY <1>2 DEF Messages, MessagesOf, Message
  <2> QED BY <1>8, <1>10, <2>1 DEF AddPayload, RmPayload
<1>11. ASSUME NEW kind, NEW item, Repeat(r, kind, item),
              Message(kind, version[r], item, inc[r], FALSE) \in Messages
       PROVE  OrderInv' /\ NoVersionBack
  <2> DEFINE m == Message(kind, version[r], item, inc[r], FALSE)
  <2>1. m \in Messages /\ m.ver = version[r]
    BY <1>11 DEF Message
  <2>2. /\ version' = version /\ inc' = inc /\ alive' = alive
        /\ Publish(r, m) /\ UNCHANGED <<tableVars, factoryVars>> /\ r \in alive
    BY <1>11 DEF Repeat, regionVars
  <2>3. version'[r] = version[r] /\ inc'[r] # 0 /\ version[r] <= version'[r]
    BY <1>2, <1>6, <2>2
  <2>4. version' = [version EXCEPT ![r] = version'[r]] /\ inc' = [inc EXCEPT ![r] = inc'[r]]
    BY <1>5, <2>2
  <2> HIDE DEF m
  <2> QED BY <1>1, <2>1, <2>2, <2>3, <2>4, PublishInOrder
<1>12. CASE PubRegion(r) \/ PubRepeated(r)
  BY <1>2, <1>11, <1>12 DEF PubRegion, PubRepeated, Messages, MessagesOf, Message
<1>13. CASE StopRegion(r)
  <2> DEFINE m == Message("rmregion", 0, NoItem, inc[r], FALSE)
  <2>1. m \in Messages /\ m.kind = "rmregion"
    BY <1>2 DEF Messages, MessagesOf, Message
  <2>2. /\ version' = version /\ inc' = inc /\ alive' = alive \ {r} /\ r \in alive
        /\ Publish(r, m) /\ UNCHANGED <<tableVars, factoryVars>>
    BY <1>13 DEF StopRegion
  <2>3. version'[r] = version[r] /\ inc'[r] # 0 /\ version[r] <= version'[r]
    BY <1>2, <1>6, <2>2
  <2>4. version' = [version EXCEPT ![r] = version'[r]] /\ inc' = [inc EXCEPT ![r] = inc'[r]]
    BY <1>5, <2>2
  <2> HIDE DEF m
  <2> QED BY <1>1, <2>1, <2>2, <2>3, <2>4, PublishInOrder
<1>14. CASE CrashRegion(r)
  <2>1. /\ UNCHANGED <<inc, version, chan, updates, known, tver>>
        /\ alive' = alive \ {r}
    BY <1>14 DEF CrashRegion, tableVars, factoryVars
  <2>2. OrderInv'
    BY <1>1, <2>1 DEF OrderInv
  <2>3. NoVersionBack
    BY <1>1, <2>1, InvTypes DEF NoVersionBack
  <2> QED BY <2>2, <2>3
<1> QED BY <1>7, <1>9, <1>10, <1>12, <1>13, <1>14 DEF RegionStep

(* A message is taken off the channel.                                     *)
LEMMA DeliverInOrder ==
  ASSUME OrderInv, NEW r \in Regions, Deliver(r)
  PROVE  OrderInv' /\ NoVersionBack
<1> DEFINE m == Head(chan[r])
<1>1. TypeOK /\ TypeOK'
  BY DeliverType DEF OrderInv
<1>2. PICK kind : Receive(r, kind)
  BY DEF Deliver, RecvRegion, RecvRmRegion, RecvService, RecvRmService,
     RecvPayload, RecvRmPayload
<1>3. /\ m \in Messages /\ chan[r] \in Seq(Messages) /\ chan[r] # <<>>
      /\ chan' = [chan EXCEPT ![r] = Tail(@)]
      /\ UNCHANGED <<alive, inc, version>>
  BY <1>1, <1>2, ReceiveType
<1>4. chan'[r] = Tail(chan[r]) /\ \A q \in Regions \ {r} : chan'[q] = chan[q]
  BY <1>1, <1>3 DEF TypeOK
<1>5. /\ known \subseteq Regions \cup {EmptyId}
      /\ tver \in [Regions -> 0..MaxVersion] /\ updates \in [Regions -> Seq(Messages)]
      /\ \A q \in Regions : inc'[q] = inc[q] /\ tver[q] \in Nat /\ tver[q] >= tver[q]
  <2>1. /\ known \subseteq Regions \cup {EmptyId}
        /\ tver \in [Regions -> 0..MaxVersion] /\ updates \in [Regions -> Seq(Messages)]
    BY <1>1, Zenon DEF TypeOK
  <2>2. \A q \in Regions : tver[q] \in Nat
    BY <2>1
  <2> QED BY <1>3, <2>1, <2>2
<1>6. ASSUME \A q \in Regions \ {r} :
               updates'[q] = updates[q] /\ tver'[q] = tver[q] /\ (q \in known' <=> q \in known),
             inc[r] <= 1 =>
               InOrder(Tail(chan[r]), updates'[r], r \in known', tver'[r], version[r]),
             inc[r] = 1 /\ r \in known \cap known' => tver'[r] >= tver[r]
      PROVE  OrderInv' /\ NoVersionBack
  <2>1. \A q \in Regions \ {r} : Kept(q)
    BY <1>3, <1>4, <1>6 DEF Kept
  <2>2. inc'[r] = 0 => version'[r] = 0 /\ r \notin alive'
    BY <1>3 DEF OrderInv
  <2>3. inc'[r] <= 1 =>
          InOrder(chan'[r], updates'[r], r \in known', tver'[r], version'[r])
    BY <1>3, <1>4, <1>6
  <2>4. OrderInv'
    BY <1>1, <2>1, <2>2, <2>3, StepInOrder
  <2>5. NoVersionBack
    BY <1>5, <1>6 DEF NoVersionBack
  <2> QED BY <2>4, <2>5
<1>7. inc[r] <= 1 =>
        /\ InOrder(Tail(chan[r]), updates[r], r \in known, tver[r], version[r])
        /\ m.kind # "rmregion" =>
             /\ InOrder(Tail(chan[r]), updates[r], TRUE, m.ver, version[r])
             /\ InOrder(Tail(chan[r]), Append(updates[r], m), r \in known, tver[r], version[r])
             /\ InOrder(Tail(chan[r]), <<m>>, r \in known, tver[r], version[r])
  <2>1. inc[r] <= 1 => InOrder(chan[r], updates[r], r \in known, tver[r], version[r])
    BY DEF OrderInv
  <2> QED BY <1>3, <2>1, InvTypes, ReceivedInOrder
<1>8. m.ver \in Nat
  BY <1>3, MessageFields
<1> HIDE DEF m
<1>9. ASSUME m.kind # "rmregion", r \in known, Track(r, m), UNCHANGED <<known, updates>>
      PROVE  OrderInv' /\ NoVersionBack
  <2>1. tver'[r] = m.ver /\ \A q \in Regions \ {r} : tver'[q] = tver[q]
    BY <1>5, <1>9 DEF Track
  <2>4. inc[r] <= 1 => tver[r] <= m.ver
    <3>1. inc[r] <= 1 => InOrder(chan[r], updates[r], TRUE, tver[r], version[r])
      BY <1>9 DEF OrderInv
    <3> QED BY <1>3, <1>9, <3>1, ReceivedNotOlder DEF m
  <2>2. inc[r] = 1 => tver'[r] >= tver[r]
    BY <1>5, <1>8, <2>1, <2>4
  <2>3. inc[r] <= 1 =>
          InOrder(Tail(chan[r]), updates'[r], r \in known', tver'[r], version[r])
    <3>1. (r \in known') = TRUE
      BY <1>9
    <3> QED BY <1>7, <1>9, <2>1, <3>1
  <2> QED BY <1>6, <1>9, <2>1, <2>2, <2>3
<1>10. ASSUME UNCHANGED <<known, tver>>, \A q \in Regions \ {r} : updates'[q] = updates[q],
              \/ updates'[r] = updates[r]
              \/ m.kind # "rmregion" /\ updates'[r] \in {Append(updates[r], m), <<m>>}
              \/ updates'[r] = <<>>
       PROVE  OrderInv' /\ NoVersionBack
  <2>1. inc[r] <= 1 =>
          InOrder(Tail(chan[r]), updates'[r], r \in known, tver[r], version[r])
    <3>1. CASE updates'[r] = updates[r]
      BY <1>7, <3>1
    <3>2. CASE updates'[r] = <<>>
      BY <1>7, <3>2 DEF InOrder
    <3>3. CASE m.kind # "rmregion" /\ updates'[r] = Append(updates[r], m)
      BY <1>7, <3>3, Zenon
    <3>4. CASE m.kind # "rmregion" /\ updates'[r] = <<m>>
      BY <1>7, <3>4, Zenon
    <3> QED BY <1>10, <3>1, <3>2, <3>3, <3>4
  <2>2. (r \in known') = (r \in known) /\ tver'[r] = tver[r]
    BY <1>10
  <2>3. inc[r] <= 1 =>
          InOrder(Tail(chan[r]), updates'[r], r \in known', tver'[r], version[r])
    BY <2>1, <2>2
  <2> QED BY <1>5, <1>6, <1>10, <2>3
<1>11. ASSUME m.kind # "rmregion", PassOn(r, m), UNCHANGED tableVars
       PROVE  OrderInv' /\ NoVersionBack
  BY <1>5, <1>10, <1>11 DEF PassOn, Cache, tableVars, factoryVars
<1>12. CASE RecvRegion(r)
  <2>1. m.kind # "rmregion"
    BY <1>12 DEF RecvRegion, Receive, m
  <2>2. CASE r \in known /\ Track(r, m) /\ UNCHANGED <<known, tsvc, owner, factoryVars>>
    BY <1>9, <2>1, <2>2 DEF factoryVars
  <2>3. CASE SyncRegion(r, m) /\ UNCHANGED tableVars
    <3>1. updates' = updates \/ updates' = [updates EXCEPT ![r] = Append(@, m)]
          \/ updates' = [updates EXCEPT ![r] = <<m>>]
      BY <2>3 DEF SyncRegion, Cache, StartFactory, factoryVars
    <3> QED BY <1>5, <1>10, <2>1, <2>3, <3>1 DEF tableVars
  <2> QED BY <1>12, <2>2, <2>3 DEF RecvRegion, m
<1>13. CASE RecvRmRegion(r)
  <2>1. CASE Forget({r}) /\ UNCHANGED factoryVars
    <3>1. /\ r \notin known' /\ updates' = updates
          /\ \A q \in Regions \ {r} : tver'[q] = tver[q] /\ (q \in known' <=> q \in known)
      BY <2>1 DEF Forget, factoryVars
    <3>2. (r \in known') = FALSE
      BY <3>1
    <3>3. inc[r] <= 1 => InOrder(Tail(chan[r]), updates[r], FALSE, tver'[r], version[r])
      BY <1>7, LessInOrder
    <3>4. inc[r] <= 1 =>
            InOrder(Tail(chan[r]), updates'[r], r \in known', tver'[r], version[r])
      BY <3>1, <3>2, <3>3
    <3> QED BY <1>6, <3>1, <3>4
  <2>2. CASE EndFactory(r) /\ UNCHANGED tableVars
    BY <1>5, <1>10, <2>2 DEF EndFactory, tableVars
  <2> QED BY <1>13, <2>1, <2>2 DEF RecvRmRegion
<1>14. CASE \/ RecvService(r) \/ RecvRmService(r)
            \/ RecvPayload(r) \/ RecvRmPayload(r)
  <2>1. m.kind # "rmregion"
    BY <1>14 DEF RecvService, RecvRmService, RecvPayload, RecvRmPayload, Receive, m
  <2>2. \/ r \in known /\ Track(r, m) /\ UNCHANGED <<known, factoryVars>>
        \/ PassOn(r, m) /\ UNCHANGED tableVars
    BY <1>14 DEF RecvService, RecvRmService, RecvPayload, RecvRmPayload, m
  <2> QED BY <1>9, <1>11, <2>1, <2>2 DEF factoryVars
<1> QED BY <1>12, <1>13, <1>14 DEF Deliver

(* A factory builds, merges, fails or is dropped.                          *)
LEMMA FactoryStepInOrder ==
  ASSUME OrderInv, NEW r \in Regions, FactoryStep(r)
  PROVE  OrderInv' /\ NoVersionBack
<1>1. TypeOK /\ TypeOK'
  BY FactoryStepType DEF OrderInv
<1>2. UNCHANGED <<regionVars, chan, losses>>
  BY DEF FactoryStep, BuildSnapshot, SnapshotDone, SnapshotFailed, SnapshotNotStarted
<1>3. /\ UNCHANGED <<alive, inc, version, chan>>
      /\ updates \in [Regions -> Seq(Messages)] /\ tver \in [Regions -> 0..MaxVersion]
      /\ \A q \in Regions : tver[q] \in Nat /\ tver[q] >= tver[q]
  <2>1. updates \in [Regions -> Seq(Messages)] /\ tver \in [Regions -> 0..MaxVersion]
    BY <1>1, Zenon DEF TypeOK
  <2>2. \A q \in Regions : tver[q] \in Nat
    BY <2>1
  <2> QED BY <1>2, <2>1, <2>2 DEF regionVars
<1>4. ASSUME \A q \in Regions \ {r} :
               updates'[q] = updates[q] /\ tver'[q] = tver[q] /\ (q \in known' <=> q \in known),
             inc[r] <= 1 =>
               InOrder(chan[r], updates'[r], r \in known', tver'[r], version[r]),
             r \in known => tver'[r] = tver[r]
      PROVE  OrderInv' /\ NoVersionBack
  <2>1. \A q \in Regions \ {r} : Kept(q)
    BY <1>3, <1>4 DEF Kept
  <2>2. inc'[r] = 0 => version'[r] = 0 /\ r \notin alive'
    BY <1>3 DEF OrderInv
  <2>3. inc'[r] <= 1 =>
          InOrder(chan'[r], updates'[r], r \in known', tver'[r], version'[r])
    BY <1>3, <1>4
  <2>4. OrderInv'
    BY <1>1, <2>1, <2>2, <2>3, StepInOrder
  <2>5. NoVersionBack
    BY <1>3, <1>4 DEF NoVersionBack
  <2> QED BY <2>4, <2>5
<1>5. inc[r] <= 1 => InOrder(chan[r], updates[r], r \in known, tver[r], version[r])
  BY DEF OrderInv
<1>6. ASSUME tver' = tver, \A q \in Regions : q \in known' <=> q \in known,
             updates' = updates \/ updates' = [updates EXCEPT ![r] = <<>>]
      PROVE  OrderInv' /\ NoVersionBack
  <2>1. inc[r] <= 1 => InOrder(chan[r], updates'[r], r \in known, tver[r], version[r])
    <3>1. updates'[r] = updates[r] \/ updates'[r] = <<>>
      BY <1>3, <1>6
    <3>2. CASE updates'[r] = updates[r]
      BY <1>5, <3>2
    <3>3. CASE updates'[r] = <<>>
      BY <1>5, <3>3 DEF InOrder
    <3> QED BY <3>1, <3>2, <3>3
  <2>2. (r \in known') = (r \in known) /\ tver'[r] = tver[r]
    BY <1>6
  <2>3. inc[r] <= 1 => InOrder(chan[r], updates'[r], r \in known', tver'[r], version[r])
    BY <2>1, <2>2
  <2> QED BY <1>3, <1>4, <1>6, <2>3
<1>7. CASE BuildSnapshot(r)
  BY <1>6, <1>7 DEF BuildSnapshot, tableVars
<1>8. CASE SnapshotFailed(r)
  BY <1>6, <1>8 DEF SnapshotFailed, EndFactory, tableVars
<1>9. CASE SnapshotNotStarted(r)
  <2>1. \A q \in Regions : q # EmptyId
    OBVIOUS
  <2> QED BY <1>6, <1>9, <2>1 DEF SnapshotNotStarted, EndFactory
<1>10. CASE SnapshotDone(r)
  <2>1. CASE UNCHANGED tableVars
    BY <1>6, <1>10, <2>1 DEF SnapshotDone, EndFactory, tableVars
  <2>2. CASE \E i \in 1..Len(updates[r]) :
               /\ FirstMatch(updates[r], snap[r].ver, i)
               /\ Consecutive(updates[r], snap[r].ver, i)
               /\ r \notin known /\ Merge(r, i)
    <3>1. PICK i \in 1..Len(updates[r]) :
               /\ FirstMatch(updates[r], snap[r].ver, i)
               /\ Consecutive(updates[r], snap[r].ver, i)
               /\ r \notin known /\ Merge(r, i)
      BY <2>2
    <3> DEFINE x == snap[r].ver + (Len(updates[r]) - i)
    <3>2. known' = known \cup {r} /\ tver' = [tver EXCEPT ![r] = x]
      BY <3>1 DEF Merge
    <3>3. updates' = [updates EXCEPT ![r] = <<>>]
      BY <1>10 DEF SnapshotDone, EndFactory
    <3>4. inc[r] <= 1 => InOrder(chan[r], <<>>, TRUE, x, version[r])
      BY <1>5, <3>1, InvTypes, MergedInOrder
    <3>5. tver'[r] = x /\ updates'[r] = <<>> /\ (r \in known') = TRUE
      BY <1>3, <3>2, <3>3
    <3>6. inc[r] <= 1 => InOrder(chan[r], updates'[r], r \in known', tver'[r], version[r])
      BY <3>4, <3>5
    <3>7. \A q \in Regions \ {r} :
            updates'[q] = updates[q] /\ tver'[q] = tver[q] /\ (q \in known' <=> q \in known)
      BY <1>3, <3>2, <3>3
    <3> QED BY <1>4, <3>1, <3>6, <3>7
  <2> QED BY <1>10, <2>1, <2>2 DEF SnapshotDone
<1> QED BY <1>7, <1>8, <1>9, <1>10 DEF FactoryStep

(* Entries that time out.                                                  *)
LEMMA CheckTimerInOrder == OrderInv /\ CheckTimer => OrderInv' /\ NoVersionBack
<1>1. SUFFICES ASSUME OrderInv, CheckTimer PROVE OrderInv' /\ NoVersionBack
  OBVIOUS
<1>2. PICK gone, Q, P : Expire(gone, Q, P)
  BY <1>1 DEF CheckTimer
<1>3. TypeOK /\ TypeOK'
  BY <1>1, CheckTimerType DEF OrderInv
<1>4. UNCHANGED <<alive, inc, version, chan, updates>>
  BY <1>2 DEF Expire, regionVars, factoryVars
<1>5. \A r \in Regions : r \in known' => r \in known /\ tver'[r] = tver[r] /\ tver[r] \in Nat
  BY <1>2, <1>3 DEF Expire, TypeOK
<1>6. ASSUME NEW r \in Regions, inc[r] <= 1
      PROVE  InOrder(chan[r], updates[r], r \in known', tver'[r], version[r])
  BY <1>1, <1>5, <1>6 DEF OrderInv, InOrder
<1>7. OrderInv'
  BY <1>1, <1>3, <1>4, <1>6 DEF OrderInv
<1>8. NoVersionBack
  BY <1>5 DEF NoVersionBack
<1> QED BY <1>7, <1>8

(* A new tracker knows nothing.                                            *)
LEMMA RestartInOrder == OrderInv /\ RestartTracker => OrderInv' /\ NoVersionBack
<1>1. SUFFICES ASSUME OrderInv, RestartTracker PROVE OrderInv' /\ NoVersionBack
  OBVIOUS
<1>2. TypeOK /\ TypeOK'
  BY <1>1, RestartTrackerType DEF OrderInv
<1>3. /\ UNCHANGED <<alive, inc, version>>
      /\ \A r \in Regions : chan'[r] = <<>> /\ updates'[r] = <<>> /\ r \notin known'
  BY <1>1 DEF RestartTracker, Forget, regionVars
<1>4. \A r \in Regions : (r \in known') = FALSE /\ version[r] \in Nat
  BY <1>2, <1>3 DEF TypeOK
<1>5. ASSUME NEW r \in Regions
      PROVE  InOrder(chan'[r], updates'[r], r \in known', tver'[r], version'[r])
  BY <1>3, <1>4, NothingInOrder
<1>6. OrderInv'
  BY <1>1, <1>2, <1>3, <1>5 DEF OrderInv
<1>7. NoVersionBack
  BY <1>3 DEF NoVersionBack
<1> QED BY <1>6, <1>7

LEMMA InitInOrder == Init => OrderInv
<1>1. SUFFICES ASSUME Init PROVE OrderInv
  OBVIOUS
<1>2. \A r \in Regions : InOrder(<<>>, <<>>, FALSE, tver[r], 0)
  BY NothingInOrder
<1>3. \A r \in Regions : /\ chan[r] = <<>> /\ updates[r] = <<>> /\ version[r] = 0
                         /\ (r \in known) = FALSE /\ r \notin alive
  BY <1>1 DEF Init
<1> QED BY <1>1, <1>2, <1>3, InitType DEF OrderInv

LEMMA NextInOrder == OrderInv /\ [Next]_vars => OrderInv' /\ NoVersionBack
<1>1. SUFFICES ASSUME OrderInv, [Next]_vars PROVE OrderInv' /\ NoVersionBack
  OBVIOUS
<1>2. CASE UNCHANGED vars
  <2>1. UNCHANGED <<alive, inc, version, chan, updates, known, tver>>
    BY <1>2 DEF vars, regionVars, tableVars, factoryVars
  <2>2. TypeOK'
    BY <1>1, <1>2, NextType DEF OrderInv
  <2>3. OrderInv'
    BY <1>1, <2>1, <2>2 DEF OrderInv
  <2>4. NoVersionBack
    BY <1>1, <2>1, InvTypes DEF NoVersionBack
  <2> QED BY <2>3, <2>4
<1> QED BY <1>1, <1>2, RegionStepInOrder, DeliverInOrder, FactoryStepInOrder,
           CheckTimerInOrder, RestartInOrder DEF Next

(* As long as a region was not restarted the version of its entry never    *)
(* goes back, whatever is lost, repeated or merged.                        *)
THEOREM NeverRolledBack == Spec => NoRollback
<1>1. OrderInv /\ [Next]_vars
        => OrderInv' /\ [\A r \in known \cap known' \cap Regions :
                           inc[r] = 1 => tver'[r] >= tver[r]]_vars
  BY NextInOrder DEF NoVersionBack
<1> QED BY <1>1, InitInOrder, PTL DEF Spec, NoRollback

-----------------------------------------------------------------------------
(* Without losses: one chain of versions from the entry, or the cache,     *)
(* through the channel to the region, in which each version comes with the *)
(* change that made it.                                                    *)

(* m repeats the version x, makes the next one, or is a farewell.          *)
Follows(m, x) == m.kind = "rmregion" \/ m.ver = x \/ (m.fresh /\ m.ver = x + 1)

(* The channel c of a region at version v, in its first run.               *)
Gapless(c, v) ==
  /\ \A k \in 1..Len(c) : c[k].inc = 1
  /\ \A j, k \in 1..Len(c) :
       k = j + 1 => c[j].kind # "rmregion" /\ Follows(c[k], c[j].ver)
  /\ c # <<>> => c[Len(c)].kind = "rmregion" \/ c[Len(c)].ver = v

(* The channel goes on where the version x is.                             *)
GoesOn(x, c, v) ==
  /\ c = <<>> => x = v
  /\ c # <<>> => Follows(c[1], x)

(* The cache.                                                              *)
Unbroken(u) ==
  /\ \A k \in 1..Len(u) : u[k].inc = 1 /\ u[k].kind # "rmregion"
  /\ \A j, k \in 1..Len(u) : k = j + 1 => Follows(u[k], u[j].ver)

(* The factory and the entry do not meet.                                  *)
StageFits(r) ==
  /\ r \in known => factory[r] = "none" /\ tinc[r] = 1 /\ synced[r]
  /\ factory[r] = "none" => updates[r] = <<>>
  /\ factory[r] = "built" => snap[r].inc = 1

(* A region that ended said so, and is forgotten when that has arrived.    *)
EndFits(r) ==
  /\ inc[r] = 0 => r \notin alive /\ chan[r] = <<>>
  /\ r \notin alive /\ chan[r] = <<>> => r \notin known /\ factory[r] = "none"
  /\ chan[r] # <<>> => (chan[r][Len(chan[r])].kind = "rmregion" <=> r \notin alive)

ChainFits(r) ==
  /\ Gapless(chan[r], version[r])
  /\ Unbroken(updates[r])
  /\ r \in known => GoesOn(tver[r], chan[r], version[r])
  /\ updates[r] # <<>> => GoesOn(updates[r][Len(updates[r])].ver, chan[r], version[r])

Fits(r) == StageFits(r) /\ EndFits(r) /\ ChainFits(r)

Calm == losses = 0 /\ Faults \cap {"crash", "silence"} = {}

LosslessInv == IInv /\ OrderInv /\ (Calm => \A r \in Regions : inc[r] <= 1 => Fits(r))

LEMMA SentGapless ==
  ASSUME NEW c \in Seq(Messages), NEW v \in Nat, NEW w \in Nat, NEW m \in Messages,
         Gapless(c, v), c # <<>> => c[Len(c)].kind # "rmregion",
         m.inc = 1, Follows(m, v), m.kind = "rmregion" \/ m.ver = w
  PROVE  /\ Gapless(Append(c, m), w)
         /\ Append(c, m) # <<>> /\ Append(c, m)[Len(Append(c, m))] = m
         /\ \A x \in Nat : GoesOn(x, c, v) => GoesOn(x, Append(c, m), w)
<1> DEFINE d == Append(c, m)
<1>1. /\ Len(d) = Len(c) + 1 /\ Len(c) \in Nat /\ d[Len(d)] = m /\ d # <<>>
      /\ \A k \in 1..Len(c) : d[k] = c[k]
      /\ c = <<>> => Len(c) = 0
      /\ c # <<>> => Len(c) \in 1..Len(c) /\ 1 \in 1..Len(c)
  <2>1. /\ Len(d) = Len(c) + 1 /\ Len(c) \in Nat /\ d[Len(d)] = m /\ d # <<>>
        /\ \A k \in 1..Len(c) : d[k] = c[k]
    OBVIOUS
  <2>2. c # <<>> => Len(c) \in 1..Len(c) /\ 1 \in 1..Len(c)
    OBVIOUS
  <2>3. c = <<>> => Len(c) = 0
    OBVIOUS
  <2> QED BY <2>1, <2>2, <2>3
<1> HIDE DEF d
<1>2. \A k \in 1..Len(d) : d[k].inc = 1
  BY <1>1 DEF Gapless
<1>3. ASSUME NEW j \in 1..Len(d), NEW k \in 1..Len(d), k = j + 1
      PROVE  d[j].kind # "rmregion" /\ Follows(d[k], d[j].ver)
  <2>1. j \in 1..Len(c) /\ d[j] = c[j]
    BY <1>1, <1>3
  <2>2. CASE k \in 1..Len(c)
    BY <1>1, <1>3, <2>1, <2>2 DEF Gapless
  <2>3. CASE k = Len(d)
    <3>1. j = Len(c) /\ d[k] = m /\ c # <<>>
      BY <1>1, <1>3, <2>1, <2>3
    <3>2. c[j].kind # "rmregion" /\ c[j].ver = v
      BY <3>1 DEF Gapless
    <3> QED BY <2>1, <3>1, <3>2
  <2> QED BY <1>1, <2>2, <2>3
<1>4. Gapless(d, w)
  BY <1>1, <1>2, <1>3 DEF Gapless
<1>5. ASSUME NEW x \in Nat, GoesOn(x, c, v)
      PROVE  GoesOn(x, d, w)
  <2>1. CASE c = <<>>
    <3>1. d[1] = m /\ x = v
      BY <1>1, <1>5, <2>1 DEF GoesOn
    <3> QED BY <1>1, <3>1 DEF GoesOn
  <2>2. CASE c # <<>>
    BY <1>1, <1>5, <2>2 DEF GoesOn
  <2> QED BY <2>1, <2>2
<1> QED BY <1>1, <1>4, <1>5 DEF d

LEMMA ReceivedGapless ==
  ASSUME NEW c \in Seq(Messages), c # <<>>, NEW v \in Nat, Gapless(c, v)
  PROVE  /\ Gapless(Tail(c), v)
         /\ Head(c).inc = 1
         /\ Tail(c) = <<>> => Head(c) = c[Len(c)]
         /\ Tail(c) # <<>> => /\ Tail(c)[Len(Tail(c))] = c[Len(c)]
                              /\ Head(c).kind # "rmregion"
         /\ Head(c).kind # "rmregion" => GoesOn(Head(c).ver, Tail(c), v)
         /\ \A x : GoesOn(x, c, v) => Follows(Head(c), x)
<1> DEFINE d == Tail(c)
           m == Head(c)
<1>1. /\ Len(c) \in Nat /\ Len(d) = Len(c) - 1 /\ m = c[1] /\ 1 \in 1..Len(c)
      /\ \A k \in 1..Len(d) : k + 1 \in 1..Len(c) /\ d[k] = c[k + 1]
      /\ d = <<>> <=> Len(d) = 0
  <2>1. /\ Len(c) \in Nat /\ Len(d) = Len(c) - 1 /\ m = c[1] /\ 1 \in 1..Len(c)
        /\ \A k \in 1..Len(d) : k + 1 \in 1..Len(c) /\ d[k] = c[k + 1]
    OBVIOUS
  <2>2. d \in Seq(Messages)
    OBVIOUS
  <2> HIDE DEF d
  <2>3. d = <<>> <=> Len(d) = 0
    BY <2>2
  <2> QED BY <2>1, <2>3
<1> HIDE DEF d, m
<1>2. d # <<>> => d[Len(d)] = c[Len(c)] /\ 1 \in 1..Len(d) /\ 2 \in 1..Len(c) /\ d[1] = c[2]
  BY <1>1
<1>3. d = <<>> => Len(c) = 1
  BY <1>1
<1>4. ASSUME NEW j \in 1..Len(d), NEW k \in 1..Len(d), k = j + 1
      PROVE  d[j].kind # "rmregion" /\ Follows(d[k], d[j].ver)
  <2>1. j + 1 \in 1..Len(c) /\ k + 1 \in 1..Len(c) /\ k + 1 = (j + 1) + 1
    BY <1>1, <1>4
  <2>2. c[j + 1].kind # "rmregion" /\ Follows(c[k + 1], c[j + 1].ver)
    BY <2>1 DEF Gapless
  <2> QED BY <1>1, <2>2
<1>5. \A k \in 1..Len(d) : d[k].inc = 1
  BY <1>1 DEF Gapless
<1>6. Gapless(d, v)
  BY <1>2, <1>4, <1>5 DEF Gapless
<1>7. d # <<>> => m.kind # "rmregion" /\ Follows(d[1], m.ver)
  BY <1>1, <1>2 DEF Gapless
<1>8. m.kind # "rmregion" => GoesOn(m.ver, d, v)
  BY <1>1, <1>3, <1>7 DEF Gapless, GoesOn
<1>9. m.inc = 1
  BY <1>1 DEF Gapless
<1>10. \A x : GoesOn(x, c, v) => Follows(m, x)
  BY <1>1 DEF GoesOn
<1> QED BY <1>1, <1>2, <1>3, <1>6, <1>7, <1>8, <1>9, <1>10 DEF d, m

LEMMA CachedUnbroken ==
  ASSUME NEW u \in Seq(Messages), NEW m \in Messages, Unbroken(u),
         m.inc = 1, m.kind # "rmregion", u # <<>> => Follows(m, u[Len(u)].ver)
  PROVE  /\ Unbroken(Append(u, m)) /\ Append(u, m)[Len(Append(u, m))] = m
         /\ Unbroken(<<m>>) /\ <<m>>[Len(<<m>>)] = m
<1> DEFINE d == Append(u, m)
<1>1. /\ Len(d) = Len(u) + 1 /\ Len(u) \in Nat /\ d[Len(d)] = m
      /\ \A k \in 1..Len(u) : d[k] = u[k] /\ u # <<>>
  OBVIOUS
<1> HIDE DEF d
<1>2. \A k \in 1..Len(d) : d[k].inc = 1 /\ d[k].kind # "rmregion"
  BY <1>1 DEF Unbroken
<1>3. ASSUME NEW j \in 1..Len(d), NEW k \in 1..Len(d), k = j + 1
      PROVE  Follows(d[k], d[j].ver)
  <2>1. j \in 1..Len(u) /\ d[j] = u[j]
    BY <1>1, <1>3
  <2>2. CASE k \in 1..Len(u)
    BY <1>1, <1>3, <2>1, <2>2 DEF Unbroken
  <2>3. CASE k = Len(d)
    <3>1. j = Len(u) /\ d[k] = m /\ u # <<>>
      BY <1>1, <1>3, <2>1, <2>3
    <3> QED BY <2>1, <3>1
  <2> QED BY <1>1, <2>2, <2>3
<1>4. Unbroken(d)
  BY <1>2, <1>3 DEF Unbroken
<1>5. Len(<<m>>) = 1 /\ <<m>>[1] = m
  OBVIOUS
<1>6. Unbroken(<<m>>)
  BY <1>5 DEF Unbroken
<1> QED BY <1>1, <1>4, <1>5, <1>6 DEF d

(* What is replayed behind the match are changes, each with its version.   *)
LEMMA ReplayedFresh ==
  ASSUME NEW u \in Seq(Messages), NEW x \in Nat, NEW i, FirstMatch(u, x, i),
         Consecutive(u, x, i), Unbroken(u)
  PROVE  /\ \A k \in (i+1)..Len(u) : u[k].fresh /\ u[k].inc = 1
         /\ u # <<>> /\ u[Len(u)].ver = x + (Len(u) - i)
<1>1. /\ Len(u) \in Nat /\ i \in 1..Len(u) /\ Len(u) \in 1..Len(u) /\ u # <<>>
      /\ u[i].ver = x
  BY DEF FirstMatch
<1>2. \A k \in i..Len(u) : u[k].ver = x + (k - i)
  <2>1. ASSUME NEW k \in i..Len(u) PROVE u[k].ver = x + (k - i)
    <3>1. CASE k = i
      BY <1>1, <3>1
    <3>2. CASE k \in (i+1)..Len(u)
      BY <1>1, <3>2 DEF Consecutive
    <3> QED BY <1>1, <3>1, <3>2
  <2> QED BY <2>1
<1>3. ASSUME NEW k \in (i+1)..Len(u)
      PROVE  u[k].fresh /\ u[k].inc = 1
  <2>1. /\ k - 1 \in 1..Len(u) /\ k \in 1..Len(u) /\ k = (k - 1) + 1
        /\ k - 1 \in i..Len(u) /\ k \in i..Len(u)
    BY <1>1
  <2>2. Follows(u[k], u[k - 1].ver) /\ u[k].inc = 1 /\ u[k].kind # "rmregion"
    BY <2>1 DEF Unbroken
  <2>3. u[k].ver = x + (k - i) /\ u[k - 1].ver = x + ((k - 1) - i)
    BY <1>2, <2>1
  <2>4. u[k].ver # u[k - 1].ver
    BY <1>1, <2>1, <2>3
  <2> QED BY <2>2, <2>4 DEF Follows
<1>4. u[Len(u)].ver = x + (Len(u) - i)
  BY <1>1, <1>2
<1> QED BY <1>1, <1>3, <1>4

-----------------------------------------------------------------------------
(* The steps of LosslessInv.                                               *)

Same(q) ==
  /\ UNCHANGED <<inc[q], version[q], chan[q], updates[q], tver[q], tinc[q],
                 synced[q], factory[q], snap[q]>>
  /\ q \in known' <=> q \in known
  /\ q \in alive' <=> q \in alive

LEMMA SameFits == ASSUME NEW q \in Regions, Same(q), Fits(q) PROVE Fits(q)'
<1>1. StageFits(q)'
  BY DEF Same, Fits, StageFits
<1>2. EndFits(q)'
  BY DEF Same, Fits, EndFits
<1>3. ChainFits(q)'
  BY DEF Same, Fits, ChainFits
<1> QED BY <1>1, <1>2, <1>3 DEF Fits

LEMMA StepFits ==
  ASSUME LosslessInv, IInv', OrderInv', NEW r \in Regions,
         \A q \in Regions \ {r} : Same(q),
         losses' = 0 => losses = 0,
         Calm /\ losses' = 0 /\ inc'[r] <= 1 => Fits(r)'
  PROVE  LosslessInv'
<1>1. SUFFICES ASSUME Calm', NEW q \in Regions, inc'[q] <= 1 PROVE Fits(q)'
  BY DEF LosslessInv
<1>2. Calm /\ losses' = 0
  BY <1>1 DEF Calm
<1>3. CASE q = r
  BY <1>1, <1>2, <1>3
<1>4. CASE q # r
  <2>1. Same(q) /\ inc[q] <= 1
    BY <1>1, <1>4 DEF Same
  <2> QED BY <1>2, <2>1, SameFits DEF LosslessInv
<1> QED BY <1>3, <1>4

LEMMA FitTypes ==
  ASSUME TypeOK, NEW r \in Regions
  PROVE  /\ chan[r] \in Seq(Messages) /\ updates[r] \in Seq(Messages)
         /\ tver[r] \in Nat /\ version[r] \in Nat /\ inc[r] \in Nat
         /\ snap[r].ver \in Nat
<1>1. /\ chan \in [Regions -> Seq(Messages)] /\ updates \in [Regions -> Seq(Messages)]
      /\ tver \in [Regions -> 0..MaxVersion] /\ version \in [Regions -> 0..MaxVersion]
      /\ inc \in [Regions -> 0..MaxInc] /\ snap \in [Regions -> Snapshots]
  BY Zenon DEF TypeOK
<1> QED BY <1>1 DEF Snapshots

(* A region publishes m, with which it is at w.                            *)
LEMMA PublishFits ==
  ASSUME LosslessInv, IInv', OrderInv', NEW r \in Regions, NEW m \in Messages, Publish(r, m),
         UNCHANGED <<tableVars, factoryVars>>,
         \A q \in Regions \ {r} :
           UNCHANGED <<inc[q], version[q]>> /\ (q \in alive' <=> q \in alive),
         inc'[r] <= 1 =>
           /\ inc[r] <= 1 /\ inc'[r] = 1 /\ m.inc = 1
           /\ inc[r] = 0 \/ r \in alive
           /\ Follows(m, version[r])
           /\ \/ m.kind = "rmregion" /\ r \notin alive'
              \/ m.kind # "rmregion" /\ m.ver = version'[r] /\ r \in alive'
  PROVE  LosslessInv'
<1>1. TypeOK /\ TypeOK'
  BY DEF LosslessInv, IInv
<1>2. /\ UNCHANGED <<known, tver, tinc, synced, factory, snap, updates>>
      /\ losses \in Nat /\ chan \in [Regions -> Seq(Messages)]
  BY <1>1 DEF tableVars, factoryVars, TypeOK
<1>3. \A q \in Regions \ {r} : chan'[q] = chan[q]
  BY <1>2 DEF Publish
<1>4. \A q \in Regions \ {r} : Same(q)
  BY <1>2, <1>3 DEF Same
<1>5. losses' = 0 => losses = 0 /\ chan'[r] = Append(chan[r], m)
  BY <1>2 DEF Publish
<1>6. ASSUME Calm, losses' = 0, inc'[r] <= 1
      PROVE  Fits(r)'
  <2> DEFINE c == chan[r]
             d == Append(c, m)
             v == version[r]
             w == version'[r]
  <2>1. /\ c \in Seq(Messages) /\ v \in Nat /\ w \in Nat /\ tver[r] \in Nat
        /\ updates[r] \in Seq(Messages)
    <3>1. version' \in [Regions -> 0..MaxVersion]
      BY <1>1, Zenon DEF TypeOK
    <3> QED BY <1>1, <3>1, FitTypes
  <2>2. Fits(r)
    BY <1>6 DEF LosslessInv
  <2>3. Gapless(c, v) /\ (c # <<>> => c[Len(c)].kind # "rmregion")
    BY <1>6, <2>2 DEF Fits, ChainFits, EndFits
  <2>4. chan'[r] = d
    BY <1>5, <1>6
  <2>5. m.inc = 1 /\ Follows(m, v) /\ (m.kind = "rmregion" \/ m.ver = w)
    BY <1>6
  <2>6. /\ Gapless(d, w) /\ d # <<>> /\ d[Len(d)] = m
        /\ \A x \in Nat : GoesOn(x, c, v) => GoesOn(x, d, w)
    BY <2>1, <2>3, <2>5, SentGapless
  <2>7. StageFits(r)'
    BY <1>2, <2>2 DEF Fits, StageFits
  <2>8. EndFits(r)'
    <3> HIDE DEF c, d, v, w
    <3> QED BY <1>6, <2>4, <2>6 DEF EndFits
  <2>9. ChainFits(r)'
    <3>1. /\ Unbroken(updates[r])
          /\ r \in known => GoesOn(tver[r], c, v)
          /\ updates[r] # <<>> => GoesOn(updates[r][Len(updates[r])].ver, c, v)
      BY <2>2 DEF Fits, ChainFits
    <3>2. updates[r] # <<>> => updates[r][Len(updates[r])].ver \in Nat
      <4>1. updates[r] # <<>> => updates[r][Len(updates[r])] \in Messages
        BY <2>1
      <4> QED BY <4>1, MessageFields
    <3> HIDE DEF c, d, v, w
    <3>3. /\ r \in known => GoesOn(tver[r], d, w)
          /\ updates[r] # <<>> => GoesOn(updates[r][Len(updates[r])].ver, d, w)
      BY <2>1, <2>6, <3>1, <3>2
    <3> QED BY <1>2, <2>4, <2>6, <3>1, <3>3 DEF ChainFits, w
  <2> QED BY <2>7, <2>8, <2>9 DEF Fits
<1> QED BY <1>4, <1>5, <1>6, StepFits

LEMMA RegionStepFits ==
  ASSUME LosslessInv, IInv', OrderInv', NEW r \in Regions, RegionStep(r)
  PROVE  LosslessInv'
<1>1. TypeOK /\ TypeOK'
  BY DEF LosslessInv, IInv
<1>2. /\ version \in [Regions -> 0..MaxVersion] /\ inc \in [Regions -> 0..MaxInc]
      /\ 0 \in 0..MaxVersion
  <2>1. version \in [Regions -> 0..MaxVersion] /\ inc \in [Regions -> 0..MaxInc]
    BY <1>1, Zenon DEF TypeOK
  <2> QED BY <2>1
<1>3. \A q \in Regions : inc[q] \in 0..MaxInc /\ version[q] \in 0..MaxVersion
  BY <1>2
<1>4. /\ r \in alive => inc[r] # 0
      /\ inc[r] = 0 => version[r] = 0
  BY DEF LosslessInv, OrderInv
<1>5. \A q \in Regions \ {r} : \A x, y :
        /\ [version EXCEPT ![r] = x][q] = version[q]
        /\ [inc EXCEPT ![r] = y][q] = inc[q]
  BY <1>2
<1>6. CASE StartRegion(r)
  <2> DEFINE m == Message("region", 0, NoItem, inc[r] + 1, FALSE)
  <2>1. inc[r] + 1 \in 0..MaxInc
    BY <1>3, <1>6 DEF StartRegion
  <2>2. m \in Messages /\ m.kind = "region" /\ m.ver = 0 /\ m.inc = inc[r] + 1
    BY <1>2, <2>1 DEF Messages, MessagesOf, Message
  <2>3. /\ version' = [version EXCEPT ![r] = 0] /\ inc' = [inc EXCEPT ![r] = inc[r] + 1]
        /\ alive' = alive \cup {r}
        /\ Publish(r, m) /\ UNCHANGED <<tableVars, factoryVars>>
    BY <1>6 DEF StartRegion
  <2> HIDE DEF m
  <2>4. version'[r] = 0 /\ inc'[r] = inc[r] + 1
    BY <1>2, <2>1, <2>3
  <2>5. inc'[r] <= 1 => inc[r] = 0 /\ inc'[r] = 1
    BY <1>3, <2>4
  <2>6. \A q \in Regions \ {r} :
          UNCHANGED <<inc[q], version[q]>> /\ (q \in alive' <=> q \in alive)
    BY <1>5, <2>3
  <2>7. inc'[r] <= 1 =>
           /\ inc[r] <= 1 /\ inc'[r] = 1 /\ m.inc = 1
           /\ inc[r] = 0 \/ r \in alive
           /\ Follows(m, version[r])
           /\ \/ m.kind = "rmregion" /\ r \notin alive'
              \/ m.kind # "rmregion" /\ m.ver = version'[r] /\ r \in alive'
    BY <1>4, <2>2, <2>3, <2>4, <2>5 DEF Follows
  <2> QED BY <2>2, <2>3, <2>6, <2>7, PublishFits
<1>7. ASSUME NEW m \in Messages, Publish(r, m), r \in alive, inc' = inc, m.inc = inc[r],
             version' = [version EXCEPT ![r] = version'[r]],
             UNCHANGED <<tableVars, factoryVars>>,
             \/ /\ m.kind = "rmregion" /\ alive' = alive \ {r}
             \/ /\ m.kind # "rmregion" /\ alive' = alive /\ m.ver = version'[r]
                /\ m.ver = version[r] \/ (m.fresh /\ m.ver = version[r] + 1)
      PROVE  LosslessInv'
  <2>1. inc'[r] <= 1 => inc[r] = 1
    BY <1>3, <1>4, <1>7
  <2>2. inc'[r] <= 1 =>
           /\ inc[r] <= 1 /\ inc'[r] = 1 /\ m.inc = 1
           /\ inc[r] = 0 \/ r \in alive
           /\ Follows(m, version[r])
           /\ \/ m.kind = "rmregion" /\ r \notin alive'
              \/ m.kind # "rmregion" /\ m.ver = version'[r] /\ r \in alive'
    BY <1>7, <2>1 DEF Follows
  <2>3. \A q \in Regions \ {r} :
          UNCHANGED <<inc[q], version[q]>> /\ (q \in alive' <=> q \in alive)
    BY <1>5, <1>7
  <2> QED BY <1>7, <2>2, <2>3, PublishFits
<1>8. ASSUME NEW kind \in {"service", "rmservice", "payload", "rmpayload"}, NEW item, NEW c,
             Change(r, kind, item, c), r \in alive,
             version[r] < MaxVersion => Message(kind, version[r] + 1, item, inc[r], TRUE) \in Messages
      PROVE  LosslessInv'
  <2> DEFINE m == Message(kind, version[r] + 1, item, inc[r], TRUE)
  <2>1. /\ version[r] < MaxVersion /\ Publish(r, m)
        /\ version' = [version EXCEPT ![r] = version[r] + 1]
        /\ inc' = inc /\ alive' = alive /\ UNCHANGED <<tableVars, factoryVars>>
    BY <1>8 DEF Change
  <2>2. m \in Messages
    BY <1>8, <2>1
  <2>3. m.kind # "rmregion" /\ m.ver = version[r] + 1 /\ m.inc = inc[r] /\ m.fresh
    BY <1>8 DEF Message
  <2> HIDE DEF m
  <2>4. version'[r] = version[r] + 1
    BY <1>2, <2>1
  <2> QED BY <1>7, <1>8, <2>1, <2>2, <2>3, <2>4
<1>9. ASSUME NEW s \in Services, AddService(r, s) \/ RmService(r, s)
      PROVE  LosslessInv'
  <2>1. version[r] < MaxVersion =>
          /\ Message("service", version[r] + 1, s, inc[r], TRUE) \in Messages
          /\ Message("rmservice", version[r] + 1, s, inc[r], TRUE) \in Messages
    BY <1>3 DEF Messages, MessagesOf, Message
  <2> QED BY <1>8, <1>9, <2>1 DEF AddService, RmService
<1>10. ASSUME NEW p \in Payloads, AddPayload(r, p) \/ RmPayload(r, p)
       PROVE  LosslessInv'
  <2>1. version[r] < MaxVersion =>
          /\ Message("payload", version[r] + 1, p, inc[r], TRUE) \in Messages
          /\ Message("rmpayload", version[r] + 1, p, inc[r], TRUE) \in Messages
    BY <1>3 DEF Messages, MessagesOf, Message
  <2> QED BY <1>8, <1>10, <2>1 DEF AddPayload, RmPayload
<1>11. ASSUME NEW kind \in {"region", "service", "payload"}, NEW item, Repeat(r, kind, item),
              Message(kind, version[r], item, inc[r], FALSE) \in Messages
       PROVE  LosslessInv'
  <2> DEFINE m == Message(kind, version[r], item, inc[r], FALSE)
  <2>1. m \in Messages /\ m.ver = version[r] /\ m.inc = inc[r] /\ m.kind # "rmregion"
    BY <1>11 DEF Message
  <2>2. /\ version' = version /\ inc' = inc /\ alive' = alive
        /\ Publish(r, m) /\ UNCHANGED <<tableVars, factoryVars>> /\ r \in alive
    BY <1>11 DEF Repeat, regionVars
  <2> HIDE DEF m
  <2>3. version' = [version EXCEPT ![r] = version'[r]]
    BY <1>2, <2>2
  <2> QED BY <1>7, <2>1, <2>2, <2>3
<1>12. CASE PubRegion(r) \/ PubRepeated(r)
  BY <1>3, <1>11, <1>12 DEF PubRegion, PubRepeated, Messages, MessagesOf, Message
<1>13. CASE StopRegion(r)
  <2> DEFINE m == Message("rmregion", 0, NoItem, inc[r], FALSE)
  <2>1. m \in Messages /\ m.kind = "rmregion" /\ m.inc = inc[r]
    BY <1>2, <1>3 DEF Messages, MessagesOf, Message
  <2>2. /\ version' = version /\ inc' = inc /\ alive' = alive \ {r} /\ r \in alive
        /\ Publish(r, m) /\ UNCHANGED <<tableVars, factoryVars>>
    BY <1>13 DEF StopRegion
  <2> HIDE DEF m
  <2>3. version' = [version EXCEPT ![r] = version'[r]]
    BY <1>2, <2>2
  <2> QED BY <1>7, <2>1, <2>2, <2>3
<1>14. CASE CrashRegion(r)
  <2>1. ~ Calm'
    BY <1>14 DEF CrashRegion, Calm
  <2> QED BY <2>1 DEF LosslessInv
<1> QED BY <1>6, <1>9, <1>10, <1>12, <1>13, <1>14 DEF RegionStep

(* A message arrives: the entry or the cache goes on from it.              *)
LEMMA DeliverFits ==
  ASSUME LosslessInv, IInv', OrderInv', NEW r \in Regions, Deliver(r)
  PROVE  LosslessInv'
<1> DEFINE c == chan[r]
           d == Tail(c)
           m == Head(c)
           v == version[r]
           u == updates[r]
<1>1. TypeOK /\ TypeOK'
  BY DEF LosslessInv, IInv
<1>2. PICK kind : Receive(r, kind)
  BY DEF Deliver, RecvRegion, RecvRmRegion, RecvService, RecvRmService,
     RecvPayload, RecvRmPayload
<1>3. /\ m \in Messages /\ c \in Seq(Messages) /\ c # <<>>
      /\ chan' = [chan EXCEPT ![r] = Tail(@)]
      /\ UNCHANGED <<alive, inc, version, losses>>
  BY <1>1, <1>2, ReceiveType
<1>4. chan'[r] = d /\ \A q \in Regions \ {r} : chan'[q] = chan[q]
  <2>1. chan \in [Regions -> Seq(Messages)]
    BY <1>1, Zenon DEF TypeOK
  <2> QED BY <1>3, <2>1
<1>5. /\ tver \in [Regions -> 0..MaxVersion] /\ tinc \in [Regions -> 0..MaxInc]
      /\ synced \in [Regions -> BOOLEAN] /\ updates \in [Regions -> Seq(Messages)]
      /\ factory \in [Regions -> Stages] /\ snap \in [Regions -> Snapshots]
  BY <1>1, Zenon DEF TypeOK
<1>6. v \in Nat /\ u \in Seq(Messages) /\ m.ver \in Nat
  BY <1>1, <1>3, FitTypes, MessageFields
<1>7. ASSUME \A q \in Regions \ {r} :
               /\ UNCHANGED <<updates[q], tver[q], tinc[q], synced[q], factory[q], snap[q]>>
               /\ q \in known' <=> q \in known,
             Calm /\ inc[r] <= 1 => StageFits(r)' /\ EndFits(r)' /\ ChainFits(r)'
      PROVE  LosslessInv'
  <2>1. \A q \in Regions \ {r} : Same(q)
    BY <1>3, <1>4, <1>7 DEF Same
  <2>2. inc'[r] <= 1 => inc[r] <= 1
    BY <1>3
  <2> QED BY <1>3, <1>7, <2>1, <2>2, StepFits DEF Fits
<1>8. ASSUME Calm, inc[r] <= 1
      PROVE  /\ StageFits(r) /\ EndFits(r) /\ ChainFits(r)
             /\ Gapless(d, v) /\ m.inc = 1
             /\ d = <<>> => m = c[Len(c)]
             /\ d # <<>> => d[Len(d)] = c[Len(c)] /\ m.kind # "rmregion"
             /\ m.kind # "rmregion" => GoesOn(m.ver, d, v)
             /\ \A x : GoesOn(x, c, v) => Follows(m, x)
  <2>1. Fits(r)
    BY <1>8 DEF LosslessInv
  <2>2. Gapless(c, v)
    BY <2>1 DEF Fits, ChainFits
  <2> QED BY <1>3, <1>6, <2>1, <2>2, ReceivedGapless DEF Fits
<1> HIDE DEF d, m
<1>9. ASSUME Calm, inc[r] <= 1
      PROVE  /\ m.kind # "rmregion" => EndFits(r)'
             /\ r \notin known' /\ factory'[r] = "none" => EndFits(r)'
  <2>1. inc'[r] # 0
    BY <1>3, <1>8, <1>9 DEF EndFits
  <2>2. d # <<>> => (d[Len(d)].kind = "rmregion" <=> r \notin alive)
    BY <1>3, <1>8, <1>9 DEF EndFits
  <2>3. m.kind # "rmregion" => r \in alive \/ d # <<>>
    BY <1>3, <1>8, <1>9 DEF EndFits
  <2> QED BY <1>3, <1>4, <2>1, <2>2, <2>3 DEF EndFits
<1>10. ASSUME m.kind # "rmregion", r \in known, Track(r, m), UNCHANGED <<known, factoryVars>>
       PROVE  LosslessInv'
  <2>1. /\ tver'[r] = m.ver /\ tinc'[r] = m.inc
        /\ synced'[r] = (/\ synced[r] /\ m.inc = tinc[r]
                         /\ m.ver = tver[r] \/ (m.fresh /\ m.ver = tver[r] + 1))
    BY <1>5, <1>10 DEF Track
  <2>2. \A q \in Regions \ {r} :
          UNCHANGED <<updates[q], tver[q], tinc[q], synced[q], factory[q], snap[q]>>
    BY <1>5, <1>10 DEF Track, factoryVars
  <2>3. ASSUME Calm, inc[r] <= 1
        PROVE  StageFits(r)' /\ ChainFits(r)'
    <3>1. GoesOn(tver[r], c, v) /\ updates[r] = <<>>
      BY <1>8, <1>10, <2>3 DEF StageFits, ChainFits
    <3>2. m.ver = tver[r] \/ (m.fresh /\ m.ver = tver[r] + 1)
      BY <1>8, <1>10, <2>3, <3>1 DEF Follows
    <3>3. StageFits(r)'
      BY <1>8, <1>10, <2>1, <2>3, <3>2 DEF StageFits, factoryVars
    <3>4. GoesOn(m.ver, d, v) /\ Gapless(d, v)
      BY <1>8, <1>10, <2>3
    <3>5. ChainFits(r)'
      BY <1>3, <1>4, <1>8, <1>10, <2>1, <2>3, <3>1, <3>4 DEF ChainFits, factoryVars
    <3> QED BY <3>3, <3>5
  <2> QED BY <1>7, <1>9, <1>10, <2>2, <2>3
<1>11. ASSUME m.kind # "rmregion", r \notin known, UNCHANGED <<tableVars, snap>>,
              \/ updates' = [updates EXCEPT ![r] = Append(@, m)]
              \/ updates' = [updates EXCEPT ![r] = <<m>>],
              \/ UNCHANGED factory /\ factory[r] # "none"
              \/ factory' = [factory EXCEPT ![r] = "asked"]
       PROVE  LosslessInv'
  <2>1. updates'[r] = Append(u, m) \/ updates'[r] = <<m>>
    BY <1>5, <1>11
  <2>2. factory'[r] # "none" /\ (factory'[r] = "built" => factory[r] = "built")
    BY <1>5, <1>11
  <2>3. /\ \A q \in Regions \ {r} : UNCHANGED <<updates[q], factory[q]>>
        /\ UNCHANGED <<known, tver, tinc, synced, snap>>
    BY <1>5, <1>11 DEF tableVars
  <2>4. ASSUME Calm, inc[r] <= 1
        PROVE  StageFits(r)' /\ ChainFits(r)'
    <3>1. StageFits(r)'
      BY <1>8, <1>11, <2>2, <2>3, <2>4 DEF StageFits
    <3>2. Unbroken(u) /\ (u # <<>> => Follows(m, u[Len(u)].ver))
      BY <1>8, <2>4 DEF ChainFits
    <3>3. /\ Unbroken(Append(u, m)) /\ Append(u, m)[Len(Append(u, m))] = m
          /\ Unbroken(<<m>>) /\ <<m>>[Len(<<m>>)] = m
      BY <1>3, <1>6, <1>8, <1>11, <2>4, <3>2, CachedUnbroken
    <3>4. Unbroken(updates'[r]) /\ updates'[r][Len(updates'[r])] = m
      BY <2>1, <3>3
    <3>5. GoesOn(m.ver, d, v) /\ Gapless(d, v)
      BY <1>8, <1>11, <2>4
    <3>6. ChainFits(r)'
      BY <1>3, <1>4, <1>11, <2>3, <3>4, <3>5 DEF ChainFits
    <3> QED BY <3>1, <3>6
  <2> QED BY <1>7, <1>9, <1>11, <2>3, <2>4
<1>12. ASSUME m.kind # "rmregion", r \notin known, factory[r] = "none",
              UNCHANGED <<tableVars, factoryVars>>
       PROVE  LosslessInv'
  <2>1. UNCHANGED <<known, tver, tinc, synced, factory, snap, updates>>
    BY <1>12 DEF tableVars, factoryVars
  <2>2. ASSUME Calm, inc[r] <= 1
        PROVE  StageFits(r)' /\ ChainFits(r)'
    <3>1. StageFits(r)' /\ updates[r] = <<>>
      BY <1>8, <1>12, <2>1, <2>2 DEF StageFits
    <3>2. ChainFits(r)'
      BY <1>3, <1>4, <1>8, <1>12, <2>1, <2>2, <3>1 DEF ChainFits
    <3> QED BY <3>1, <3>2
  <2> QED BY <1>7, <1>9, <1>12, <2>1, <2>2
<1>13. ASSUME m.kind # "rmregion", r \notin known, PassOn(r, m), UNCHANGED tableVars
       PROVE  LosslessInv'
  BY <1>11, <1>12, <1>13 DEF PassOn, Cache, Syncing, factoryVars
<1>14. CASE RecvRegion(r)
  <2>1. m.kind # "rmregion"
    BY <1>14 DEF RecvRegion, Receive, m
  <2>2. \/ r \in known /\ Track(r, m) /\ UNCHANGED <<known, factoryVars>>
        \/ r \notin known /\ SyncRegion(r, m) /\ UNCHANGED tableVars
    BY <1>14 DEF RecvRegion, m
  <2>3. CASE r \notin known /\ SyncRegion(r, m) /\ UNCHANGED tableVars
    BY <1>11, <1>12, <2>1, <2>3 DEF SyncRegion, StartFactory, Cache, Syncing, factoryVars
  <2> QED BY <1>10, <2>1, <2>2, <2>3
<1>15. CASE RecvRmRegion(r)
  <2>1. \/ r \in known /\ Forget({r}) /\ UNCHANGED factoryVars
        \/ r \notin known /\ EndFactory(r) /\ UNCHANGED tableVars
    BY <1>15 DEF RecvRmRegion
  <2>2. /\ r \notin known'
        /\ \A q \in Regions \ {r} :
             /\ UNCHANGED <<updates[q], tver[q], tinc[q], synced[q], factory[q], snap[q]>>
             /\ q \in known' <=> q \in known
    <3>1. CASE r \in known /\ Forget({r}) /\ UNCHANGED factoryVars
      BY <1>5, <3>1 DEF Forget, factoryVars
    <3>2. CASE r \notin known /\ EndFactory(r) /\ UNCHANGED tableVars
      BY <1>5, <3>2 DEF EndFactory, tableVars
    <3> QED BY <2>1, <3>1, <3>2
  <2>3. ASSUME Calm, inc[r] <= 1
        PROVE  StageFits(r)' /\ EndFits(r)' /\ ChainFits(r)'
    <3>1. factory'[r] = "none" /\ updates'[r] = <<>>
      BY <1>5, <1>8, <2>1, <2>3 DEF StageFits, EndFactory, factoryVars
    <3>2. StageFits(r)'
      BY <2>2, <3>1 DEF StageFits
    <3>3. Unbroken(<<>>)
      BY DEF Unbroken
    <3>4. ChainFits(r)'
      BY <1>3, <1>4, <1>8, <2>2, <2>3, <3>1, <3>3 DEF ChainFits
    <3> QED BY <1>9, <2>2, <2>3, <3>1, <3>2, <3>4
  <2> QED BY <1>7, <2>2, <2>3
<1>16. CASE \/ RecvService(r) \/ RecvRmService(r)
            \/ RecvPayload(r) \/ RecvRmPayload(r)
  <2>1. m.kind # "rmregion"
    BY <1>16 DEF RecvService, RecvRmService, RecvPayload, RecvRmPayload, Receive, m
  <2>2. \/ r \in known /\ Track(r, m) /\ UNCHANGED <<known, factoryVars>>
        \/ r \notin known /\ PassOn(r, m) /\ UNCHANGED tableVars
    BY <1>16 DEF RecvService, RecvRmService, RecvPayload, RecvRmPayload, m
  <2> QED BY <1>10, <1>13, <2>1, <2>2
<1> QED BY <1>14, <1>15, <1>16 DEF Deliver

(* A merge puts the entry where the cache ended.                           *)
LEMMA FactoryStepFits ==
  ASSUME LosslessInv, IInv', OrderInv', NEW r \in Regions, FactoryStep(r)
  PROVE  LosslessInv'
<1>1. TypeOK /\ TypeOK'
  BY DEF LosslessInv, IInv
<1>2. UNCHANGED <<alive, inc, version, chan, losses>>
  BY DEF FactoryStep, BuildSnapshot, SnapshotDone, SnapshotFailed, SnapshotNotStarted,
     regionVars
<1>3. /\ tver \in [Regions -> 0..MaxVersion] /\ tinc \in [Regions -> 0..MaxInc]
      /\ synced \in [Regions -> BOOLEAN] /\ updates \in [Regions -> Seq(Messages)]
      /\ factory \in [Regions -> Stages] /\ snap \in [Regions -> Snapshots]
      /\ inc \in [Regions -> 0..MaxInc]
  BY <1>1, Zenon DEF TypeOK
<1>4. ASSUME \A q \in Regions \ {r} :
               /\ UNCHANGED <<updates[q], tver[q], tinc[q], synced[q], factory[q], snap[q]>>
               /\ q \in known' <=> q \in known,
             Calm /\ inc[r] <= 1 => StageFits(r)' /\ EndFits(r)' /\ ChainFits(r)'
      PROVE  LosslessInv'
  <2>1. \A q \in Regions \ {r} : Same(q)
    BY <1>2, <1>4 DEF Same
  <2>2. inc'[r] <= 1 => inc[r] <= 1
    BY <1>2
  <2> QED BY <1>2, <1>4, <2>1, <2>2, StepFits DEF Fits
<1>5. ASSUME Calm, inc[r] <= 1
      PROVE  StageFits(r) /\ EndFits(r) /\ ChainFits(r)
  BY <1>5 DEF LosslessInv, Fits
<1>6. ASSUME EndFactory(r)
      PROVE  /\ factory'[r] = "none" /\ updates'[r] = <<>>
             /\ \A q \in Regions \ {r} : UNCHANGED <<updates[q], factory[q], snap[q]>>
  BY <1>3, <1>6 DEF EndFactory
<1>7. Unbroken(<<>>)
  BY DEF Unbroken
<1>8. ASSUME EndFactory(r), UNCHANGED <<tver, tinc, synced>>,
             \A q \in Regions : q \in known' <=> q \in known
      PROVE  LosslessInv'
  <2>1. ASSUME Calm, inc[r] <= 1
        PROVE  StageFits(r)' /\ EndFits(r)' /\ ChainFits(r)'
    <3>1. StageFits(r)'
      BY <1>5, <1>6, <1>8, <2>1 DEF StageFits
    <3>2. EndFits(r)'
      BY <1>2, <1>5, <1>6, <1>8, <2>1 DEF EndFits
    <3>3. ChainFits(r)'
      BY <1>2, <1>5, <1>6, <1>7, <1>8, <2>1 DEF ChainFits
    <3> QED BY <3>1, <3>2, <3>3
  <2> QED BY <1>4, <1>6, <1>8, <2>1
<1>9. CASE BuildSnapshot(r)
  <2>1. /\ factory'[r] = "built" /\ snap'[r].inc = inc[r] /\ factory[r] = "asked" /\ r \in alive
        /\ \A q \in Regions \ {r} : UNCHANGED <<factory[q], snap[q]>>
        /\ UNCHANGED <<known, tver, tinc, synced, updates>>
    BY <1>3, <1>9 DEF BuildSnapshot, Snapshot, tableVars
  <2>2. ASSUME Calm, inc[r] <= 1
        PROVE  StageFits(r)' /\ EndFits(r)' /\ ChainFits(r)'
    <3>1. inc[r] = 1
      BY <1>3, <1>5, <2>1, <2>2 DEF EndFits
    <3>2. StageFits(r)'
      BY <1>5, <2>1, <2>2, <3>1 DEF StageFits
    <3>3. EndFits(r)'
      BY <1>2, <1>5, <2>1, <2>2 DEF EndFits
    <3>4. ChainFits(r)'
      BY <1>2, <1>5, <2>1, <2>2 DEF ChainFits
    <3> QED BY <3>2, <3>3, <3>4
  <2> QED BY <1>4, <2>1, <2>2
<1>10. CASE SnapshotFailed(r)
  BY <1>8, <1>10 DEF SnapshotFailed, tableVars
<1>11. CASE SnapshotNotStarted(r)
  <2>1. \A q \in Regions : q # EmptyId
    OBVIOUS
  <2> QED BY <1>8, <1>11, <2>1 DEF SnapshotNotStarted
<1>12. CASE SnapshotDone(r)
  <2>1. CASE UNCHANGED tableVars
    BY <1>8, <1>12, <2>1 DEF SnapshotDone, tableVars
  <2>2. CASE \E i \in 1..Len(updates[r]) :
               /\ FirstMatch(updates[r], snap[r].ver, i)
               /\ Consecutive(updates[r], snap[r].ver, i)
               /\ r \notin known /\ Merge(r, i)
    <3>1. PICK i \in 1..Len(updates[r]) :
               /\ FirstMatch(updates[r], snap[r].ver, i)
               /\ Consecutive(updates[r], snap[r].ver, i)
               /\ r \notin known /\ Merge(r, i)
      BY <2>2
    <3> DEFINE u == updates[r]
               x == snap[r].ver
               fresh == \A k \in (i+1)..Len(u) : u[k].fresh /\ u[k].inc = snap[r].inc
    <3>2. /\ known' = known \cup {r}
          /\ tver' = [tver EXCEPT ![r] = x + (Len(u) - i)]
          /\ tinc' = [tinc EXCEPT ![r] = snap[r].inc]
          /\ synced' = [synced EXCEPT ![r] = fresh]
      BY <3>1 DEF Merge
    <3>3. EndFactory(r) /\ factory[r] = "built"
      BY <1>12 DEF SnapshotDone
    <3> HIDE DEF fresh
    <3>4. /\ tver'[r] = x + (Len(u) - i) /\ tinc'[r] = snap[r].inc /\ synced'[r] = fresh
          /\ \A q \in Regions \ {r} :
               /\ UNCHANGED <<tver[q], tinc[q], synced[q]>>
               /\ q \in known' <=> q \in known
      BY <1>3, <3>2
    <3>5. ASSUME Calm, inc[r] <= 1
          PROVE  StageFits(r)' /\ EndFits(r)' /\ ChainFits(r)'
      <4>1. Unbroken(u) /\ snap[r].inc = 1
        BY <1>5, <3>3, <3>5 DEF StageFits, ChainFits
      <4>2. /\ \A k \in (i+1)..Len(u) : u[k].fresh /\ u[k].inc = 1
            /\ u # <<>> /\ u[Len(u)].ver = x + (Len(u) - i)
        <5>1. u \in Seq(Messages) /\ x \in Nat
          BY <1>1, FitTypes
        <5> HIDE DEF u, x
        <5> QED BY <3>1, <4>1, <5>1, ReplayedFresh DEF u, x
      <4>3. fresh
        BY <4>1, <4>2 DEF fresh
      <4>4. StageFits(r)'
        BY <1>6, <3>3, <3>4, <4>1, <4>3 DEF StageFits
      <4>5. GoesOn(tver'[r], chan[r], version[r])
        BY <1>5, <3>4, <3>5, <4>2 DEF ChainFits
      <4>6. ChainFits(r)'
        BY <1>2, <1>5, <1>6, <1>7, <3>3, <3>5, <4>5 DEF ChainFits
      <4>7. EndFits(r)'
        BY <1>2, <1>5, <1>6, <3>3, <3>4, <3>5 DEF EndFits
      <4> QED BY <4>4, <4>6, <4>7
    <3> QED BY <1>4, <1>6, <3>3, <3>4, <3>5
  <2> QED BY <1>12, <2>1, <2>2 DEF SnapshotDone
<1> QED BY <1>9, <1>10, <1>11, <1>12 DEF FactoryStep

(* Without silence nothing of a region that is followed times out: its     *)
(* entry is what it has when nothing is under way.                         *)
LEMMA CheckTimerFits == LosslessInv /\ IInv' /\ OrderInv' /\ CheckTimer => LosslessInv'
<1>1. SUFFICES ASSUME LosslessInv, IInv', OrderInv', CheckTimer, Calm',
                      NEW r \in Regions, inc'[r] <= 1
               PROVE  Fits(r)'
  BY DEF LosslessInv
<1>2. PICK gone \in SUBSET {q \in known : q = EmptyId \/ Silent(q)},
           Q \in SUBSET {rs \in Regions \X Services :
                           rs[2] \in tsvc[rs[1]] /\ Unheard(rs[1], rs[2])},
           P \in SUBSET {p \in Payloads : owner[p] # NoRegion /\ Unheard(owner[p], p)} :
         Expire(gone, Q, P)
  BY <1>1 DEF CheckTimer
<1>3. UNCHANGED <<alive, inc, version, content, hist, chan, losses, factory, snap, updates>>
  BY <1>2 DEF Expire, regionVars, factoryVars
<1>4. Calm /\ inc[r] <= 1
  BY <1>1, <1>3 DEF Calm
<1>5. StageFits(r) /\ EndFits(r) /\ ChainFits(r)
  BY <1>1, <1>4 DEF LosslessInv, Fits
<1>6. ASSUME NEW x, r \in known, Unheard(r, x), x \in tsvc[r] \/ (x \in Payloads /\ owner[x] = r)
      PROVE  FALSE
  <2>1. ~ Silent(r)
    BY <1>4, <1>5, <1>6 DEF Silent, Calm, EndFits
  <2>2. x \notin content[r] /\ chan[r] = <<>>
    BY <1>6, <2>1 DEF Unheard
  <2>3. synced[r] /\ tinc[r] = 1 /\ tver[r] = version[r]
    BY <1>5, <1>6, <2>2 DEF StageFits, ChainFits, GoesOn
  <2>4. inc[r] = 1
    <3>1. inc[r] # 0
      BY <1>5, <1>6, <2>2 DEF EndFits
    <3> QED BY <1>1, <1>4, <3>1, FitTypes DEF LosslessInv, IInv
  <2>5. EntryExact(r) /\ hist[r][inc[r]][version[r]] = content[r]
    BY <1>1, <1>6, <2>3 DEF LosslessInv, IInv, TableExact, HistoryTrue
  <2> QED BY <1>6, <2>2, <2>3, <2>4, <2>5 DEF EntryExact
<1>7. r \in known' => r \in known /\ r \notin gone
  BY <1>2 DEF Expire
<1>8. ASSUME r \in known'
      PROVE  tver'[r] = tver[r] /\ tinc'[r] = tinc[r] /\ synced'[r]
  <2>1. \A rs \in Q : rs[1] # r
    BY <1>2, <1>6, <1>7, <1>8
  <2>2. \A p \in P : owner[p] # r
    BY <1>2, <1>6, <1>7, <1>8
  <2> QED BY <1>2, <1>5, <1>7, <1>8, <2>1, <2>2 DEF Expire, StageFits
<1>9. StageFits(r)'
  BY <1>3, <1>5, <1>7, <1>8 DEF StageFits
<1>10. EndFits(r)'
  BY <1>3, <1>5, <1>7 DEF EndFits
<1>11. ChainFits(r)'
  BY <1>3, <1>5, <1>7, <1>8 DEF ChainFits
<1> QED BY <1>9, <1>10, <1>11 DEF Fits

LEMMA RestartFits == LosslessInv /\ IInv' /\ OrderInv' /\ RestartTracker => LosslessInv'
<1>1. SUFFICES ASSUME LosslessInv, IInv', OrderInv', RestartTracker, Calm',
                      NEW r \in Regions, inc'[r] <= 1
               PROVE  Fits(r)'
  BY DEF LosslessInv
<1>2. /\ UNCHANGED <<alive, inc, version, losses>>
      /\ chan'[r] = <<>> /\ updates'[r] = <<>> /\ factory'[r] = "none" /\ r \notin known'
  BY <1>1 DEF RestartTracker, Forget, regionVars
<1>3. Calm /\ inc[r] <= 1
  BY <1>1, <1>2 DEF Calm
<1>4. EndFits(r)
  BY <1>1, <1>3 DEF LosslessInv, Fits
<1>5. Unbroken(<<>>) /\ Gapless(<<>>, version[r])
  BY DEF Unbroken, Gapless
<1>6. EndFits(r)'
  BY <1>2, <1>4 DEF EndFits
<1>7. StageFits(r)' /\ ChainFits(r)'
  BY <1>2, <1>5 DEF StageFits, ChainFits
<1> QED BY <1>6, <1>7 DEF Fits

LEMMA InitFits == Init => LosslessInv
<1>1. SUFFICES ASSUME Init, NEW r \in Regions PROVE Fits(r)
  BY InitTrue, InitInOrder DEF LosslessInv
<1>2. /\ alive = {} /\ known = {} /\ chan[r] = <<>> /\ updates[r] = <<>>
      /\ factory[r] = "none"
  BY <1>1 DEF Init
<1>3. Unbroken(<<>>) /\ Gapless(<<>>, version[r])
  BY DEF Unbroken, Gapless
<1> QED BY <1>2, <1>3 DEF Fits, StageFits, EndFits, ChainFits

LEMMA NextFits == LosslessInv /\ [Next]_vars => LosslessInv'
<1>1. SUFFICES ASSUME LosslessInv, [Next]_vars PROVE LosslessInv'
  OBVIOUS
<1>2. IInv' /\ OrderInv'
  BY <1>1, NextInv, NextInOrder DEF LosslessInv
<1>3. CASE UNCHANGED vars
  <2>1. \A q \in Regions : Same(q)
    BY <1>3 DEF Same, vars, regionVars, tableVars, factoryVars
  <2>2. UNCHANGED <<losses, inc>>
    BY <1>3 DEF vars, regionVars
  <2> QED BY <1>1, <1>2, <2>1, <2>2, SameFits DEF LosslessInv, Calm
<1> QED BY <1>1, <1>2, <1>3, RegionStepFits, DeliverFits, FactoryStepFits,
           CheckTimerFits, RestartFits DEF Next

(* Without losses, crashes and restarts of a region its entry is exact,    *)
(* and is the region as it is now once the messages are drained.           *)
THEOREM LosslessEntriesExact == Spec => []LosslessExact
<1>1. LosslessInv => LosslessExact
  <2>1. SUFFICES ASSUME LosslessInv, NEW r \in known \cap Regions, losses = 0, inc[r] = 1,
                        Faults \cap {"crash", "silence"} = {}
                 PROVE  /\ synced[r] /\ EntryExact(r)
                        /\ chan[r] = <<>> => tver[r] = version[r]
    BY DEF LosslessExact
  <2>2. Fits(r)
    BY <2>1 DEF LosslessInv, Calm
  <2>3. synced[r] /\ (chan[r] = <<>> => tver[r] = version[r])
    BY <2>2 DEF Fits, StageFits, ChainFits, GoesOn
  <2> QED BY <2>1, <2>3 DEF LosslessInv, IInv, TableExact
<1> QED BY <1>1, InitFits, NextFits, PTL DEF Spec
=============================================================================

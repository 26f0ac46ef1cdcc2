---------------------------- MODULE RegionSyncInv ----------------------------
(***************************************************************************)
(* The inductive invariant behind TableExact and NoOrphans.  What travels  *)
(* to the tracker (messages, a snapshot) and what the tracker keeps        *)
(* (cached updates, entries) all refer to states the region went through;  *)
(* these never change afterwards, so that a fact about them survives every *)
(* step of the region and can be used when the tracker gets to it.         *)
(***************************************************************************)
EXTENDS RegionSync

(* The i-th run of r has been at version v.                                *)
Past(r, i, v) == i < inc[r] \/ (i = inc[r] /\ v <= version[r])

(* The history ends in the present and has nothing beyond it.              *)
HistoryTrue ==
  \A r \in Regions :
    /\ hist[r][inc[r]][version[r]] = content[r]
    /\ \A i \in 0..MaxInc, v \in 0..MaxVersion : ~ Past(r, i, v) => hist[r][i][v] = {}

(* A message tells the truth about the version it carries, and the one     *)
(* that first published a version is the change that made it.              *)
MessageTrue(r, m) ==
  /\ Past(r, m.inc, m.ver)
  /\ m.kind \in AddKinds => m.item \in hist[r][m.inc][m.ver]
  /\ m.kind \in RmKinds => m.item \notin hist[r][m.inc][m.ver]
  /\ m.fresh => /\ m.ver > 0
                /\ hist[r][m.inc][m.ver] = Apply(hist[r][m.inc][m.ver - 1], m)

MessagesTrue ==
  \A r \in Regions :
    /\ \A k \in 1..Len(chan[r]) : MessageTrue(r, chan[r][k])
    /\ \A k \in 1..Len(updates[r]) : MessageTrue(r, updates[r][k])

SnapshotsTrue ==
  \A r \in Regions : factory[r] = "built" =>
    /\ Past(r, snap[r].inc, snap[r].ver)
    /\ snap[r].content = hist[r][snap[r].inc][snap[r].ver]

EntriesPast ==
  \A r \in known \cap Regions : synced[r] => Past(r, tinc[r], tver[r])

IInv ==
  /\ TypeOK
  /\ HistoryTrue
  /\ MessagesTrue
  /\ SnapshotsTrue
  /\ EntriesPast
  /\ TableExact
  /\ NoOrphans
=============================================================================

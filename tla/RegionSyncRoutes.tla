-------------------------- MODULE RegionSyncRoutes --------------------------
(***************************************************************************)
(* Regions, channels and tracker together keep what RouteTable promises:   *)
(* lost messages, restarts, failed snapshots, replayed updates and the     *)
(* entry of the empty id never show as anything but a region that enters   *)
(* with all it has, entries of known regions and regions that leave whole. *)
(***************************************************************************)
EXTENDS RegionSyncInv

Ids == Regions \cup {EmptyId}

(* The entry of the empty id has no services.                              *)
providers == [r \in Ids |-> IF r \in Regions THEN tsvc[r] ELSE {}]

Routes == INSTANCE RouteTable WITH
  Regions <- Ids,
  tsvc <- providers

(* What the tracker's table answers behaves like a route table.            *)
AnswersRoutes == Routes!Spec
=============================================================================

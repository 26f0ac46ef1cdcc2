------------------------- MODULE MCSnapshotTransfer -------------------------
(* Tables for SnapshotTransfer: one without a region and one of two, the   *)
(* second with an item, whose package of seven messages takes four periods *)
(* of two.                                                                 *)
EXTENDS SnapshotTransfer

CONSTANTS r1, r2, x

MCTables ==
  {<<>>, <<[region |-> r1, items |-> <<>>], [region |-> r2, items |-> <<x>>]>>}
=============================================================================

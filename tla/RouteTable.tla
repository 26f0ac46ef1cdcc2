----------------------------- MODULE RouteTable -----------------------------
(***************************************************************************)
(* What the tracker's table promises to those who ask it for routes, with  *)
(* no lists, indexes, clocks, versions or messages: a region enters with   *)
(* all it has in one step, services and payloads are entered only for a    *)
(* region the table knows, a payload is carried by one region at a time,   *)
(* and a region that leaves takes everything of it along in the same step. *)
(* RITrackerTable (module TrackerTable) and the whole of region, channel   *)
(* and tracker (module RegionSync) are shown to implement it.              *)
(***************************************************************************)
CONSTANTS
  Regions,    \* the region ids
  Services,   \* service names
  Payloads,   \* payload ids
  NoRegion    \* no region carries the payload

VARIABLES
  known,      \* the regions of the table
  tsvc,       \* the services a region provides
  owner       \* the region that carries a payload

vars == <<known, tsvc, owner>>

Init ==
  /\ known = {}
  /\ tsvc = [r \in Regions |-> {}]
  /\ owner = [p \in Payloads |-> NoRegion]

(* A region enters with the services and the payloads it has.              *)
Enter(r) ==
  /\ r \notin known
  /\ known' = known \cup {r}
  /\ tsvc' \in [Regions -> SUBSET Services]
  /\ \A q \in Regions \ {r} : tsvc'[q] = tsvc[q]
  /\ owner' \in [Payloads -> Regions \cup {NoRegion}]
  /\ \A p \in Payloads : owner'[p] \in {owner[p], r}

Provide(r, s) ==
  /\ r \in known
  /\ tsvc' = [tsvc EXCEPT ![r] = @ \cup {s}]
  /\ UNCHANGED <<known, owner>>

Carry(r, p) ==
  /\ r \in known
  /\ owner' = [owner EXCEPT ![p] = r]
  /\ UNCHANGED <<known, tsvc>>

(* Regions and entries leave; nothing is left of a region that leaves.     *)
Leave ==
  /\ known' \in SUBSET known
  /\ tsvc' \in [Regions -> SUBSET Services]
  /\ \A r \in Regions : tsvc'[r] \subseteq tsvc[r]
  /\ \A r \in known \ known' : tsvc'[r] = {}
  /\ owner' \in [Payloads -> known' \cup {NoRegion}]
  /\ \A p \in Payloads : owner'[p] \in {owner[p], NoRegion}

Next ==
  \/ Leave
  \/ \E r \in Regions : Enter(r)
  \/ \E r \in Regions, s \in Services : Provide(r, s)
  \/ \E r \in Regions, p \in Payloads : Carry(r, p)

Spec == Init /\ [][Next]_vars
=============================================================================

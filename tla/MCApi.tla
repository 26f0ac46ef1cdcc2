------------------------------- MODULE MCApi --------------------------------
(* The sessions of one kind are alike, and so are the payloads.  The two   *)
(* actors share nothing, so a behaviour of both is an interleaving of one  *)
(* with RegionSessions and one with TrackerSessions only: OneActor leaves  *)
(* it at these.  The tracker's sessions make TrackerCalls of the MaxCalls. *)
EXTENDS Api

ApiSymmetry == Permutations(RegionSessions) \cup Permutations(Payloads)

TrackerCalls == 3

OneActor ==
  \/ calls <= TrackerCalls /\ \A s \in RegionSessions : phase[s] = "new"
  \/ known = {} /\ \A s \in TrackerSessions : phase[s] = "new"
=============================================================================

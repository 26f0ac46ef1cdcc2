----------------------------- MODULE SyncReplay -----------------------------
(***************************************************************************)
(* What a tracker computes when the snapshot of a region has arrived:      *)
(* RegionSubCacher::present looks in the updates cached meanwhile for the  *)
(* one that carries the snapshot's version, drops everything up to it,     *)
(* insists that the rest carry the following versions one by one, and      *)
(* replays them on the RegionProduct built from the snapshot.              *)
(*                                                                         *)
(* An update is a record with the fields kind, ver and item.  The content  *)
(* of a region is the set of the names of its services and payloads: the   *)
(* lists and indexes of RegionProduct hold no name twice, and a repeated   *)
(* name overwrites its entry.                                              *)
(***************************************************************************)
EXTENDS Integers, Sequences

AddKinds == {"service", "payload"}
RmKinds  == {"rmservice", "rmpayload"}

Adds(m, x)    == m.kind \in AddKinds /\ m.item = x
Removes(m, x) == m.kind \in RmKinds /\ m.item = x

(* One update replayed on a content (RegionProduct::on...); a region       *)
(* announcement leaves the content alone.                                  *)
Apply(c, m) ==
  IF m.kind \in AddKinds THEN c \cup {m.item}
  ELSE IF m.kind \in RmKinds THEN c \ {m.item}
  ELSE c

(* Mutant of Replayed: removals are not replayed.                          *)
ReplayedAddsOnly(c, u, i, n) ==
  c \cup {x \in {u[k].item : k \in (i+1)..n} : \E k \in (i+1)..n : Adds(u[k], x)}

(* The content after the updates u[i+1], ..., u[n] are replayed in this    *)
(* order on c: what was added and not removed afterwards, and what was     *)
(* there and never removed.                                                *)
Replayed(c, u, i, n) ==
  {x \in c \cup {u[k].item : k \in (i+1)..n} :
     \/ x \in c /\ \A k \in (i+1)..n : ~ Removes(u[k], x)
     \/ \E k \in (i+1)..n : /\ Adds(u[k], x)
                            /\ \A j \in (k+1)..n : ~ Removes(u[j], x)}

(* u[i] is the update present() stops at: the first one whose version is v *)
FirstMatch(u, v, i) ==
  /\ i \in 1..Len(u)
  /\ u[i].ver = v
  /\ \A j \in 1..(i-1) : u[j].ver # v

(* Mutants of Consecutive: gaps pass, as in expecting only a later         *)
(* version; repetitions pass, as in skipping what is already there.        *)
ConsecutiveWithGaps(u, v, i) == \A j \in (i+1)..Len(u) : u[j].ver >= v + (j - i)
ConsecutiveWithRepeats(u, v, i) ==
  \A j \in (i+1)..Len(u) : u[j].ver \in {u[j-1].ver, u[j-1].ver + 1}

(* The updates behind u[i] carry the versions v+1, v+2, ... with no gap    *)
(* and no repetition.                                                      *)
Consecutive(u, v, i) == \A j \in (i+1)..Len(u) : u[j].ver = v + (j - i)

(* present() returns 0.                                                    *)
Presents(u, v) == \E i \in 1..Len(u) : FirstMatch(u, v, i) /\ Consecutive(u, v, i)
=============================================================================

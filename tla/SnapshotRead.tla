---------------------------- MODULE SnapshotRead ----------------------------
(***************************************************************************)
(* What the transfer of a snapshot promises: a client that is told of      *)
(* success holds exactly the table of one moment after it asked, or, when  *)
(* its connection broke, parts of it; every other client is told of an     *)
(* error and holds nothing it may use.                                     *)
(***************************************************************************)
EXTENDS SequencesExt

CONSTANTS
  Clients,   \* the transfers
  Tables,    \* what a table may hold
  NoTable    \* nothing read

VARIABLES
  table,     \* what the table holds
  taken,     \* what it held when it was read for a client
  outcome,   \* "idle", "asked", "done" or "failed"
  view,      \* what a client that is done holds
  broken     \* the clients whose connection broke

vars == <<table, taken, outcome, view, broken>>

(* Every region of v is one of t, with no item it has not there.           *)
PartOf(v, t) ==
  \A i \in 1..Len(v) : \E j \in 1..Len(t) :
    /\ v[i].region = t[j].region
    /\ ToSet(v[i].items) \subseteq ToSet(t[j].items)

Init ==
  /\ table \in Tables
  /\ taken = [c \in Clients |-> NoTable]
  /\ outcome = [c \in Clients |-> "idle"]
  /\ view = [c \in Clients |-> NoTable]
  /\ broken = {}

Change ==
  /\ table' \in Tables
  /\ UNCHANGED <<taken, outcome, view, broken>>

Ask(c) ==
  /\ outcome[c] = "idle"
  /\ outcome' = [outcome EXCEPT ![c] = "asked"]
  /\ UNCHANGED <<table, taken, view, broken>>

(* The table is read once for a client, also for one that gave up.         *)
Read(c) ==
  /\ outcome[c] # "idle"
  /\ taken[c] = NoTable
  /\ taken' = [taken EXCEPT ![c] = table]
  /\ UNCHANGED <<table, outcome, view, broken>>

Break(c) ==
  /\ outcome[c] = "asked"
  /\ broken' = broken \cup {c}
  /\ UNCHANGED <<table, taken, outcome, view>>

Done(c) ==
  LET got == view'[c] IN
  /\ outcome[c] = "asked"
  /\ taken[c] # NoTable
  /\ outcome' = [outcome EXCEPT ![c] = "done"]
  /\ view' = [view EXCEPT ![c] = got]
  /\ got = taken[c] \/ (c \in broken /\ PartOf(got, taken[c]))
  /\ UNCHANGED <<table, taken, broken>>

Fail(c) ==
  /\ outcome[c] = "asked"
  /\ outcome' = [outcome EXCEPT ![c] = "failed"]
  /\ UNCHANGED <<table, taken, view, broken>>

Next ==
  \/ Change
  \/ \E c \in Clients : Ask(c) \/ Read(c) \/ Break(c) \/ Done(c) \/ Fail(c)

Spec == Init /\ [][Next]_vars
=============================================================================

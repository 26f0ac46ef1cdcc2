-------------------------- MODULE SnapshotTransfer --------------------------
(***************************************************************************)
(* The transfer of a snapshot from the thread of SnapshotService to the    *)
(* SnapshotClientWorkers of its clients: the service asks the loop that    *)
(* owns the table for a package (SnapshotFeature), sends it in periods and *)
(* waits after each for the client's answer to its sync signal.  A client  *)
(* is named by its requester id, new for every transfer; its worker, its   *)
(* SnapshotClient and the caller's callback are one actor here.            *)
(***************************************************************************)
EXTENDS Lists

CONSTANTS
  Clients,       \* the transfers, by requester id
  Regions,       \* region ids
  Items,         \* services and payloads
  Tables,        \* what the table may hold: regions with their items
  NoTable,       \* nothing read
  Capacity,      \* SnapshotCtx.capacity
  PeriodCounts,  \* what a configuration may set SnapshotCtx.period_count to
  MaxFaults      \* bound: connections that break, hops slower than a timeout

ASSUME TransferAssumption ==
  /\ {"loop", "ended"} \cap Clients = {}
  /\ NoTable \notin Tables
  /\ Capacity \in Nat \ {0}
  /\ PeriodCounts \subseteq Nat
  /\ MaxFaults \in Nat

(* The regions of a table have different ids, they are keys of its index.  *)
ASSUME TablesAssumption ==
  /\ Tables \subseteq Seq([region : Regions, items : Seq(Items)])
  /\ \A t \in Tables : \A i, j \in 1..Len(t) : t[i].region = t[j].region => i = j

VARIABLES
  table,      \* what RIRegionTable or RITrackerTable holds
  actor,      \* its loop: "running", "stopping" (ended) or "stopped"
  period,     \* SnapshotCtx.period_count, as configured
  feature,    \* the feature's pipe: "idle", "asked" or "answered"
  package,    \* SnapshotFeature::m_package
  svc,        \* the service's thread: "loop", "ended" or the client it asks for
  left,       \* m_workers: what is still to send, <<>> for no worker
  stage,      \* what a client waits for (ZLoopReader's state), or its end
  builder,    \* what its ISnapshotBuilder was given
  toClient,   \* the messages on their way to a client
  toService,  \* and from it
  taken,      \* history: the table a client's package was built from
  cause,      \* history: what went wrong at a client's worker last
  broken,     \* history: the clients that lost messages with a connection
  faults      \* the faults so far

service == <<feature, package, svc, left>>
client == <<stage, builder, cause>>
vars == <<table, actor, period, service, client, toClient, toService, taken, broken, faults>>

Pulling == {"Request", "SnapshotBegin", "RegionBegin", "RegionBody", "RegionOrFinish"}
Ended == {"done", "failed", "stopped"}

Msg(t, x) == [type |-> t, of |-> x]
Rep(result) == Msg("SnapshotRep", result)
SyncReq == Msg("SyncSignalReq", "")

Init ==
  /\ table \in Tables
  /\ actor = "running"
  /\ period \in PeriodCounts
  /\ feature = "idle" /\ package = <<>>
  /\ svc = "loop"
  /\ left = [c \in Clients |-> <<>>]
  /\ stage = [c \in Clients |-> "new"]
  /\ builder = [c \in Clients |-> <<>>]
  /\ toClient = [c \in Clients |-> <<>>]
  /\ toService = [c \in Clients |-> <<>>]
  /\ taken = [c \in Clients |-> NoTable]
  /\ cause = [c \in Clients |-> "none"]
  /\ broken = {}
  /\ faults = 0

workers == {c \in Clients : left[c] # <<>>}

(* The worker's socket is destroyed.                                       *)
gone(c) == stage[c] \notin Pulling

(* Nothing is under way that would bring the client a message.             *)
stalled(c) ==
  /\ toClient[c] = <<>>
  /\ actor = "running" => toService[c] = <<>> /\ svc # c

(* A fault, unless it is none.                                             *)
Fault(harmless) ==
  \/ harmless /\ UNCHANGED faults
  \/ ~ harmless /\ faults < MaxFaults /\ faults' = faults + 1

-----------------------------------------------------------------------------
(* The loop of the region or the tracker.                                  *)

Change ==
  /\ actor = "running"
  /\ table' \in Tables \ {table}
  /\ UNCHANGED <<actor, period, service, client, toClient, toService, taken, broken, faults>>

(* buildSnapshot of the table.                                             *)
buildSnapshot(t) ==
  LET block(b) == <<Msg("RegionBegin", b.region)>>
                    \o [i \in 1..Len(b.items) |-> Msg("Item", b.items[i])]
                    \o <<Msg("RegionEnd", b.region)>>
  IN <<Msg("SnapshotBegin", "")>>
       \o FlattenSeq([i \in 1..Len(t) |-> block(t[i])])
       \o <<Msg("SnapshotEnd", "")>>

onRequest ==
  /\ actor = "running"
  /\ feature = "asked"
  /\ feature' = "answered"
  /\ package' = buildSnapshot(table)
  /\ taken' = [taken EXCEPT ![svc] = table]
  /\ UNCHANGED <<table, actor, period, svc, left, client, toClient, toService, broken, faults>>

(* The loop ends; the destructors run, the service's stop() waits.         *)
Stop ==
  /\ actor = "running"
  /\ actor' = "stopping"
  /\ UNCHANGED <<table, period, service, client, toClient, toService, taken, broken, faults>>

Stopped ==
  /\ actor = "stopping"
  /\ svc = "ended"
  /\ actor' = "stopped"
  /\ UNCHANGED <<table, period, service, client, toClient, toService, taken, broken, faults>>

-----------------------------------------------------------------------------
(* The service's thread.                                                   *)

Send(c, s) ==
  toClient' = [toClient EXCEPT ![c] = IF gone(c) THEN <<>> ELSE @ \o s]

(* Mutant of sendItems: the sync signal counts as an item of the period.   *)
sendItemsShort(c, s) ==
  LET rest == SubSeq(s, period, Len(s))
      out == SubSeq(s, 1, Len(s) - Len(rest))
  IN
  /\ Send(c, out \o (IF rest = <<>> THEN <<>> ELSE <<SyncReq>>))
  /\ left' = [left EXCEPT ![c] = rest]
  /\ UNCHANGED faults

(* Mutant of sendItems: when a send fails the next items are still sent.   *)
sendItemsSkips(c, s) ==
  LET rest == SubSeq(s, period + 1, Len(s))
      out == SubSeq(s, 1, Len(s) - Len(rest))
      signal == IF rest = <<>> THEN <<>> ELSE <<SyncReq>>
  IN
  /\ left' = [left EXCEPT ![c] = rest]
  /\ \/ Send(c, out \o signal) /\ UNCHANGED faults
     \/ (\E k \in 1..Len(out) : Send(c, RemoveAt(out, k) \o signal)) /\ Fault(gone(c))

(* sendItems and what its callers do with the result: up to period         *)
(* items of s and, when some are left, a sync signal for the worker that   *)
(* keeps them.  A send fails only where the socket is mandatory and the    *)
(* client cannot be routed to; sendItems then returns 0, as if all were    *)
(* sent.                                                                   *)
sendItems(c, s) ==
  LET rest == SubSeq(s, period + 1, Len(s))
      out == SubSeq(s, 1, Len(s) - Len(rest))
  IN
  \/ /\ Send(c, out \o (IF rest = <<>> THEN <<>> ELSE <<SyncReq>>))
     /\ left' = [left EXCEPT ![c] = rest]
     /\ UNCHANGED faults
  \/ /\ \E k \in 0..(Len(out) - 1) : Send(c, SubSeq(out, 1, k))
     /\ left' = [left EXCEPT ![c] = <<>>]
     /\ Fault(gone(c))

Received(c, type) ==
  /\ svc = "loop"
  /\ toService[c] # <<>>
  /\ Head(toService[c]) = type
  /\ toService' = [toService EXCEPT ![c] = Tail(@)]

(* Mutant of accepts: one client too many is accepted.                     *)
acceptsOneMore(c) == c \notin workers /\ Cardinality(workers) <= Capacity

accepts(c) == c \notin workers /\ Cardinality(workers) < Capacity

(* The request is accepted; the service waits on the feature's pipe.       *)
onSnapshotReq(c) ==
  /\ Received(c, "SnapshotReq")
  /\ accepts(c)
  /\ Send(c, <<Rep(0)>>)
  /\ svc' = c
  /\ feature' = "asked"
  /\ UNCHANGED <<table, actor, period, package, left, client, taken, broken, faults>>

(* It is refused, or accepted with an answer that cannot be sent.          *)
refuse(c) ==
  /\ Received(c, "SnapshotReq")
  /\ \/ ~ accepts(c) /\ Send(c, <<Rep(-1)>>) /\ UNCHANGED faults
     \/ accepts(c) /\ UNCHANGED toClient /\ Fault(gone(c))
  /\ UNCHANGED <<table, actor, period, service, client, taken, broken>>

(* The feature has answered: the first period goes out.                    *)
onBuilt(c) ==
  /\ svc = c
  /\ feature = "answered"
  /\ feature' = "idle" /\ package' = <<>>
  /\ svc' = "loop"
  /\ sendItems(c, package)
  /\ UNCHANGED <<table, actor, period, client, toService, taken, broken>>

(* A worker that timed out meanwhile is unknown and the signal ignored.    *)
onSyncSignal(c) ==
  /\ Received(c, "SyncSignalRep")
  /\ IF c \in workers
       THEN sendItems(c, left[c])
       ELSE UNCHANGED <<toClient, left, faults>>
  /\ UNCHANGED <<table, actor, period, feature, package, svc, client, taken, broken>>

(* Mutant of onTimer: a worker that timed out is kept.                     *)
onTimerKeeps(S) ==
  /\ svc = "loop"
  /\ S # {}
  /\ UNCHANGED vars

(* The workers S have not sent for longer than the timeout.                *)
onTimer(S) ==
  /\ svc = "loop"
  /\ S # {}
  /\ left' = [c \in Clients |-> IF c \in S THEN <<>> ELSE left[c]]
  /\ Fault(\A c \in S : gone(c) \/ stalled(c))
  /\ UNCHANGED <<table, actor, period, feature, package, svc, client, toClient, toService, taken, broken>>

(* $TERM: the thread ends, its socket and workers go.                      *)
onPipeReadable ==
  /\ actor = "stopping"
  /\ svc = "loop"
  /\ svc' = "ended"
  /\ left' = [c \in Clients |-> <<>>]
  /\ toService' = [c \in Clients |-> <<>>]
  /\ UNCHANGED <<table, actor, period, feature, package, client, toClient, taken, broken, faults>>

-----------------------------------------------------------------------------
(* The clients.                                                            *)

start(c) ==
  /\ stage[c] = "new"
  /\ stage' = [stage EXCEPT ![c] = "Request"]
  /\ toService' = [toService EXCEPT ![c] = <<"SnapshotReq">>]
  /\ UNCHANGED <<table, actor, period, service, builder, cause, toClient, taken, broken, faults>>

Reading(c, s) == stage[c] = s /\ toClient[c] # <<>>

(* The worker takes the message and then waits for what "next" names;      *)
(* "finished" and "gaveUp" are finish(0) and finish(-1).                   *)
Take(c, next, why) ==
  /\ stage' = [stage EXCEPT ![c] = next]
  /\ cause' = [cause EXCEPT ![c] = IF why = "" THEN @ ELSE why]
  /\ toClient' = [toClient EXCEPT
       ![c] = IF next \in {"finished", "gaveUp"} THEN <<>> ELSE Tail(@)]
  /\ UNCHANGED <<table, actor, period, service, taken, broken, faults>>

(* What is no SnapshotRep is not parsed.                                   *)
onReqReadable(c) ==
  LET m == Head(toClient[c]) IN
  /\ Reading(c, "Request")
  /\ IF m = Rep(0)
       THEN Take(c, "SnapshotBegin", "")
       ELSE Take(c, "gaveUp", IF m = Rep(-1) THEN "refused" ELSE "unexpected")
  /\ UNCHANGED <<builder, toService>>

(* Mutant of pullSnapshotBegin: no region is waited for.                   *)
pullSnapshotBeginLoose(c) ==
  /\ Reading(c, "SnapshotBegin")
  /\ IF Head(toClient[c]).type = "SnapshotBegin"
       THEN Take(c, "RegionOrFinish", "")
       ELSE Take(c, "gaveUp", "unexpected")
  /\ UNCHANGED <<builder, toService>>

pullSnapshotBegin(c) ==
  /\ Reading(c, "SnapshotBegin")
  /\ IF Head(toClient[c]).type = "SnapshotBegin"
       THEN Take(c, "RegionBegin", "")
       ELSE Take(c, "gaveUp", "unexpected")
  /\ UNCHANGED <<builder, toService>>

addRegion(c, r) ==
  builder' = [builder EXCEPT ![c] = Append(@, [region |-> r, items |-> <<>>])]

addItem(c, x) ==
  builder' = [builder EXCEPT ![c][Len(builder[c])].items = Append(@, x)]

pullRegionBegin(c) ==
  LET m == Head(toClient[c]) IN
  /\ Reading(c, "RegionBegin")
  /\ IF m.type = "RegionBegin"
       THEN Take(c, "RegionBody", "") /\ addRegion(c, m.of)
       ELSE Take(c, "gaveUp", "unexpected") /\ UNCHANGED builder
  /\ UNCHANGED toService

(* The worker answers a sync signal and waits for the same as before.      *)
answerSync(c) ==
  /\ Head(toClient[c]) = SyncReq
  /\ Take(c, stage[c], "")
  /\ toService' = [toService EXCEPT ![c] = Append(@, "SyncSignalRep")]
  /\ UNCHANGED builder

(* A message of another type is only logged here.                          *)
pullRegionOrFinish(c) ==
  LET m == Head(toClient[c]) IN
  /\ Reading(c, "RegionOrFinish")
  /\ \/ /\ m.type = "RegionBegin"
        /\ Take(c, "RegionBody", "")
        /\ addRegion(c, m.of)
        /\ UNCHANGED toService
     \/ /\ m.type \notin {"RegionBegin", "SyncSignalReq"}
        /\ IF m.type = "SnapshotEnd"
             THEN Take(c, "finished", "")
             ELSE Take(c, "RegionOrFinish", "unexpected")
        /\ UNCHANGED <<builder, toService>>
     \/ answerSync(c)

(* Mutant of pullRegionBody: the sync signal is not answered.              *)
pullRegionBodyMute(c) ==
  LET m == Head(toClient[c])
      last == builder[c][Len(builder[c])].region
  IN
  /\ Reading(c, "RegionBody")
  /\ \/ m.type = "Item" /\ Take(c, "RegionBody", "") /\ addItem(c, m.of)
     \/ m.type = "RegionEnd" /\ m.of = last /\ Take(c, "RegionOrFinish", "") /\ UNCHANGED builder
     \/ m.type = "SyncSignalReq" /\ Take(c, "RegionBody", "") /\ UNCHANGED builder
  /\ UNCHANGED toService

(* Mutant of pullRegionBody: every item is answered like a sync signal.    *)
pullRegionBodyEager(c) ==
  LET m == Head(toClient[c])
      last == builder[c][Len(builder[c])].region
  IN
  /\ Reading(c, "RegionBody")
  /\ \/ m.type = "Item" /\ Take(c, "RegionBody", "") /\ addItem(c, m.of)
     \/ m.type = "RegionEnd" /\ m.of = last /\ Take(c, "RegionOrFinish", "") /\ UNCHANGED builder
     \/ m.type = "SyncSignalReq" /\ Take(c, "RegionBody", "") /\ UNCHANGED builder
  /\ toService' = [toService EXCEPT ![c] = Append(@, "SyncSignalRep")]

(* m_last_region is the region the builder was given last.                 *)
pullRegionBody(c) ==
  LET m == Head(toClient[c])
      last == builder[c][Len(builder[c])].region
  IN
  /\ Reading(c, "RegionBody")
  /\ \/ /\ m.type = "Item"
        /\ Take(c, "RegionBody", "")
        /\ addItem(c, m.of)
        /\ UNCHANGED toService
     \/ /\ m.type \notin {"Item", "SyncSignalReq"}
        /\ IF m = Msg("RegionEnd", last)
             THEN Take(c, "RegionOrFinish", "")
             ELSE Take(c, "gaveUp", "unexpected")
        /\ UNCHANGED <<builder, toService>>
     \/ answerSync(c)

(* Mutant of onTimeoutTimer: only the request has a timeout.               *)
onTimeoutTimerOnce(c) ==
  /\ stage[c] = "Request"
  /\ Fault(stalled(c))
  /\ stage' = [stage EXCEPT ![c] = "gaveUp"]
  /\ cause' = [cause EXCEPT ![c] = "timeout"]
  /\ toClient' = [toClient EXCEPT ![c] = <<>>]
  /\ UNCHANGED <<table, actor, period, service, builder, toService, taken, broken>>

(* No message for 3 s.                                                     *)
onTimeoutTimer(c) ==
  /\ stage[c] \in Pulling
  /\ Fault(stalled(c))
  /\ stage' = [stage EXCEPT ![c] = "gaveUp"]
  /\ cause' = [cause EXCEPT ![c] = "timeout"]
  /\ toClient' = [toClient EXCEPT ![c] = <<>>]
  /\ UNCHANGED <<table, actor, period, service, builder, toService, taken, broken>>

(* SnapshotClient: the caller is told how it ended.                        *)
onCallerPipeReadable(c) ==
  /\ \/ stage[c] = "finished" /\ stage' = [stage EXCEPT ![c] = "done"]
     \/ stage[c] = "gaveUp" /\ stage' = [stage EXCEPT ![c] = "failed"]
  /\ UNCHANGED <<table, actor, period, service, builder, cause, toClient, toService, taken, broken, faults>>

(* The caller gives up or dies: SnapshotClient::stop at any time.          *)
stop(c) ==
  /\ stage[c] \in Pulling \cup {"finished", "gaveUp"}
  /\ stage' = [stage EXCEPT ![c] = "stopped"]
  /\ toClient' = [toClient EXCEPT ![c] = <<>>]
  /\ UNCHANGED <<table, actor, period, service, builder, cause, toService, taken, broken, faults>>

(* The connection breaks and is made again: a run of what is on the way is *)
(* lost in either direction, later messages arrive.                        *)
Break(c) ==
  /\ ~ gone(c)
  /\ Fault(FALSE)
  /\ \E down \in Torn(toClient[c]), up \in Torn(toService[c]) :
       /\ down # toClient[c] \/ up # toService[c]
       /\ toClient' = [toClient EXCEPT ![c] = down]
       /\ toService' = [toService EXCEPT ![c] = up]
  /\ broken' = broken \cup {c}
  /\ UNCHANGED <<table, actor, period, service, client, taken>>

pull(c) ==
  \/ onReqReadable(c) \/ pullSnapshotBegin(c) \/ pullRegionBegin(c)
  \/ pullRegionOrFinish(c) \/ pullRegionBody(c)

Next ==
  \/ Change \/ onRequest \/ Stop \/ Stopped \/ onPipeReadable
  \/ \E S \in SUBSET workers : onTimer(S)
  \/ \E c \in Clients :
       \/ onSnapshotReq(c) \/ refuse(c) \/ onBuilt(c) \/ onSyncSignal(c)
       \/ start(c) \/ pull(c) \/ onTimeoutTimer(c) \/ onCallerPipeReadable(c)
       \/ stop(c) \/ Break(c)

Spec == Init /\ [][Next]_vars

(* The loops run, what arrives is read, and a timer fires when nothing is  *)
(* under way that would put it off.                                        *)
Fairness ==
  /\ WF_vars(onRequest) /\ WF_vars(onPipeReadable) /\ WF_vars(Stopped)
  /\ \A c \in Clients :
       /\ WF_vars(onSnapshotReq(c) \/ refuse(c)) /\ WF_vars(onBuilt(c))
       /\ WF_vars(onSyncSignal(c))
       /\ WF_vars(pull(c)) /\ WF_vars(onCallerPipeReadable(c))
       /\ WF_vars(stalled(c) /\ onTimeoutTimer(c))
       /\ WF_vars((gone(c) \/ stalled(c)) /\ c \in workers /\ onTimer({c}))

FairSpec == Spec /\ Fairness

-----------------------------------------------------------------------------
(* Properties.                                                             *)

(* Everybody is where the code can be, and the two threads agree on the    *)
(* state of the pipe between them.                                         *)
TypeOK ==
  /\ table \in Tables
  /\ actor \in {"running", "stopping", "stopped"}
  /\ feature \in {"idle", "asked", "answered"}
  /\ svc \in Clients \cup {"loop", "ended"}
  /\ svc \in Clients <=> feature # "idle"
  /\ \A c \in Clients :
       /\ stage[c] \in Pulling \cup Ended \cup {"new", "finished", "gaveUp"}
       /\ taken[c] \in Tables \cup {NoTable}
       /\ cause[c] \in {"none", "refused", "unexpected", "timeout"}
  /\ Cardinality(workers) <= Capacity
  /\ period \in PeriodCounts
  /\ broken \subseteq Clients
  /\ faults \in 0..MaxFaults

(* Periods end anywhere in the package and workers are dropped, and still  *)
(* a client meets no message its stage has no place for, unless its        *)
(* connection broke, or what was sent has no place anywhere: of a table    *)
(* without a region (a tracker that knows none), or in periods so short    *)
(* that the sync signal comes where a region has to begin.                 *)
InStep ==
  \A c \in Clients :
    cause[c] = "unexpected" => c \in broken \/ taken[c] = <<>> \/ period < 2

(* Whatever is lost on the way, a client that is told of success was sent  *)
(* a region in full periods: no transfer of an empty table or in periods   *)
(* of one message, which SnapshotCtx::load accepts, ever succeeds.         *)
SuccessHasRegions ==
  \A c \in Clients :
    stage[c] \in {"finished", "done"} => builder[c] # <<>> /\ period >= 2

(* While the service lives and nothing is slow or broken no client times   *)
(* out: service and client never wait for each other.                      *)
NoStall ==
  faults = 0 /\ actor = "running" => \A c \in Clients : cause[c] # "timeout"

(* No more than a period with its sync signal, and the answer to the       *)
(* request before the first, is on the way to a client, so the high water  *)
(* mark SnapshotService::run sets is enough for all of them.               *)
OnePeriodInFlight ==
  /\ \A c \in Clients : Len(toClient[c]) <= period + 2
  /\ \A c \in Clients : Len(toService[c]) <= 1

Read == INSTANCE SnapshotRead WITH
  outcome <- [c \in Clients |->
    IF stage[c] = "new" THEN "idle"
    ELSE IF stage[c] = "done" THEN "done"
    ELSE IF stage[c] \in {"failed", "stopped"} THEN "failed"
    ELSE "asked"],
  view <- [c \in Clients |-> IF stage[c] = "done" THEN builder[c] ELSE NoTable]

(* However it is cut into periods and however the table changes meanwhile, *)
(* a client that is told of success holds the table of one moment; one     *)
(* whose connection broke may miss parts of it, and is not told, but holds *)
(* nothing that was not in it.                                             *)
AtomicRead == Read!Spec

(* A client that asked is told how it ended, unless its caller stops it.   *)
ClientsFinish ==
  \A c \in Clients : stage[c] # "new" ~> stage[c] \in Ended

(* Clients that vanish or lose their connection give their place back.     *)
SlotsFreed ==
  \A c \in Clients : c \in workers ~> (c \notin workers \/ actor # "running")

(* The owner of the service stops when it is told to.                      *)
StopCompletes == actor = "stopping" ~> actor = "stopped"
=============================================================================

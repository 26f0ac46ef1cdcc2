----------------------- MODULE SnapshotTransferProofs -----------------------
(***************************************************************************)
(* The safety properties of SnapshotTransfer and its refinement of         *)
(* SnapshotRead, for any clients, tables, periods and faults.  Of the      *)
(* types, not plain is that a service never has more workers than its      *)
(* capacity: it checks the capacity when a request comes but adds the      *)
(* worker later, when the feature has answered.  For the rest, a client    *)
(* has a place in the script of its snapshot (the answer to the request    *)
(* and the package): what it holds is what stands before that place, and   *)
(* what is under way, with what the service has left, is what follows.     *)
(***************************************************************************)
EXTENDS SnapshotTransfer, OperatorLemmas

-----------------------------------------------------------------------------
(* The invariant.                                                          *)

Shapes ==
  /\ left = [c \in Clients |-> left[c]]
  /\ stage = [c \in Clients |-> stage[c]]
  /\ taken = [c \in Clients |-> taken[c]]
  /\ cause = [c \in Clients |-> cause[c]]

(* The client the service asks the feature for has its place: it is not    *)
(* taken until the answer comes.                                           *)
Places ==
  /\ IsFiniteSet(workers)
  /\ Cardinality(workers) <= Capacity
  /\ svc \in Clients => svc \notin workers /\ Cardinality(workers) < Capacity

Threads ==
  /\ table \in Tables
  /\ actor \in {"running", "stopping", "stopped"}
  /\ feature \in {"idle", "asked", "answered"}
  /\ svc \in Clients \cup {"loop", "ended"}
  /\ svc \in Clients <=> feature # "idle"
  /\ period \in PeriodCounts /\ broken \subseteq Clients
  /\ faults \in 0..MaxFaults /\ (faults = 0 => broken = {})

Stages == Pulling \cup Ended \cup {"new", "finished", "gaveUp"}

Causes == {"none", "refused", "unexpected", "timeout"}

ClientsOK ==
  \A c \in Clients :
    stage[c] \in Stages /\ taken[c] \in Tables \cup {NoTable} /\ cause[c] \in Causes

TransferInv == Shapes /\ Threads /\ ClientsOK /\ Places

LEMMA InvTypeOK == TransferInv => TypeOK
BY TransferAssumption DEF TransferInv, Threads, ClientsOK, Places, Stages, Causes, TypeOK

-----------------------------------------------------------------------------
(* Updates of one client, and of the set of workers.                       *)

LEMMA Updated ==
  ASSUME NEW f, f = [c \in Clients |-> f[c]], NEW c \in Clients, NEW v
  PROVE  /\ [f EXCEPT ![c] = v] = [d \in Clients |-> [f EXCEPT ![c] = v][d]]
         /\ [f EXCEPT ![c] = v][c] = v
         /\ \A d \in Clients \ {c} : [f EXCEPT ![c] = v][d] = f[d]
<1>1. [f EXCEPT ![c] = v] = [d \in Clients |-> IF d = c THEN v ELSE f[d]]
  OBVIOUS
<1> QED BY <1>1

LEMMA FewerWorkers ==
  ASSUME Places, workers' \subseteq workers, svc' \in Clients => svc' = svc
  PROVE  Places'
<1>1. IsFiniteSet(workers') /\ Cardinality(workers') <= Cardinality(workers)
  BY FS_Subset DEF Places
<1>2. Cardinality(workers) \in Nat /\ Cardinality(workers') \in Nat
  BY <1>1, FS_CardinalityType DEF Places
<1> HIDE DEF workers
<1> QED BY <1>1, <1>2, TransferAssumption DEF Places

(* The place that was kept is taken, or not.                               *)
LEMMA PlaceTaken ==
  ASSUME Places, svc \in Clients, workers' \subseteq workers \cup {svc}, svc' = "loop"
  PROVE  Places'
<1>1. IsFiniteSet(workers \cup {svc}) /\ Cardinality(workers \cup {svc}) = Cardinality(workers) + 1
  BY FS_AddElement DEF Places
<1>2. /\ IsFiniteSet(workers')
      /\ Cardinality(workers') <= Cardinality(workers \cup {svc})
  BY <1>1, FS_Subset
<1>3. Cardinality(workers) \in Nat /\ Cardinality(workers') \in Nat
  BY <1>2, FS_CardinalityType DEF Places
<1>4. Cardinality(workers') <= Capacity
  <2> HIDE DEF workers
  <2> QED BY <1>1, <1>2, <1>3, TransferAssumption DEF Places
<1> QED BY <1>2, <1>4, TransferAssumption DEF Places

(* A worker that sends keeps its rest, or goes.                            *)
LEMMA SentItems ==
  ASSUME TransferInv, NEW c \in Clients, NEW s, sendItems(c, s)
  PROVE  /\ left' = [d \in Clients |-> left'[d]]
         /\ workers' \subseteq workers \cup {c}
         /\ faults' \in 0..MaxFaults /\ (faults' = 0 => broken = {})
<1>1. PICK rest : left' = [left EXCEPT ![c] = rest]
  BY DEF sendItems
<1>2. left' = [d \in Clients |-> left'[d]] /\ \A d \in Clients \ {c} : left'[d] = left[d]
  BY <1>1, Updated DEF TransferInv, Shapes
<1>3. workers' \subseteq workers \cup {c}
  BY <1>2 DEF workers
<1>4. faults' \in 0..MaxFaults /\ (faults' = 0 => broken = {})
  BY TransferAssumption DEF sendItems, Fault, TransferInv, Threads
<1> QED BY <1>2, <1>3, <1>4

LEMMA FaultCounted ==
  ASSUME TransferInv, NEW harmless, Fault(harmless)
  PROVE  faults' \in 0..MaxFaults /\ (faults' = 0 => broken = {} /\ harmless)
BY TransferAssumption DEF Fault, TransferInv, Threads

-----------------------------------------------------------------------------
(* The steps.                                                              *)

LEMMA InitInv == Init => TransferInv
<1>1. SUFFICES ASSUME Init PROVE TransferInv
  OBVIOUS
<1>2. workers = {}
  BY <1>1 DEF Init, workers
<1>3. Shapes /\ Threads /\ ClientsOK
  BY <1>1, TransferAssumption DEF Init, Shapes, Threads, ClientsOK, Stages, Causes
<1>4. Places
  BY <1>1, <1>2, FS_EmptySet, TransferAssumption DEF Init, Places
<1> QED BY <1>3, <1>4 DEF TransferInv

(* Steps that leave the workers alone and no client new to the service.    *)
LEMMA PlacesUntouched ==
  ASSUME TransferInv, UNCHANGED left, svc' \in Clients => svc' = svc
  PROVE  Places'
BY FewerWorkers DEF TransferInv, workers

(* The loop of the region or the tracker.                                  *)
LEMMA OwnerInv ==
  ASSUME TransferInv, Change \/ onRequest \/ Stop \/ Stopped
  PROVE  TransferInv'
<1>1. UNCHANGED <<left, svc>>
  BY DEF Change, onRequest, Stop, Stopped, service
<1>2. Places'
  BY <1>1, PlacesUntouched
<1>3. CASE Change \/ Stop \/ Stopped
  BY <1>2, <1>3 DEF Change, Stop, Stopped, service, client, TransferInv, Shapes, Threads, ClientsOK
<1>4. CASE onRequest
  <2>1. svc \in Clients
    BY <1>4 DEF onRequest, TransferInv, Threads
  <2>2. /\ taken' = [d \in Clients |-> taken'[d]]
        /\ taken'[svc] = table
        /\ \A d \in Clients \ {svc} : taken'[d] = taken[d]
    BY <1>4, <2>1, Updated DEF onRequest, TransferInv, Shapes
  <2>3. Shapes' /\ Threads'
    BY <1>4, <2>1, <2>2 DEF onRequest, client, TransferInv, Shapes, Threads
  <2>4. ClientsOK'
    BY <1>4, <2>1, <2>2 DEF onRequest, client, TransferInv, Threads, ClientsOK
  <2> QED BY <1>2, <2>3, <2>4 DEF TransferInv
<1> QED BY <1>3, <1>4

(* What the service's thread does leaves the clients as they are.          *)
LEMMA ServiceInv ==
  ASSUME TransferInv, UNCHANGED <<client, taken>>, Threads', Places',
         left' = [c \in Clients |-> left'[c]]
  PROVE  TransferInv'
BY DEF TransferInv, client, Shapes, ClientsOK

LEMMA RequestInv ==
  ASSUME TransferInv, NEW c \in Clients, onSnapshotReq(c) \/ refuse(c)
  PROVE  TransferInv'
<1>1. UNCHANGED left
  BY DEF onSnapshotReq, refuse, service
<1>2. left' = [d \in Clients |-> left'[d]] /\ workers' = workers
  BY <1>1 DEF TransferInv, Shapes, workers
<1>3. CASE onSnapshotReq(c)
  <2>1. Threads'
    BY <1>3 DEF onSnapshotReq, TransferInv, Threads
  <2>2. Places'
    BY <1>2, <1>3 DEF onSnapshotReq, accepts, TransferInv, Places
  <2> QED BY <1>2, <1>3, <2>1, <2>2, ServiceInv DEF onSnapshotReq
<1>4. CASE refuse(c)
  <2>1. faults' \in 0..MaxFaults /\ (faults' = 0 => broken = {})
    BY <1>4, TransferAssumption DEF refuse, Fault, TransferInv, Threads
  <2>2. Threads'
    BY <1>4, <2>1 DEF refuse, service, TransferInv, Threads
  <2>3. Places'
    BY <1>1, <1>4, PlacesUntouched DEF refuse, service
  <2> QED BY <1>2, <1>4, <2>2, <2>3, ServiceInv DEF refuse
<1> QED BY <1>3, <1>4

LEMMA SendInv ==
  ASSUME TransferInv, NEW c \in Clients, onBuilt(c) \/ onSyncSignal(c)
  PROVE  TransferInv'
<1>1. CASE onBuilt(c)
  <2>1. sendItems(c, package) /\ svc = c /\ svc' = "loop"
    BY <1>1 DEF onBuilt
  <2>2. /\ left' = [d \in Clients |-> left'[d]]
        /\ workers' \subseteq workers \cup {c}
        /\ faults' \in 0..MaxFaults /\ (faults' = 0 => broken = {})
    BY <2>1, SentItems
  <2>3. Places'
    BY <2>1, <2>2, PlaceTaken DEF TransferInv
  <2>4. Threads'
    BY <1>1, <2>2, TransferAssumption DEF onBuilt, TransferInv, Threads
  <2> QED BY <1>1, <2>2, <2>3, <2>4, ServiceInv DEF onBuilt
<1>2. CASE onSyncSignal(c)
  <2>1. /\ left' = [d \in Clients |-> left'[d]]
        /\ workers' \subseteq workers
        /\ faults' \in 0..MaxFaults /\ (faults' = 0 => broken = {})
    <3>1. CASE c \in workers
      BY <1>2, <3>1, SentItems DEF onSyncSignal
    <3>2. CASE c \notin workers
      BY <1>2, <3>2 DEF onSyncSignal, workers, TransferInv, Shapes, Threads
    <3> QED BY <3>1, <3>2
  <2>2. Places'
    BY <1>2, <2>1, FewerWorkers DEF onSyncSignal, TransferInv
  <2>3. Threads'
    BY <1>2, <2>1 DEF onSyncSignal, TransferInv, Threads
  <2> QED BY <1>2, <2>1, <2>2, <2>3, ServiceInv DEF onSyncSignal
<1> QED BY <1>1, <1>2

LEMMA DropInv ==
  ASSUME TransferInv, (\E S \in SUBSET workers : onTimer(S)) \/ onPipeReadable
  PROVE  TransferInv'
<1>1. CASE \E S \in SUBSET workers : onTimer(S)
  <2>1. PICK S \in SUBSET workers : onTimer(S)
    BY <1>1
  <2>2. left' = [d \in Clients |-> left'[d]] /\ workers' \subseteq workers
    BY <2>1 DEF onTimer, workers
  <2>3. Places'
    BY <2>1, <2>2, FewerWorkers DEF onTimer, TransferInv
  <2>4. Threads'
    BY <2>1, FaultCounted DEF onTimer, TransferInv, Threads
  <2> QED BY <2>1, <2>2, <2>3, <2>4, ServiceInv DEF onTimer, client
<1>2. CASE onPipeReadable
  <2>1. left' = [d \in Clients |-> left'[d]] /\ workers' \subseteq workers
    BY <1>2 DEF onPipeReadable, workers
  <2>2. Places'
    BY <1>2, <2>1, FewerWorkers, TransferAssumption DEF onPipeReadable, TransferInv
  <2>3. Threads'
    BY <1>2, TransferAssumption DEF onPipeReadable, TransferInv, Threads
  <2> QED BY <1>2, <2>1, <2>2, <2>3, ServiceInv DEF onPipeReadable
<1> QED BY <1>1, <1>2

(* A client takes its next stage.                                          *)
LEMMA StageInv ==
  ASSUME TransferInv, NEW c \in Clients, NEW next \in Stages, NEW why \in Causes,
         stage' = [stage EXCEPT ![c] = next], cause' = [cause EXCEPT ![c] = why],
         UNCHANGED <<table, actor, period, broken, service, taken>>,
         faults' \in 0..MaxFaults, faults' = 0 => broken = {}
  PROVE  TransferInv'
<1>1. /\ stage' = [d \in Clients |-> stage'[d]]
      /\ stage'[c] = next /\ \A d \in Clients \ {c} : stage'[d] = stage[d]
  BY Updated DEF TransferInv, Shapes
<1>2. /\ cause' = [d \in Clients |-> cause'[d]]
      /\ cause'[c] = why /\ \A d \in Clients \ {c} : cause'[d] = cause[d]
  BY Updated DEF TransferInv, Shapes
<1>3. Shapes'
  BY <1>1, <1>2 DEF TransferInv, Shapes, service
<1>4. ClientsOK'
  BY <1>1, <1>2 DEF TransferInv, ClientsOK
<1>5. Threads'
  BY DEF TransferInv, Threads, service
<1>6. Places'
  BY PlacesUntouched DEF service
<1> QED BY <1>3, <1>4, <1>5, <1>6 DEF TransferInv

LEMMA CauseKept ==
  ASSUME TransferInv, NEW c \in Clients
  PROVE  cause[c] \in Causes /\ cause = [cause EXCEPT ![c] = cause[c]]
<1>1. cause = [d \in Clients |-> cause[d]] /\ cause[c] \in Causes
  BY DEF TransferInv, Shapes, ClientsOK
<1> QED BY <1>1

LEMMA TakeInv ==
  ASSUME TransferInv, NEW c \in Clients, NEW next \in Stages, NEW why,
         why \in Causes \cup {""}, Take(c, next, why)
  PROVE  TransferInv'
<1>1. cause[c] \in Causes
  BY CauseKept
<1>2. PICK w \in Causes : cause' = [cause EXCEPT ![c] = w]
  BY <1>1 DEF Take
<1>3. faults' \in 0..MaxFaults /\ (faults' = 0 => broken = {})
  BY DEF Take, TransferInv, Threads
<1> QED BY <1>2, <1>3, StageInv DEF Take

LEMMA PullInv ==
  ASSUME TransferInv, NEW c \in Clients, pull(c)
  PROVE  TransferInv'
<1>1. PICK next \in Stages, why \in Causes \cup {""} : Take(c, next, why)
  <2>1. CASE onReqReadable(c)
    BY <2>1 DEF onReqReadable, Stages, Causes, Pulling
  <2>2. CASE pullSnapshotBegin(c)
    BY <2>2 DEF pullSnapshotBegin, Stages, Causes, Pulling
  <2>3. CASE pullRegionBegin(c)
    BY <2>3 DEF pullRegionBegin, Stages, Causes, Pulling
  <2>4. ASSUME answerSync(c), stage[c] \in Pulling
        PROVE  Take(c, stage[c], "") /\ stage[c] \in Stages
    BY <2>4 DEF answerSync, Stages, Pulling
  <2>5. CASE pullRegionOrFinish(c)
    <3>1. stage[c] \in Pulling
      BY <2>5 DEF pullRegionOrFinish, Reading, Pulling
    <3> QED BY <2>4, <2>5, <3>1 DEF pullRegionOrFinish, Stages, Causes, Pulling
  <2>6. CASE pullRegionBody(c)
    <3>1. stage[c] \in Pulling
      BY <2>6 DEF pullRegionBody, Reading, Pulling
    <3> QED BY <2>4, <2>6, <3>1 DEF pullRegionBody, Stages, Causes, Pulling
  <2> QED BY <2>1, <2>2, <2>3, <2>5, <2>6 DEF pull
<1> QED BY <1>1, TakeInv

LEMMA ClientInv ==
  ASSUME TransferInv, NEW c \in Clients,
         start(c) \/ onTimeoutTimer(c) \/ onCallerPipeReadable(c) \/ stop(c) \/ Break(c)
  PROVE  TransferInv'
<1>1. cause[c] \in Causes /\ cause = [cause EXCEPT ![c] = cause[c]]
  BY CauseKept
<1>2. faults \in 0..MaxFaults /\ (faults = 0 => broken = {})
  BY DEF TransferInv, Threads
<1>3. CASE start(c)
  <2>1. stage' = [stage EXCEPT ![c] = "Request"] /\ "Request" \in Stages
    BY <1>3 DEF start, Stages, Pulling
  <2> QED BY <1>1, <1>2, <1>3, <2>1, StageInv DEF start
<1>4. CASE onTimeoutTimer(c)
  <2>1. /\ "gaveUp" \in Stages /\ "timeout" \in Causes
        /\ faults' \in 0..MaxFaults /\ (faults' = 0 => broken = {})
    BY <1>4, FaultCounted DEF onTimeoutTimer, Stages, Causes
  <2> QED BY <1>4, <2>1, StageInv DEF onTimeoutTimer
<1>5. CASE onCallerPipeReadable(c)
  <2>1. PICK next \in Stages : stage' = [stage EXCEPT ![c] = next]
    BY <1>5 DEF onCallerPipeReadable, Stages, Ended
  <2> QED BY <1>1, <1>2, <1>5, <2>1, StageInv DEF onCallerPipeReadable
<1>6. CASE stop(c)
  <2>1. stage' = [stage EXCEPT ![c] = "stopped"] /\ "stopped" \in Stages
    BY <1>6 DEF stop, Stages, Ended
  <2> QED BY <1>1, <1>2, <1>6, <2>1, StageInv DEF stop
<1>7. CASE Break(c)
  <2>1. faults' \in 0..MaxFaults /\ faults' # 0
    BY <1>7, FaultCounted DEF Break
  <2>2. Places'
    BY <1>7, PlacesUntouched DEF Break, service
  <2> QED BY <1>7, <2>1, <2>2
          DEF Break, service, client, TransferInv, Shapes, Threads, ClientsOK
<1> QED BY <1>3, <1>4, <1>5, <1>6, <1>7

LEMMA StepInv == TransferInv /\ [Next]_vars => TransferInv'
<1>1. SUFFICES ASSUME TransferInv, [Next]_vars PROVE TransferInv'
  OBVIOUS
<1>2. CASE UNCHANGED vars
  <2>1. UNCHANGED <<left, svc>> /\ workers' = workers
    BY <1>2 DEF vars, service, workers
  <2> QED BY <1>1, <1>2, <2>1, PlacesUntouched
          DEF vars, service, client, TransferInv, Shapes, Threads, ClientsOK
<1>3. CASE Change \/ onRequest \/ Stop \/ Stopped
  BY <1>1, <1>3, OwnerInv
<1>4. CASE (\E S \in SUBSET workers : onTimer(S)) \/ onPipeReadable
  BY <1>1, <1>4, DropInv
<1>5. ASSUME NEW c \in Clients,
             \/ onSnapshotReq(c) \/ refuse(c) \/ onBuilt(c) \/ onSyncSignal(c)
             \/ start(c) \/ pull(c) \/ onTimeoutTimer(c) \/ onCallerPipeReadable(c)
             \/ stop(c) \/ Break(c)
      PROVE  TransferInv'
  BY <1>1, <1>5, RequestInv, SendInv, PullInv, ClientInv
<1> QED BY <1>1, <1>2, <1>3, <1>4, <1>5 DEF Next

(* Service and clients are always where the code can be: the service never *)
(* has more workers than its capacity, and asks the feature for a client   *)
(* exactly while the pipe between them is in use.                          *)
THEOREM TypeCorrect == Spec => []TypeOK
<1>1. Init => TransferInv
  BY InitInv
<1>2. TransferInv /\ [Next]_vars => TransferInv'
  BY StepInv
<1>3. TransferInv => TypeOK
  BY InvTypeOK
<1> QED BY <1>1, <1>2, <1>3, PTL DEF Spec
-----------------------------------------------------------------------------
(* What is sent to a client, and where in it the parts of a table are.     *)

Blocks == [region : Regions, items : Seq(Items)]

Data ==
  [type : {"SnapshotRep", "SnapshotBegin", "RegionBegin", "Item", "RegionEnd", "SnapshotEnd"},
   of : Regions \cup Items \cup {"", 0, -1}]

(* All that a client of table t gets, but for the sync signals.            *)
Script(t) == IF t = NoTable THEN <<Rep(0)>> ELSE <<Rep(0)>> \o buildSnapshot(t)

Block(b) == <<Msg("RegionBegin", b.region)>>
              \o [i \in 1..Len(b.items) |-> Msg("Item", b.items[i])]
              \o <<Msg("RegionEnd", b.region)>>

(* off[i] is the number of messages up to the end of the region i.         *)
Layout(t, off) ==
  /\ off \in [0..Len(t) -> Nat] /\ off[0] = 2
  /\ \A i \in 1..Len(t) :
       /\ off[i] = off[i - 1] + Len(t[i].items) + 2
       /\ Script(t)[off[i - 1] + 1] = Msg("RegionBegin", t[i].region)
       /\ \A k \in 1..Len(t[i].items) :
            Script(t)[off[i - 1] + 1 + k] = Msg("Item", t[i].items[k])
       /\ Script(t)[off[i]] = Msg("RegionEnd", t[i].region)
       /\ off[i] < Len(Script(t))
  /\ Len(Script(t)) = off[Len(t)] + 1
  /\ Script(t)[off[Len(t)] + 1] = Msg("SnapshotEnd", "")

Offsets(t) == CHOOSE off : Layout(t, off)

LEMMA TableList ==
  ASSUME NEW t \in Tables
  PROVE  /\ t \in Seq(Blocks) /\ Len(t) \in Nat /\ t # NoTable
         /\ \A i \in 1..Len(t) :
              /\ t[i] \in Blocks /\ t[i].region \in Regions /\ t[i].items \in Seq(Items)
              /\ Len(t[i].items) \in Nat
<1>1. t \in Seq(Blocks) /\ t # NoTable
  <2>1. Tables \subseteq Seq(Blocks)
    BY TablesAssumption DEF Blocks
  <2> QED BY <2>1, TransferAssumption
<1>2. \A i \in 1..Len(t) : t[i] \in Blocks
  BY <1>1
<1>3. \A b \in Blocks : b.region \in Regions /\ b.items \in Seq(Items) /\ Len(b.items) \in Nat
  BY DEF Blocks
<1>4. Len(t) \in Nat
  BY <1>1
<1> QED BY <1>1, <1>2, <1>3, <1>4

LEMMA BlockLayout ==
  ASSUME NEW b \in Blocks
  PROVE  /\ Block(b) \in Seq(Data) /\ Len(Block(b)) = Len(b.items) + 2
         /\ Block(b)[1] = Msg("RegionBegin", b.region)
         /\ \A k \in 1..Len(b.items) : Block(b)[k + 1] = Msg("Item", b.items[k])
         /\ Block(b)[Len(b.items) + 2] = Msg("RegionEnd", b.region)
<1>1. b.region \in Regions /\ b.items \in Seq(Items)
  BY DEF Blocks
<1>2. Len(b.items) \in Nat /\ \A k \in 1..Len(b.items) : b.items[k] \in Items
  BY <1>1
<1> DEFINE u == <<Msg("RegionBegin", b.region)>>
           m == [i \in 1..Len(b.items) |-> Msg("Item", b.items[i])]
           v == <<Msg("RegionEnd", b.region)>>
<1>3. /\ Msg("RegionBegin", b.region) \in Data /\ Msg("RegionEnd", b.region) \in Data
      /\ \A k \in 1..Len(b.items) : Msg("Item", b.items[k]) \in Data
  BY <1>1, <1>2 DEF Msg, Data
<1>4. /\ u \in Seq(Data) /\ Len(u) = 1 /\ u[1] = Msg("RegionBegin", b.region)
      /\ v \in Seq(Data) /\ Len(v) = 1 /\ v[1] = Msg("RegionEnd", b.region)
  BY <1>3
<1>5. /\ m \in Seq(Data) /\ Len(m) = Len(b.items)
      /\ \A k \in 1..Len(b.items) : m[k] = Msg("Item", b.items[k])
  BY <1>2, <1>3
<1>6. Block(b) = (u \o m) \o v
  BY DEF Block
<1> HIDE DEF u, m, v
<1> DEFINE w == u \o m
<1>7. /\ w \in Seq(Data) /\ Len(w) = 1 + Len(b.items)
      /\ w[1] = Msg("RegionBegin", b.region)
      /\ \A k \in 1..Len(b.items) : w[1 + k] = Msg("Item", b.items[k])
  <2>1. /\ w \in Seq(Data) /\ Len(w) = Len(u) + Len(m)
        /\ \A i \in 1..Len(u) : w[i] = u[i]
        /\ \A i \in 1..Len(m) : w[Len(u) + i] = m[i]
    <3>1. u \in Seq(Data) /\ m \in Seq(Data)
      BY <1>4, <1>5
    <3>2. w \in Seq(Data)
      BY <3>1, ConcatList
    <3>3. Len(w) = Len(u) + Len(m)
      BY <3>1, ConcatList
    <3>4. \A i \in 1..Len(u) : w[i] = u[i]
      BY <3>1, ConcatList
    <3>5. \A i \in 1..Len(m) : w[Len(u) + i] = m[i]
      BY <3>1, ConcatList
    <3> HIDE DEF w
    <3> QED BY <3>2, <3>3, <3>4, <3>5
  <2> HIDE DEF w
  <2> QED BY <1>4, <1>5, <2>1
<1> HIDE DEF w
<1> DEFINE z == w \o v
<1>8. /\ z \in Seq(Data) /\ Len(z) = Len(w) + Len(v)
      /\ \A i \in 1..Len(w) : z[i] = w[i]
      /\ \A i \in 1..Len(v) : z[Len(w) + i] = v[i]
  <2>1. w \in Seq(Data) /\ v \in Seq(Data)
    BY <1>4, <1>7
  <2>2. z \in Seq(Data)
    BY <2>1, ConcatList
  <2>3. Len(z) = Len(w) + Len(v)
    BY <2>1, ConcatList
  <2>4. \A i \in 1..Len(w) : z[i] = w[i]
    BY <2>1, ConcatList
  <2>5. \A i \in 1..Len(v) : z[Len(w) + i] = v[i]
    BY <2>1, ConcatList
  <2> HIDE DEF z
  <2> QED BY <2>2, <2>3, <2>4, <2>5
<1>9. Block(b) = z
  BY <1>6 DEF w
<1> HIDE DEF z
<1>10. Len(z) = Len(b.items) + 2
  BY <1>2, <1>4, <1>7, <1>8
<1>11. z[1] = w[1]
  BY <1>2, <1>7, <1>8
<1>12. z[Len(b.items) + 2] = v[1]
  BY <1>2, <1>4, <1>7, <1>8
<1>13. ASSUME NEW k \in 1..Len(b.items) PROVE z[k + 1] = Msg("Item", b.items[k])
  BY <1>2, <1>7, <1>8
<1> QED BY <1>4, <1>7, <1>8, <1>9, <1>10, <1>11, <1>12, <1>13

LEMMA ScriptLayout ==
  ASSUME NEW t \in Tables
  PROVE  /\ Layout(t, Offsets(t)) /\ Script(t) \in Seq(Data) /\ Len(Script(t)) >= 3
         /\ Len(Script(t)) \in Nat
         /\ Script(t)[1] = Rep(0) /\ Script(t)[2] = Msg("SnapshotBegin", "")
         /\ buildSnapshot(t) \in Seq(Data) /\ Len(Script(t)) = Len(buildSnapshot(t)) + 1
         /\ \A i \in 1..Len(buildSnapshot(t)) : Script(t)[i + 1] = buildSnapshot(t)[i]
<1> DEFINE s == [i \in 1..Len(t) |-> Block(t[i])]
           f == FlattenSeq(s)
           h == <<Msg("SnapshotBegin", "")>>
           e == <<Msg("SnapshotEnd", "")>>
           r == <<Rep(0)>>
           P == buildSnapshot(t)
           Q == Script(t)
<1>1. P = (h \o f) \o e
  BY DEF buildSnapshot, Block
<1>2. Q = r \o P
  BY TableList DEF Script
<1>3. Len(t) \in Nat /\ \A i \in 1..Len(t) : t[i] \in Blocks /\ Len(t[i].items) \in Nat
  BY TableList
<1>4. s \in Seq(Seq(Data)) /\ Len(s) = Len(t) /\ \A i \in 1..Len(t) : s[i] = Block(t[i])
  BY <1>3, BlockLayout
<1> HIDE DEF s
<1>5. f \in Seq(Data)
  BY <1>4, FlattenMembers
<1>6. PICK o \in [0..Len(s) -> Nat] :
        /\ o[0] = 0 /\ Len(f) = o[Len(s)]
        /\ \A i \in 1..Len(s) :
             /\ o[i] = o[i - 1] + Len(s[i])
             /\ \A k \in 1..Len(s[i]) : o[i - 1] + k <= Len(f) /\ f[o[i - 1] + k] = s[i][k]
  BY <1>4, FlattenLayout
<1> HIDE DEF f
<1>7. h \in Seq(Data) /\ Len(h) = 1 /\ e \in Seq(Data) /\ Len(e) = 1 /\ r \in Seq(Data) /\ Len(r) = 1
  BY DEF Msg, Rep, Data
<1>7a. h[1] = Msg("SnapshotBegin", "") /\ e[1] = Msg("SnapshotEnd", "") /\ r[1] = Rep(0)
  OBVIOUS
<1> HIDE DEF h, e, r, P, Q
<1> DEFINE g == h \o f
<1>8. /\ g \in Seq(Data) /\ Len(g) = Len(h) + Len(f)
      /\ \A i \in 1..Len(h) : g[i] = h[i]
      /\ \A i \in 1..Len(f) : g[Len(h) + i] = f[i]
  <2>1. h \in Seq(Data) /\ f \in Seq(Data)
    BY <1>5, <1>7
  <2>2. g \in Seq(Data)
    BY <2>1, ConcatList
  <2>3. Len(g) = Len(h) + Len(f)
    BY <2>1, ConcatList
  <2>4. \A i \in 1..Len(h) : g[i] = h[i]
    BY <2>1, ConcatList
  <2>5. \A i \in 1..Len(f) : g[Len(h) + i] = f[i]
    BY <2>1, ConcatList
  <2> HIDE DEF g
  <2> QED BY <2>2, <2>3, <2>4, <2>5
<1> HIDE DEF g
<1> DEFINE w == g \o e
<1>9. /\ w \in Seq(Data) /\ Len(w) = Len(g) + Len(e)
      /\ \A i \in 1..Len(g) : w[i] = g[i]
      /\ \A i \in 1..Len(e) : w[Len(g) + i] = e[i]
  <2>1. g \in Seq(Data) /\ e \in Seq(Data)
    BY <1>7, <1>8
  <2>2. w \in Seq(Data)
    BY <2>1, ConcatList
  <2>3. Len(w) = Len(g) + Len(e)
    BY <2>1, ConcatList
  <2>4. \A i \in 1..Len(g) : w[i] = g[i]
    BY <2>1, ConcatList
  <2>5. \A i \in 1..Len(e) : w[Len(g) + i] = e[i]
    BY <2>1, ConcatList
  <2> HIDE DEF w
  <2> QED BY <2>2, <2>3, <2>4, <2>5
<1>10. P = w
  BY <1>1 DEF g
<1> HIDE DEF w
<1> DEFINE x == r \o P
<1>11. /\ x \in Seq(Data) /\ Len(x) = Len(r) + Len(P)
       /\ \A i \in 1..Len(r) : x[i] = r[i]
       /\ \A i \in 1..Len(P) : x[Len(r) + i] = P[i]
  <2>1. r \in Seq(Data) /\ P \in Seq(Data)
    BY <1>7, <1>9, <1>10
  <2>2. x \in Seq(Data)
    BY <2>1, ConcatList
  <2>3. Len(x) = Len(r) + Len(P)
    BY <2>1, ConcatList
  <2>4. \A i \in 1..Len(r) : x[i] = r[i]
    BY <2>1, ConcatList
  <2>5. \A i \in 1..Len(P) : x[Len(r) + i] = P[i]
    BY <2>1, ConcatList
  <2> HIDE DEF x
  <2> QED BY <2>2, <2>3, <2>4, <2>5
<1>12. Q = x
  BY <1>2
<1> HIDE DEF x
<1>13. /\ Len(f) \in Nat /\ Len(P) = Len(f) + 2 /\ Len(Q) = Len(f) + 3
  <2>1. Len(f) \in Nat
    BY <1>5
  <2>2. Len(g) = Len(f) + 1
    BY <1>7, <1>8, <2>1
  <2>3. Len(P) = Len(f) + 2
    BY <1>7, <1>9, <1>10, <2>1, <2>2
  <2>4. Len(Q) = Len(f) + 3
    BY <1>7, <1>11, <1>12, <2>1, <2>3
  <2> QED BY <2>1, <2>3, <2>4
<1> HIDE DEF x
<1>14. /\ Q[1] = Rep(0) /\ \A i \in 1..Len(P) : Q[i + 1] = P[i]
  <2>1. 1 \in 1..Len(r)
    BY <1>7
  <2>2. \A i \in 1..Len(P) : Len(r) + i = i + 1
    BY <1>7, <1>13
  <2> QED BY <1>7, <1>7a, <1>11, <1>12, <2>1, <2>2
<1>15. P[1] = Msg("SnapshotBegin", "") /\ P[Len(f) + 2] = Msg("SnapshotEnd", "")
  <2>1. 1 \in 1..Len(h) /\ 1 \in 1..Len(g) /\ 1 \in 1..Len(e) /\ Len(g) + 1 = Len(f) + 2
    BY <1>7, <1>8, <1>13
  <2>2. P[1] = g[1] /\ g[1] = h[1]
    BY <1>8, <1>9, <1>10, <2>1
  <2>3. P[Len(g) + 1] = e[1]
    BY <1>9, <1>10, <2>1
  <2> QED BY <1>7a, <2>1, <2>2, <2>3
<1>16. ASSUME NEW i \in 1..Len(f) PROVE Q[i + 2] = f[i]
  <2>1. P[i + 1] = f[i]
    <3>1. i + 1 = Len(h) + i /\ i + 1 \in 1..Len(g)
      BY <1>7, <1>8, <1>13
    <3>2. g[i + 1] = f[i]
      BY <1>8, <3>1
    <3> QED BY <1>9, <1>10, <3>1, <3>2
  <2>2. i + 1 \in 1..Len(P) /\ (i + 1) + 1 = i + 2
    BY <1>13
  <2> QED BY <1>14, <2>1, <2>2
<1>17. Q[2] = Msg("SnapshotBegin", "") /\ Q[Len(f) + 3] = Msg("SnapshotEnd", "")
  <2>1. 1 \in 1..Len(P) /\ Len(f) + 2 \in 1..Len(P) /\ (Len(f) + 2) + 1 = Len(f) + 3 /\ 1 + 1 = 2
    BY <1>13
  <2> QED BY <1>14, <1>15, <2>1
<1> DEFINE off == [i \in 0..Len(t) |-> o[i] + 2]
<1>18. /\ off \in [0..Len(t) -> Nat] /\ off[0] = 2 /\ off[Len(t)] = Len(f) + 2
       /\ \A i \in 1..Len(t) : off[i] = o[i] + 2 /\ off[i - 1] = o[i - 1] + 2 /\ o[i - 1] \in Nat
       /\ o[Len(t)] = Len(f)
  <2>1. \A i \in 1..Len(t) : i - 1 \in 0..Len(t) /\ i \in 0..Len(t)
    BY <1>3
  <2>2. o \in [0..Len(t) -> Nat] /\ o[0] = 0 /\ o[Len(t)] = Len(f) /\ 0 \in 0..Len(t) /\ Len(t) \in 0..Len(t)
    BY <1>3, <1>4, <1>6
  <2> QED BY <2>1, <2>2
<1> HIDE DEF off
<1>19. ASSUME NEW i \in 1..Len(t)
       PROVE  /\ off[i] = off[i - 1] + Len(t[i].items) + 2
              /\ Q[off[i - 1] + 1] = Msg("RegionBegin", t[i].region)
              /\ \A k \in 1..Len(t[i].items) : Q[off[i - 1] + 1 + k] = Msg("Item", t[i].items[k])
              /\ Q[off[i]] = Msg("RegionEnd", t[i].region)
              /\ off[i] < Len(Q)
  <2> DEFINE n == Len(t[i].items)
             a == o[i - 1]
  <2>1. /\ s[i] \in Seq(Data) /\ Len(s[i]) = n + 2 /\ n \in Nat
        /\ s[i][1] = Msg("RegionBegin", t[i].region)
        /\ \A k \in 1..n : s[i][k + 1] = Msg("Item", t[i].items[k])
        /\ s[i][n + 2] = Msg("RegionEnd", t[i].region)
    BY <1>3, <1>4, BlockLayout
  <2>2. /\ o[i] = a + (n + 2) /\ a \in Nat
        /\ \A k \in 1..(n + 2) : a + k <= Len(f) /\ f[a + k] = s[i][k]
    BY <1>4, <1>6, <1>18, <2>1
  <2>a. off[i] = o[i] + 2 /\ off[i - 1] = a + 2
    BY <1>18
  <2> HIDE DEF a, n
  <2>3. off[i] = a + n + 4 /\ off[i - 1] = a + 2
    <3>1. \A v, y \in Nat : (v + (y + 2)) + 2 = v + y + 4
      OBVIOUS
    <3>2. a \in Nat /\ n \in Nat /\ off[i] = (a + (n + 2)) + 2
      BY <2>1, <2>2, <2>a
    <3>3. (a + (n + 2)) + 2 = a + n + 4
      BY <3>1, <3>2
    <3> QED BY <2>a, <3>2, <3>3
  <2>4. ASSUME NEW k \in 1..(n + 2) PROVE Q[a + 2 + k] = s[i][k]
    <3>0. \A v, y, z \in Nat : y >= 1 /\ v + y <= z => v + y \in 1..z
      OBVIOUS
    <3>a. k \in Nat /\ k >= 1 /\ a + k <= Len(f) /\ Len(f) \in Nat
      BY <2>1, <2>2, <1>13
    <3>1. a + k \in 1..Len(f)
      BY <2>2, <3>0, <3>a
    <3>2. (a + k) + 2 = a + 2 + k
      BY <2>1, <2>2
    <3> QED BY <1>16, <2>2, <3>1, <3>2
  <2>5. off[i] = off[i - 1] + n + 2
    BY <2>1, <2>2, <2>3
  <2>6. Q[off[i - 1] + 1] = s[i][1]
    <3>1. 1 \in 1..(n + 2)
      BY <2>1
    <3> QED BY <2>3, <2>4, <3>1
  <2>7. ASSUME NEW k \in 1..n PROVE Q[off[i - 1] + 1 + k] = s[i][k + 1]
    <3>1. k + 1 \in 1..(n + 2) /\ a + 2 + (k + 1) = off[i - 1] + 1 + k
      BY <2>1, <2>2, <2>3
    <3> QED BY <2>4, <3>1
  <2>8. Q[off[i]] = s[i][n + 2]
    <3>0. \A v, y \in Nat : y + 2 \in 1..(y + 2) /\ v + 2 + (y + 2) = v + y + 4
      OBVIOUS
    <3>1. n + 2 \in 1..(n + 2) /\ a + 2 + (n + 2) = off[i]
      BY <2>1, <2>2, <2>3, <3>0
    <3> QED BY <2>4, <3>1
  <2>9. off[i] < Len(Q)
    <3>1. a + (n + 2) <= Len(f)
      BY <2>1, <2>2
    <3> QED BY <1>13, <2>1, <2>2, <2>3, <3>1
  <2> QED BY <2>1, <2>5, <2>6, <2>7, <2>8, <2>9 DEF n
<1>20. Len(Q) = off[Len(t)] + 1 /\ Q[off[Len(t)] + 1] = Msg("SnapshotEnd", "")
  <2>1. off[Len(t)] + 1 = Len(f) + 3
    BY <1>13, <1>18
  <2> QED BY <1>13, <1>17, <2>1
<1>21. Layout(t, off)
  BY <1>18, <1>19, <1>20 DEF Layout, Q
<1>22. Layout(t, Offsets(t))
  BY <1>21 DEF Offsets
<1>23. Q \in Seq(Data) /\ Len(Q) \in Nat /\ Len(Q) >= 3 /\ P \in Seq(Data)
       /\ Len(Q) = Len(P) + 1
  BY <1>9, <1>10, <1>11, <1>12, <1>13
<1> QED BY <1>14, <1>17, <1>22, <1>23 DEF P, Q

-----------------------------------------------------------------------------
(* What the builder of a client holds that has read p messages.            *)

InBody(t, p, b) ==
  /\ t \in Tables /\ b \in Seq(Blocks)
  /\ \E i \in 1..Len(t) : \E j \in 0..Len(t[i].items) :
       /\ p = Offsets(t)[i - 1] + 1 + j
       /\ Len(b) = i /\ \A k \in 1..(i - 1) : b[k] = t[k]
       /\ b[i] = [region |-> t[i].region, items |-> SubSeq(t[i].items, 1, j)]

Between(t, p, b) ==
  /\ t \in Tables /\ b \in Seq(Blocks)
  /\ \E i \in 0..Len(t) : p = Offsets(t)[i] /\ Len(b) = i /\ \A k \in 1..i : b[k] = t[k]

(* A client in the stage RegionBody reads an item of its region or the end *)
(* of it.                                                                  *)
LEMMA BodyRead ==
  ASSUME NEW t, NEW p, NEW b, InBody(t, p, b)
  PROVE  /\ p \in Nat /\ p + 1 < Len(Script(t)) /\ b # <<>>
         /\ \/ \E x \in Items : /\ Script(t)[p + 1] = Msg("Item", x)
                                /\ InBody(t, p + 1, [b EXCEPT ![Len(b)].items = Append(@, x)])
            \/ /\ Script(t)[p + 1] = Msg("RegionEnd", b[Len(b)].region)
               /\ Between(t, p + 1, b)
<1>1. t \in Tables /\ b \in Seq(Blocks)
  BY DEF InBody
<1>2. PICK i \in 1..Len(t) : \E j \in 0..Len(t[i].items) :
        /\ p = Offsets(t)[i - 1] + 1 + j
        /\ Len(b) = i /\ \A k \in 1..(i - 1) : b[k] = t[k]
        /\ b[i] = [region |-> t[i].region, items |-> SubSeq(t[i].items, 1, j)]
  BY DEF InBody
<1>3. PICK j \in 0..Len(t[i].items) :
        /\ p = Offsets(t)[i - 1] + 1 + j
        /\ Len(b) = i /\ \A k \in 1..(i - 1) : b[k] = t[k]
        /\ b[i] = [region |-> t[i].region, items |-> SubSeq(t[i].items, 1, j)]
  BY <1>2
<1> DEFINE off == Offsets(t)
           n == Len(t[i].items)
<1>4. /\ Len(t) \in Nat /\ t[i] \in Blocks /\ t[i].region \in Regions /\ t[i].items \in Seq(Items)
      /\ n \in Nat
  BY <1>1, TableList
<1>5. /\ off \in [0..Len(t) -> Nat]
      /\ off[i] = off[i - 1] + n + 2
      /\ \A k \in 1..n : Script(t)[off[i - 1] + 1 + k] = Msg("Item", t[i].items[k])
      /\ Script(t)[off[i]] = Msg("RegionEnd", t[i].region)
      /\ off[i] < Len(Script(t)) /\ Len(Script(t)) \in Nat
  BY <1>1, ScriptLayout DEF Layout
<1>6. i - 1 \in 0..Len(t) /\ i \in 0..Len(t) /\ off[i - 1] \in Nat /\ off[i] \in Nat
  <2>1. \A l \in Nat : \A k \in 1..l : k - 1 \in 0..l /\ k \in 0..l
    OBVIOUS
  <2>2. i - 1 \in 0..Len(t) /\ i \in 0..Len(t)
    BY <1>4, <2>1
  <2> HIDE DEF off, n
  <2> QED BY <1>5, <2>2
<1>7. p = off[i - 1] + 1 + j
  BY <1>3
<1> HIDE DEF off, n
<1>8. p \in Nat /\ p + 1 <= off[i]
  <2>1. \A x, y \in Nat : \A z \in 0..y : x + 1 + z \in Nat /\ (x + 1 + z) + 1 <= x + y + 2
    OBVIOUS
  <2>2. j \in 0..n
    BY <1>3 DEF n
  <2> QED BY <1>4, <1>5, <1>6, <1>7, <2>1, <2>2
<1>9. b # <<>> /\ Len(b) = i /\ b[i].region = t[i].region /\ b[i].items = SubSeq(t[i].items, 1, j)
  BY <1>2, <1>3
<1>10. CASE j < n
  <2> DEFINE x == t[i].items[j + 1]
             B == [b EXCEPT ![i].items = Append(@, x)]
  <2>1. j + 1 \in 1..n /\ j + 1 \in 0..n /\ j + 1 \in 0..Len(t[i].items)
    BY <1>3, <1>4, <1>10 DEF n
  <2>2. x \in Items
    BY <1>4, <2>1 DEF n
  <2>3. Script(t)[p + 1] = Msg("Item", x)
    <3>1. off[i - 1] + 1 + (j + 1) = p + 1
      <4>1. \A y, z \in Nat : y + 1 + (z + 1) = (y + 1 + z) + 1
        OBVIOUS
      <4>2. j \in Nat
        BY <1>3, <1>4
      <4> QED BY <1>6, <1>7, <4>1, <4>2
    <3> QED BY <1>5, <2>1, <3>1
  <2>4. Append(SubSeq(t[i].items, 1, j), x) = SubSeq(t[i].items, 1, j + 1)
    <3> DEFINE l == t[i].items
    <3>1. l \in Seq(Items) /\ j \in Nat /\ j + 1 \in 1..Len(l)
      BY <1>3, <1>4, <2>1 DEF n
    <3> HIDE DEF l
    <3>2. Append(SubSeq(l, 1, j), l[j + 1]) = SubSeq(l, 1, j + 1)
      BY <3>1
    <3> QED BY <3>2 DEF l
  <2>5. SubSeq(t[i].items, 1, j + 1) \in Seq(Items)
    BY <1>4, <2>1 DEF n
  <2>6. B = [b EXCEPT ![i] = [region |-> t[i].region, items |-> SubSeq(t[i].items, 1, j + 1)]]
    <3>1. [b[i] EXCEPT !.items = Append(@, x)]
            = [region |-> t[i].region, items |-> SubSeq(t[i].items, 1, j + 1)]
      <4>1. \A r, l, m : [[region |-> r, items |-> l] EXCEPT !.items = m] = [region |-> r, items |-> m]
        OBVIOUS
      <4> DEFINE l == SubSeq(t[i].items, 1, j)
                 m == SubSeq(t[i].items, 1, j + 1)
      <4>2. b[i] = [region |-> t[i].region, items |-> l] /\ Append(l, x) = m /\ b[i].items = l
        BY <1>3, <1>9, <2>4
      <4> HIDE DEF x, l, m
      <4>3. [b[i] EXCEPT !.items = Append(@, x)] = [b[i] EXCEPT !.items = m]
        BY <4>2
      <4>4. [b[i] EXCEPT !.items = m] = [region |-> t[i].region, items |-> m]
        BY <4>1, <4>2
      <4> QED BY <4>3, <4>4 DEF m
    <3> HIDE DEF x
    <3> QED BY <3>1
  <2>7. /\ B \in Seq(Blocks) /\ Len(B) = i /\ \A k \in 1..(i - 1) : B[k] = t[k]
        /\ B[i] = [region |-> t[i].region, items |-> SubSeq(t[i].items, 1, j + 1)]
    <3> DEFINE y == [region |-> t[i].region, items |-> SubSeq(t[i].items, 1, j + 1)]
    <3>1. y \in Blocks
      BY <1>4, <2>5 DEF Blocks
    <3> HIDE DEF y
    <3>2. B = [b EXCEPT ![i] = y]
      BY <2>6 DEF y
    <3> HIDE DEF B
    <3>3. i \in 1..Len(b)
      BY <1>4, <1>9
    <3>4. B \in Seq(Blocks) /\ Len(B) = Len(b) /\ B[i] = y /\ \A k \in 1..Len(b) : k # i => B[k] = b[k]
      BY <1>1, <3>1, <3>2, <3>3
    <3>5. \A k \in 1..(i - 1) : k \in 1..Len(b) /\ k # i
      BY <1>4, <1>9
    <3> QED BY <1>3, <1>9, <3>4, <3>5 DEF y
  <2>8. p + 1 = Offsets(t)[i - 1] + 1 + (j + 1)
    <3>1. \A y, z \in Nat : y + 1 + (z + 1) = (y + 1 + z) + 1
      OBVIOUS
    <3>2. j \in Nat
      BY <1>3, <1>4
    <3>3. p + 1 = off[i - 1] + 1 + (j + 1)
      BY <1>6, <1>7, <3>1, <3>2
    <3> QED BY <3>3 DEF off
  <2> HIDE DEF B, x
  <2>9. InBody(t, p + 1, B)
    BY <1>1, <2>1, <2>7, <2>8 DEF InBody
  <2>10. B = [b EXCEPT ![Len(b)].items = Append(@, x)]
    BY <1>9 DEF B
  <2>11. p + 1 < Len(Script(t))
    BY <1>5, <1>6, <1>8
  <2> QED BY <1>8, <1>9, <2>2, <2>3, <2>9, <2>10, <2>11
<1>11. CASE j = n
  <2>1. p + 1 = off[i]
    BY <1>4, <1>5, <1>6, <1>7, <1>11
  <2>2. SubSeq(t[i].items, 1, j) = t[i].items
    <3> DEFINE l == t[i].items
    <3>1. l \in Seq(Items) /\ j = Len(l)
      BY <1>4, <1>11 DEF n
    <3> HIDE DEF l
    <3>2. SubSeq(l, 1, Len(l)) = l
      BY <3>1
    <3> QED BY <3>1, <3>2 DEF l
  <2>3. b[i] = t[i]
    <3>1. t[i] = [region |-> t[i].region, items |-> t[i].items]
      BY <1>4 DEF Blocks
    <3> QED BY <1>3, <2>2, <3>1
  <2>4. \A k \in 1..i : b[k] = t[k]
    <3>1. \A k \in 1..i : k \in 1..(i - 1) \/ k = i
      OBVIOUS
    <3> QED BY <1>3, <2>3, <3>1
  <2>5. Between(t, p + 1, b)
    BY <1>1, <1>6, <1>9, <2>1, <2>4 DEF Between, off
  <2>6. p + 1 < Len(Script(t))
    BY <1>5, <1>6, <2>1
  <2> QED BY <1>5, <1>8, <1>9, <2>1, <2>3, <2>5, <2>6
<1>12. j < n \/ j = n
  BY <1>3, <1>4 DEF n
<1> QED BY <1>10, <1>11, <1>12

(* Between two regions it reads the beginning of the next or the end of    *)
(* the snapshot, and then its builder holds the table.                     *)
LEMMA BetweenRead ==
  ASSUME NEW t, NEW p, NEW b, Between(t, p, b)
  PROVE  /\ p \in Nat /\ p + 1 <= Len(Script(t))
         /\ \/ \E r \in Regions : /\ Script(t)[p + 1] = Msg("RegionBegin", r)
                                  /\ InBody(t, p + 1, Append(b, [region |-> r, items |-> <<>>]))
            \/ Script(t)[p + 1] = Msg("SnapshotEnd", "") /\ b = t
<1>1. t \in Tables /\ b \in Seq(Blocks)
  BY DEF Between
<1>2. PICK i \in 0..Len(t) : p = Offsets(t)[i] /\ Len(b) = i /\ \A k \in 1..i : b[k] = t[k]
  BY DEF Between
<1> DEFINE off == Offsets(t)
<1>3. /\ off \in [0..Len(t) -> Nat]
      /\ Len(Script(t)) = off[Len(t)] + 1 /\ Len(Script(t)) \in Nat
      /\ Script(t)[off[Len(t)] + 1] = Msg("SnapshotEnd", "")
      /\ \A k \in 1..Len(t) : /\ Script(t)[off[k - 1] + 1] = Msg("RegionBegin", t[k].region)
                              /\ off[k] = off[k - 1] + Len(t[k].items) + 2
                              /\ off[k] < Len(Script(t))
  BY <1>1, ScriptLayout DEF Layout
<1>4. t \in Seq(Blocks) /\ Len(t) \in Nat
  BY <1>1, TableList
<1>5. off[i] \in Nat /\ p = off[i]
  BY <1>2, <1>3
<1> HIDE DEF off
<1>6. CASE i = Len(t)
  <2>1. b = t
    <3>1. Len(b) = Len(t) /\ \A k \in 1..Len(t) : b[k] = t[k]
      BY <1>2, <1>6
    <3>2. b = [k \in 1..Len(b) |-> b[k]] /\ t = [k \in 1..Len(t) |-> t[k]]
      BY <1>1, <1>4
    <3> QED BY <3>1, <3>2
  <2>2. /\ Len(Script(t)) = off[i] + 1 /\ Script(t)[off[i] + 1] = Msg("SnapshotEnd", "")
    BY <1>3, <1>6
  <2>3. \A x \in Nat : x + 1 <= x + 1
    OBVIOUS
  <2>4. p \in Nat /\ Len(Script(t)) = p + 1 /\ Script(t)[p + 1] = Msg("SnapshotEnd", "")
    BY <1>5, <2>2
  <2>5. p + 1 <= Len(Script(t))
    BY <2>3, <2>4
  <2> QED BY <2>1, <2>4, <2>5
<1>7. CASE i # Len(t)
  <2>1. i + 1 \in 1..Len(t) /\ (i + 1) - 1 = i
    BY <1>2, <1>4, <1>7
  <2>2. t[i + 1].region \in Regions /\ t[i + 1].items \in Seq(Items) /\ Len(t[i + 1].items) \in Nat
    BY <1>1, <2>1, TableList
  <2> DEFINE r == t[i + 1].region
             x == [region |-> r, items |-> <<>>]
             B == Append(b, x)
  <2>3. Script(t)[p + 1] = Msg("RegionBegin", r) /\ off[i + 1] = off[i] + Len(t[i + 1].items) + 2
        /\ off[i + 1] < Len(Script(t))
    BY <1>3, <1>5, <2>1
  <2>4. x \in Blocks
    BY <2>2 DEF Blocks
  <2>5. SubSeq(t[i + 1].items, 1, 0) = <<>>
    BY <2>2
  <2>6. x = [region |-> t[i + 1].region, items |-> SubSeq(t[i + 1].items, 1, 0)]
    BY <2>5
  <2> HIDE DEF x
  <2>7. /\ B \in Seq(Blocks) /\ Len(B) = Len(b) + 1 /\ B[Len(b) + 1] = x
        /\ \A k \in 1..Len(b) : B[k] = b[k]
    BY <1>1, <2>4, AppendList
  <2> HIDE DEF B
  <2>8. Len(B) = i + 1 /\ B[i + 1] = x /\ \A k \in 1..((i + 1) - 1) : B[k] = t[k]
    BY <1>2, <2>1, <2>7
  <2>9. 0 \in 0..Len(t[i + 1].items) /\ p + 1 = Offsets(t)[(i + 1) - 1] + 1 + 0
    BY <1>5, <2>1, <2>2 DEF off
  <2> HIDE DEF r
  <2>10. InBody(t, p + 1, B)
    BY <1>1, <2>1, <2>6, <2>7, <2>8, <2>9 DEF InBody
  <2>11. p + 1 <= Len(Script(t))
    <3>1. \A y, z, w \in Nat : y + z + 2 < w => y + 1 <= w
      OBVIOUS
    <3> QED BY <1>3, <1>5, <2>2, <2>3, <3>1
  <2>12. r \in Regions
    BY <2>2 DEF r
  <2> QED BY <1>5, <2>3, <2>10, <2>11, <2>12 DEF B, x
<1> QED BY <1>6, <1>7

-----------------------------------------------------------------------------
(* What is on its way to a client.                                         *)

Msgs == Data \cup {SyncReq}

LEMMA DataMsgs == \A l \in Seq(Data) : l \in Seq(Msgs)
BY DEF Msgs

LEMMA DataNoSignal == SyncReq \notin Data
BY DEF SyncReq, Msg, Data

(* The list l follows what a client of table t has read, p messages of its *)
(* script; only its end may be a sync signal, behind which the service     *)
(* has r left.                                                             *)
Flight(l, t, r, p) ==
  \A i \in 1..Len(l) :
    \/ p + i <= Len(Script(t)) /\ l[i] = Script(t)[p + i] /\ l[i] # SyncReq
    \/ /\ i = Len(l) /\ l[i] = SyncReq /\ p + i > period + 1
       /\ r # <<>> => Len(r) = Len(Script(t)) - (p + i - 1)

LEMMA FlightHead ==
  ASSUME period \in Nat, NEW l \in Seq(Msgs), l # <<>>, NEW t, NEW r, NEW p \in Nat, Flight(l, t, r, p)
  PROVE  /\ Head(l) # SyncReq => p + 1 <= Len(Script(t)) /\ Head(l) = Script(t)[p + 1]
         /\ Head(l) = SyncReq => /\ Len(l) = 1 /\ p > period /\ Tail(l) = <<>>
                                 /\ r # <<>> => Len(r) = Len(Script(t)) - p
<1>1. Len(l) >= 1 /\ Len(l) \in Nat /\ Head(l) = l[1] /\ Len(Tail(l)) = Len(l) - 1 /\ Tail(l) \in Seq(Msgs)
  BY TailList, ListSet
<1>2. 1 \in 1..Len(l)
  BY <1>1
<1>3. \/ p + 1 <= Len(Script(t)) /\ l[1] = Script(t)[p + 1] /\ l[1] # SyncReq
      \/ /\ 1 = Len(l) /\ l[1] = SyncReq /\ p + 1 > period + 1
         /\ r # <<>> => Len(r) = Len(Script(t)) - (p + 1 - 1)
  BY <1>2 DEF Flight
<1>4. CASE Head(l) # SyncReq
  BY <1>1, <1>3, <1>4
<1>5. CASE Head(l) = SyncReq
  <2>1. /\ 1 = Len(l) /\ p + 1 > period + 1
        /\ r # <<>> => Len(r) = Len(Script(t)) - (p + 1 - 1)
    BY <1>1, <1>3, <1>5
  <2>2. p > period /\ p + 1 - 1 = p
    BY <2>1
  <2>3. Tail(l) = <<>>
    <3>1. \A m \in Seq(Msgs) : Len(m) = 0 => m = <<>>
      OBVIOUS
    <3> DEFINE m == Tail(l)
    <3>2. m \in Seq(Msgs) /\ Len(m) = Len(l) - 1 /\ Len(l) = 1
      BY <1>1, <2>1
    <3> HIDE DEF m
    <3>3. Len(m) = 0
      BY <3>2
    <3> QED BY <3>1, <3>2, <3>3 DEF m
  <2> QED BY <1>5, <2>1, <2>2, <2>3
<1> QED BY <1>4, <1>5

LEMMA FlightTail ==
  ASSUME NEW l \in Seq(Msgs), l # <<>>, NEW t, NEW r, NEW p \in Nat, Flight(l, t, r, p)
  PROVE  Flight(Tail(l), t, r, p + 1)
<1>1. /\ Len(l) \in Nat /\ Len(Tail(l)) = Len(l) - 1
      /\ \A i \in 1..Len(Tail(l)) : i + 1 \in 1..Len(l) /\ Tail(l)[i] = l[i + 1]
  BY TailList, ListSet
<1> DEFINE m == Tail(l)
           N == Len(Script(t))
<1>2. SUFFICES ASSUME NEW i \in 1..Len(m)
               PROVE  \/ (p + 1) + i <= N /\ m[i] = Script(t)[(p + 1) + i] /\ m[i] # SyncReq
                      \/ /\ i = Len(m) /\ m[i] = SyncReq /\ (p + 1) + i > period + 1
                         /\ r # <<>> => Len(r) = N - ((p + 1) + i - 1)
  BY DEF Flight
<1>3. \/ p + (i + 1) <= N /\ l[i + 1] = Script(t)[p + (i + 1)] /\ l[i + 1] # SyncReq
      \/ /\ i + 1 = Len(l) /\ l[i + 1] = SyncReq /\ p + (i + 1) > period + 1
         /\ r # <<>> => Len(r) = N - (p + (i + 1) - 1)
  BY <1>1 DEF Flight
<1>4. m[i] = l[i + 1] /\ i \in Nat /\ Len(m) = Len(l) - 1
  BY <1>1
<1>5. p + (i + 1) = (p + 1) + i
  BY <1>4
<1>6. i + 1 = Len(l) => i = Len(m)
  <2>1. \A x, y, z \in Nat : z = y - 1 /\ x + 1 = y => x = z
    OBVIOUS
  <2>2. Len(m) \in Nat
    BY TailList, ListSet
  <2> HIDE DEF m
  <2> QED BY <1>1, <1>4, <2>1, <2>2
<1> HIDE DEF m, N
<1> QED BY <1>3, <1>4, <1>5, <1>6

LEMMA FlightCut ==
  ASSUME NEW l \in Seq(Msgs), NEW t, NEW r, NEW p \in Nat, Flight(l, t, r, p),
         NEW k \in 0..(Len(l) - 1)
  PROVE  /\ SubSeq(l, 1, k) \in Seq(Msgs) /\ Len(SubSeq(l, 1, k)) = k /\ Flight(SubSeq(l, 1, k), t, r, p)
         /\ \A i \in 1..Len(SubSeq(l, 1, k)) : SubSeq(l, 1, k)[i] # SyncReq
<1> DEFINE m == SubSeq(l, 1, k)
<1>1. Len(l) \in Nat
  BY ListSet
<1>2. m \in Seq(Msgs) /\ Len(m) = k /\ \A i \in 1..Len(m) : m[i] = l[i]
  BY <1>1
<1>3. ASSUME NEW i \in 1..Len(m)
      PROVE  p + i <= Len(Script(t)) /\ m[i] = Script(t)[p + i] /\ m[i] # SyncReq
  <2>1. i \in 1..Len(l) /\ i # Len(l) /\ m[i] = l[i]
    <3> HIDE DEF m
    <3> QED BY <1>1, <1>2
  <2> QED BY <2>1 DEF Flight
<1> HIDE DEF m
<1>4. Flight(m, t, r, p)
  BY <1>3 DEF Flight
<1> QED BY <1>2, <1>3, <1>4 DEF m

LEMMA FlightAt ==
  ASSUME NEW l, NEW t, NEW r, NEW p, Flight(l, t, r, p), NEW i \in 1..Len(l)
  PROVE  \/ p + i <= Len(Script(t)) /\ l[i] = Script(t)[p + i] /\ l[i] # SyncReq
         \/ /\ i = Len(l) /\ l[i] = SyncReq /\ p + i > period + 1
            /\ r # <<>> => Len(r) = Len(Script(t)) - (p + i - 1)
BY Zenon DEF Flight

LEMMA FlightConcat ==
  ASSUME NEW l \in Seq(Msgs), NEW a \in Seq(Msgs), NEW t, NEW r, NEW q, NEW p \in Nat,
         Flight(l, t, r, p), \A i \in 1..Len(l) : l[i] # SyncReq, Flight(a, t, q, p + Len(l))
  PROVE  Flight(l \o a, t, q, p)
<1> DEFINE m == l \o a
           N == Len(Script(t))
           k == Len(l)
<1>1. k \in Nat /\ Len(a) \in Nat
  BY ListSet
<1>2. Len(m) = k + Len(a)
  BY ConcatList
<1>3. \A i \in 1..k : m[i] = l[i]
  BY ConcatList
<1>4. \A i \in 1..Len(a) : m[k + i] = a[i]
  BY ConcatList
<1>5. SUFFICES ASSUME NEW i \in 1..Len(m)
               PROVE  \/ p + i <= N /\ m[i] = Script(t)[p + i] /\ m[i] # SyncReq
                      \/ /\ i = Len(m) /\ m[i] = SyncReq /\ p + i > period + 1
                         /\ q # <<>> => Len(q) = N - (p + i - 1)
  BY DEF Flight
<1>6. CASE i \in 1..k
  <2>1. p + i <= N /\ l[i] = Script(t)[p + i] /\ l[i] # SyncReq
    BY <1>6 DEF Flight
  <2> HIDE DEF m, N, k
  <2> QED BY <1>3, <1>6, <2>1
<1>7. CASE i \notin 1..k
  <2> HIDE DEF m, k
  <2>1. PICK j \in 1..Len(a) : i = k + j
    <3>1. i - k \in 1..Len(a) /\ i = k + (i - k)
      BY <1>1, <1>2, <1>7
    <3> QED BY <3>1
  <2> DEFINE x == (p + k) + j
  <2>2. \/ x <= N /\ a[j] = Script(t)[x] /\ a[j] # SyncReq
        \/ /\ j = Len(a) /\ a[j] = SyncReq /\ x > period + 1
           /\ q # <<>> => Len(q) = N - (x - 1)
    <3> DEFINE y == p + Len(l)
    <3>1. Flight(a, t, q, y)
      OBVIOUS
    <3> HIDE DEF y
    <3>2. \A z \in 1..Len(a) :
            \/ y + z <= Len(Script(t)) /\ a[z] = Script(t)[y + z] /\ a[z] # SyncReq
            \/ /\ z = Len(a) /\ a[z] = SyncReq /\ y + z > period + 1
               /\ q # <<>> => Len(q) = Len(Script(t)) - (y + z - 1)
      BY <3>1, Zenon DEF Flight
    <3>3. \/ y + j <= Len(Script(t)) /\ a[j] = Script(t)[y + j] /\ a[j] # SyncReq
          \/ /\ j = Len(a) /\ a[j] = SyncReq /\ y + j > period + 1
             /\ q # <<>> => Len(q) = Len(Script(t)) - (y + j - 1)
      BY <3>2, Zenon
    <3> QED BY <3>3 DEF y, k
  <2>3. x = p + i /\ (j = Len(a) => i = Len(m))
    BY <1>1, <1>2, <2>1
  <2>4. m[i] = a[j]
    BY <1>4, <2>1
  <2> HIDE DEF x, N
  <2>5. CASE x <= N /\ a[j] = Script(t)[x] /\ a[j] # SyncReq
    BY <2>3, <2>4, <2>5
  <2>6. CASE /\ j = Len(a) /\ a[j] = SyncReq /\ x > period + 1
             /\ q # <<>> => Len(q) = N - (x - 1)
    BY <2>3, <2>4, <2>6
  <2> QED BY <2>2, <2>5, <2>6
<1> QED BY <1>6, <1>7

LEMMA FlightDropped ==
  ASSUME NEW l, NEW t, NEW r, NEW p, Flight(l, t, r, p)
  PROVE  Flight(l, t, <<>>, p)
BY DEF Flight

LEMMA FlightNothing ==
  ASSUME NEW t, NEW r, NEW p
  PROVE  Flight(<<>>, t, r, p)
BY DEF Flight

-----------------------------------------------------------------------------
(* A period.                                                               *)

(* a is what is sent of s when r is what is left of it.                    *)
Sends(a, s, r) ==
  \A i \in 1..Len(a) :
    \/ i <= Len(s) /\ i <= period /\ a[i] = s[i] /\ a[i] # SyncReq
    \/ /\ i = Len(a) /\ a[i] = SyncReq /\ i = period + 1
       /\ r # <<>> => Len(r) = Len(s) - period

Leaves(s, r) ==
  r # <<>> => /\ Len(r) = Len(s) - period
              /\ \A i \in 1..Len(r) : period + i <= Len(s) /\ r[i] = s[period + i]

(* What sendItems keeps of s for the next periods, the items it sends, and *)
(* all that it sends.                                                      *)
Rest(s) == SubSeq(s, period + 1, Len(s))

Out(s) == SubSeq(s, 1, Len(s) - Len(Rest(s)))

Period(s) == Out(s) \o (IF Rest(s) = <<>> THEN <<>> ELSE <<SyncReq>>)

LEMMA Parts ==
  ASSUME period \in Nat, NEW s \in Seq(Data), s # <<>>
  PROVE  /\ Rest(s) \in Seq(Data) /\ Out(s) \in Seq(Data) /\ Len(Out(s)) \in 0..period
         /\ \A i \in 1..Len(Out(s)) : i <= Len(s) /\ i <= period /\ Out(s)[i] = s[i] /\ Out(s)[i] # SyncReq
         /\ Rest(s) = <<>> => Len(Out(s)) = Len(s)
         /\ Rest(s) # <<>> => Len(Out(s)) = period
         /\ Leaves(s, Rest(s))
<1> DEFINE rest == Rest(s)
           out == Out(s)
<1>a. rest = SubSeq(s, period + 1, Len(s))
  BY DEF Rest
<1>b. out = SubSeq(s, 1, Len(s) - Len(rest))
  BY DEF Out
<1> HIDE DEF rest, out
<1>0. Len(s) \in Nat /\ Len(s) > 0 /\ period \in Nat
  OBVIOUS
<1>1. CASE Len(s) <= period
  <2>1. rest = <<>> /\ Len(rest) = 0
    BY <1>a, <1>0, <1>1
  <2>2. out = SubSeq(s, 1, Len(s))
    BY <1>b, <1>0, <2>1
  <2>3. out = s
    <3>1. \A u \in Seq(Data) : SubSeq(u, 1, Len(u)) = u
      OBVIOUS
    <3> QED BY <2>2, <3>1
  <2>4. \A i \in 1..Len(s) : i <= Len(s) /\ i <= period /\ s[i] # SyncReq
    BY <1>0, <1>1, DataNoSignal
  <2>5. Leaves(s, rest)
    BY <2>1 DEF Leaves
  <2>5a. rest \in Seq(Data)
    <3>1. <<>> \in Seq(Data)
      OBVIOUS
    <3> QED BY <2>1, <3>1
  <2>6. Len(s) \in 0..period
    BY <1>0, <1>1
  <2> QED BY <2>1, <2>3, <2>4, <2>5, <2>5a, <2>6 DEF rest, out
<1>2. CASE Len(s) > period
  <2>1. /\ rest \in Seq(Data) /\ Len(rest) = Len(s) - (period + 1) + 1
        /\ \A i \in 1..Len(rest) : i + (period + 1) - 1 \in 1..Len(s)
                                   /\ rest[i] = s[i + (period + 1) - 1]
    <3>1. period + 1 \in 1..(Len(s) + 1) /\ Len(s) \in 0..Len(s) /\ Len(s) >= (period + 1) - 1
      BY <1>0, <1>2
    <3> QED BY <1>a, <3>1, PartList
  <2>2. Len(rest) = Len(s) - period /\ rest # <<>>
    <3>1. \A x, y \in Nat : x > y => x - (y + 1) + 1 = x - y /\ x - y # 0
      OBVIOUS
    <3>2. Len(rest) = Len(s) - period /\ Len(rest) # 0
      BY <1>0, <1>2, <2>1, <3>1
    <3> QED BY <3>2
  <2>3. \A i \in 1..Len(rest) : i + (period + 1) - 1 = period + i
    BY <1>0, <2>2
  <2>4. Leaves(s, rest)
    <3>1. \A i \in 1..Len(rest) : period + i \in 1..Len(s) /\ rest[i] = s[period + i]
      BY <2>1, <2>3
    <3> QED BY <1>0, <2>2, <3>1 DEF Leaves
  <2>5. Len(s) - Len(rest) = period
    BY <1>0, <2>2
  <2>6. out = SubSeq(s, 1, period)
    BY <1>b, <2>5
  <2>7. /\ out \in Seq(Data) /\ Len(out) = period - 1 + 1
        /\ \A i \in 1..Len(out) : i + 1 - 1 \in 1..Len(s) /\ out[i] = s[i + 1 - 1]
    <3>1. 1 \in 1..(Len(s) + 1) /\ period \in 0..Len(s) /\ period >= 1 - 1
      BY <1>0, <1>2
    <3> QED BY <2>6, <3>1, PartList
  <2>8. Len(out) = period
    BY <1>0, <2>7
  <2>9. ASSUME NEW i \in 1..Len(out) PROVE i <= Len(s) /\ i <= period /\ out[i] = s[i] /\ out[i] # SyncReq
    <3>1. i + 1 - 1 = i /\ i <= period
      BY <1>0, <2>8
    <3>2. i \in 1..Len(s) /\ out[i] = s[i]
      BY <2>7, <3>1
    <3>3. s[i] \in Data
      BY <3>2
    <3> QED BY <1>0, <3>1, <3>2, <3>3, DataNoSignal
  <2> QED BY <1>0, <2>1, <2>2, <2>4, <2>7, <2>8, <2>9 DEF rest, out
<1>3. Len(s) <= period \/ Len(s) > period
  BY <1>0
<1> QED BY <1>1, <1>2, <1>3 DEF rest, out

Lists ==
  /\ toClient \in [Clients -> Seq(Msgs)] /\ left \in [Clients -> Seq(Data)]
  /\ toService = [c \in Clients |-> toService[c]]
  /\ builder = [c \in Clients |-> builder[c]]

(* All of s was sent that should have been.                                *)
Whole(a, s, r) ==
  /\ a # <<>>
  /\ \/ a[Len(a)] = SyncReq /\ r # <<>>
     \/ a[Len(a)] = s[Len(s)]

LEMMA ListUpdated ==
  ASSUME NEW S, NEW f \in [Clients -> S], NEW c \in Clients, NEW v \in S
  PROVE  /\ [f EXCEPT ![c] = v] \in [Clients -> S]
         /\ [f EXCEPT ![c] = v][c] = v
         /\ \A d \in Clients \ {c} : [f EXCEPT ![c] = v][d] = f[d]
OBVIOUS

(* A period is sent, ...                                                   *)
LEMMA PeriodSent ==
  ASSUME period \in Nat, NEW s \in Seq(Data), s # <<>>
  PROVE  /\ Period(s) \in Seq(Msgs) /\ Len(Period(s)) <= period + 1
         /\ Sends(Period(s), s, Rest(s)) /\ Whole(Period(s), s, Rest(s))
<1> DEFINE rest == Rest(s)
           out == Out(s)
           a == Period(s)
<1>1. /\ out \in Seq(Data) /\ Len(out) \in 0..period
      /\ \A i \in 1..Len(out) : i <= Len(s) /\ i <= period /\ out[i] = s[i] /\ out[i] # SyncReq
      /\ rest = <<>> => Len(out) = Len(s)
      /\ rest # <<>> => Len(out) = period
      /\ Leaves(s, rest)
  BY Parts
<1>2. out \in Seq(Msgs)
  BY <1>1, DataMsgs
<1>3. period \in Nat /\ Len(s) \in Nat /\ Len(s) # 0
  OBVIOUS
<1>a. a = out \o (IF rest = <<>> THEN <<>> ELSE <<SyncReq>>)
  BY DEF Period
<1>b. \A u : u = <<>> => Len(u) = 0
  OBVIOUS
<1> HIDE DEF rest, out, a
<1>4. CASE rest = <<>>
  <2>1. a = out
    <3>1. a = out \o <<>>
      BY <1>a, <1>4
    <3>2. \A u \in Seq(Msgs) : u \o <<>> = u
      OBVIOUS
    <3> QED BY <1>2, <3>1, <3>2
  <2>2. Len(out) = Len(s) /\ Len(out) \in 1..Len(out) /\ Len(out) # 0
    BY <1>1, <1>3, <1>4
  <2>3. out # <<>> /\ out[Len(out)] = s[Len(s)]
    <3>1. out[Len(out)] = s[Len(out)]
      BY <1>1, <2>2
    <3> QED BY <1>b, <2>2, <3>1
  <2>4. Whole(a, s, rest)
    BY <2>1, <2>3 DEF Whole
  <2>5. Sends(a, s, rest)
    BY <1>1, <2>1 DEF Sends
  <2>6. Len(out) <= period + 1
    BY <1>1, <1>3
  <2> QED BY <1>2, <2>1, <2>4, <2>5, <2>6 DEF a, rest
<1>5. CASE rest # <<>>
  <2>1. a = Append(out, SyncReq)
    <3>1. a = out \o <<SyncReq>>
      BY <1>a, <1>5
    <3>2. \A u \in Seq(Msgs), x \in Msgs : u \o <<x>> = Append(u, x)
      OBVIOUS
    <3>3. SyncReq \in Msgs
      BY DEF Msgs
    <3> QED BY <1>2, <3>1, <3>2, <3>3
  <2>2. SyncReq \in Msgs
    BY DEF Msgs
  <2>3. /\ a \in Seq(Msgs) /\ Len(a) = Len(out) + 1
        /\ \A i \in 1..Len(out) : a[i] = out[i]
        /\ a[Len(out) + 1] = SyncReq
    <3>1. a \in Seq(Msgs)
      BY <1>2, <2>1, <2>2, AppendList
    <3>2. Len(a) = Len(out) + 1
      BY <1>2, <2>1, <2>2, AppendList
    <3>3. \A i \in 1..Len(out) : a[i] = out[i]
      BY <1>2, <2>1, <2>2, AppendList
    <3>4. a[Len(out) + 1] = SyncReq
      BY <1>2, <2>1, <2>2, AppendList
    <3> QED BY <3>1, <3>2, <3>3, <3>4
  <2>4. Len(out) = period /\ Len(a) = period + 1
    BY <1>1, <1>5, <2>3
  <2>5. a # <<>>
    <3>1. Len(a) # 0
      BY <1>3, <2>4
    <3> QED BY <1>b, <3>1
  <2>6. a[Len(a)] = SyncReq
    BY <2>3
  <2>7. Whole(a, s, rest)
    BY <1>5, <2>5, <2>6 DEF Whole
  <2>8. Sends(a, s, rest)
    <3>1. \A i \in 1..Len(a) : i \in 1..Len(out) \/ i = period + 1
      BY <1>3, <2>4
    <3>2. Len(rest) = Len(s) - period
      BY <1>1, <1>5 DEF Leaves
    <3>3. a[period + 1] = SyncReq /\ Len(a) = period + 1
      BY <2>3, <2>4
    <3>4. ASSUME NEW i \in 1..Len(a)
          PROVE  \/ i <= Len(s) /\ i <= period /\ a[i] = s[i] /\ a[i] # SyncReq
                 \/ /\ i = Len(a) /\ a[i] = SyncReq /\ i = period + 1
                    /\ rest # <<>> => Len(rest) = Len(s) - period
      <4>1. CASE i \in 1..Len(out)
        BY <1>1, <2>3, <4>1
      <4>2. CASE i = period + 1
        BY <3>2, <3>3, <4>2
      <4> QED BY <3>1, <4>1, <4>2
    <3> QED BY <3>4 DEF Sends
  <2>9. Len(a) <= period + 1
    BY <1>3, <2>4
  <2> QED BY <2>3, <2>7, <2>8, <2>9 DEF a, rest
<1> QED BY <1>4, <1>5

(* ... or the first k messages of it, when a send fails.                   *)
LEMMA PartSent ==
  ASSUME period \in Nat, NEW s \in Seq(Data), s # <<>>, NEW k \in 0..(Len(Out(s)) - 1)
  PROVE  /\ SubSeq(Out(s), 1, k) \in Seq(Msgs) /\ Len(SubSeq(Out(s), 1, k)) <= period + 1
         /\ Sends(SubSeq(Out(s), 1, k), s, <<>>)
<1> DEFINE out == Out(s)
           a == SubSeq(out, 1, k)
<1>1. /\ out \in Seq(Data) /\ Len(out) \in 0..period
      /\ \A i \in 1..Len(out) : i <= Len(s) /\ i <= period /\ out[i] = s[i] /\ out[i] # SyncReq
  BY Parts
<1>2. out \in Seq(Msgs) /\ period \in Nat /\ k \in 0..(Len(out) - 1)
  BY <1>1, DataMsgs
<1> HIDE DEF out
<1>3. a \in Seq(Msgs) /\ Len(a) = k /\ \A i \in 1..Len(a) : a[i] = out[i]
  BY <1>1, <1>2
<1> HIDE DEF a
<1>4. \A i \in 1..Len(a) : i \in 1..Len(out)
  BY <1>1, <1>2, <1>3
<1>5. Len(a) <= period + 1
  BY <1>1, <1>2, <1>3
<1>6. \A i \in 1..Len(a) : i <= Len(s) /\ i <= period /\ a[i] = s[i] /\ a[i] # SyncReq
  BY <1>1, <1>3, <1>4
<1>7. Sends(a, s, <<>>)
  BY <1>6 DEF Sends
<1> QED BY <1>3, <1>5, <1>7 DEF a, out

LEMMA SendUpdates ==
  ASSUME Lists, NEW c \in Clients, NEW a \in Seq(Msgs), Send(c, a)
  PROVE  /\ toClient' \in [Clients -> Seq(Msgs)]
         /\ \A d \in Clients \ {c} : toClient'[d] = toClient[d]
         /\ gone(c) => toClient'[c] = <<>>
         /\ ~ gone(c) => toClient'[c] = toClient[c] \o a
<1>1. toClient \in [Clients -> Seq(Msgs)] /\ toClient[c] \in Seq(Msgs) /\ <<>> \in Seq(Msgs)
  BY DEF Lists
<1>2. toClient[c] \o a \in Seq(Msgs)
  BY <1>1, ConcatList
<1>3. CASE gone(c)
  <2>1. toClient' = [toClient EXCEPT ![c] = <<>>]
    BY <1>3 DEF Send
  <2> HIDE DEF gone
  <2> QED BY <1>1, <1>3, <2>1, ListUpdated
<1>4. CASE ~ gone(c)
  <2> DEFINE m == toClient[c] \o a
  <2>1. toClient' = [toClient EXCEPT ![c] = m]
    BY <1>4 DEF Send
  <2> HIDE DEF gone, m
  <2>2. m \in Seq(Msgs)
    BY <1>2 DEF m
  <2>3. /\ toClient' \in [Clients -> Seq(Msgs)] /\ toClient'[c] = m
        /\ \A d \in Clients \ {c} : toClient'[d] = toClient[d]
    BY <1>1, <2>1, <2>2, ListUpdated
  <2> QED BY <1>4, <2>3 DEF m
<1> QED BY <1>3, <1>4

LEMMA LeftUpdated ==
  ASSUME Lists, NEW c \in Clients, NEW r \in Seq(Data), left' = [left EXCEPT ![c] = r]
  PROVE  /\ left' \in [Clients -> Seq(Data)] /\ left'[c] = r
         /\ \A d \in Clients \ {c} : left'[d] = left[d]
BY ListUpdated DEF Lists

LEMMA Sendings ==
  ASSUME Lists, period \in Nat, faults \in Nat, NEW c \in Clients, NEW s \in Seq(Data), s # <<>>, sendItems(c, s)
  PROVE  /\ left' \in [Clients -> Seq(Data)] /\ toClient' \in [Clients -> Seq(Msgs)]
         /\ \A d \in Clients \ {c} : left'[d] = left[d] /\ toClient'[d] = toClient[d]
         /\ Leaves(s, left'[c])
         /\ gone(c) => toClient'[c] = <<>>
         /\ \E a \in Seq(Msgs) :
              /\ Len(a) <= period + 1 /\ Sends(a, s, left'[c])
              /\ ~ gone(c) => toClient'[c] = toClient[c] \o a
              /\ faults' = 0 /\ ~ gone(c) => Whole(a, s, left'[c])
<1>1. Rest(s) \in Seq(Data) /\ Leaves(s, Rest(s))
  BY Parts
<1>2. CASE Send(c, Period(s)) /\ left' = [left EXCEPT ![c] = Rest(s)] /\ UNCHANGED faults
  <2>1. /\ Period(s) \in Seq(Msgs) /\ Len(Period(s)) <= period + 1
        /\ Sends(Period(s), s, Rest(s)) /\ Whole(Period(s), s, Rest(s))
    BY PeriodSent
  <2>3. /\ left' \in [Clients -> Seq(Data)] /\ left'[c] = Rest(s)
        /\ \A d \in Clients \ {c} : left'[d] = left[d]
    BY <1>1, <1>2, LeftUpdated
  <2>4. /\ toClient' \in [Clients -> Seq(Msgs)]
        /\ \A d \in Clients \ {c} : toClient'[d] = toClient[d]
        /\ gone(c) => toClient'[c] = <<>>
        /\ ~ gone(c) => toClient'[c] = toClient[c] \o Period(s)
    BY <1>2, <2>1, SendUpdates
  <2> QED BY <1>1, <2>1, <2>3, <2>4
<1>3. CASE /\ \E k \in 0..(Len(Out(s)) - 1) : Send(c, SubSeq(Out(s), 1, k))
           /\ left' = [left EXCEPT ![c] = <<>>]
           /\ Fault(gone(c))
  <2>1. PICK k \in 0..(Len(Out(s)) - 1) : Send(c, SubSeq(Out(s), 1, k))
    BY <1>3
  <2> DEFINE a == SubSeq(Out(s), 1, k)
  <2>2. a \in Seq(Msgs) /\ Len(a) <= period + 1 /\ Sends(a, s, <<>>)
    BY PartSent
  <2>3. Send(c, a) /\ left' = [left EXCEPT ![c] = <<>>]
    BY <1>3, <2>1
  <2>4. ~ gone(c) => faults' # 0
    <3>1. ~ gone(c) => faults' = faults + 1
      BY <1>3 DEF Fault
    <3> HIDE DEF gone
    <3> QED BY <3>1
  <2> HIDE DEF a
  <2>5. /\ left' \in [Clients -> Seq(Data)] /\ left'[c] = <<>>
        /\ \A d \in Clients \ {c} : left'[d] = left[d]
    <3>1. <<>> \in Seq(Data)
      OBVIOUS
    <3> QED BY <2>3, <3>1, LeftUpdated
  <2>6. /\ toClient' \in [Clients -> Seq(Msgs)]
        /\ \A d \in Clients \ {c} : toClient'[d] = toClient[d]
        /\ gone(c) => toClient'[c] = <<>>
        /\ ~ gone(c) => toClient'[c] = toClient[c] \o a
    BY <2>2, <2>3, SendUpdates
  <2>7. Leaves(s, <<>>)
    BY DEF Leaves
  <2> QED BY <2>2, <2>4, <2>5, <2>6, <2>7
<1> QED BY <1>2, <1>3 DEF sendItems, Period, Out, Rest

-----------------------------------------------------------------------------
(* What holds of every client.                                             *)

(* A client in the stage s with the builder b has read p messages of what  *)
(* is sent for the table t.                                                *)
Reads(t, p, s, b) ==
  \/ s = "Request" /\ p = 0 /\ b = <<>>
  \/ s = "SnapshotBegin" /\ p = 1 /\ b = <<>>
  \/ s = "RegionBegin" /\ p = 2 /\ b = <<>> /\ Between(t, p, b)
  \/ s = "RegionBody" /\ InBody(t, p, b)
  \/ s = "RegionOrFinish" /\ Between(t, p, b)

(* What is on its way follows what it has read, and the worker of the      *)
(* service goes on behind it when the client's signal comes.               *)
Follows(c, p) ==
  /\ Reads(taken[c], p, stage[c], builder[c])
  /\ Flight(toClient[c], taken[c], left[c], p)
  /\ svc = c => p + Len(toClient[c]) = 1
  /\ toService[c] = <<"SyncSignalRep">> /\ left[c] # <<>> =>
       Len(left[c]) = Len(Script(taken[c])) - p

Refused(c) ==
  /\ toClient[c] = <<Rep(-1)>> /\ stage[c] = "Request"
  /\ left[c] = <<>> /\ svc # c /\ taken[c] = NoTable /\ builder[c] = <<>>

Following(c) ==
  c \notin broken /\ ~ gone(c) => Refused(c) \/ \E p \in Nat : Follows(c, p)

(* Service and client never send at the same time, and a client that is    *)
(* gone gets nothing.                                                      *)
Turns(c) ==
  /\ toService[c] \in {<<>>, <<"SnapshotReq">>, <<"SyncSignalRep">>}
  /\ toClient[c] # <<>> => toService[c] = <<>> /\ ~ gone(c)
  /\ Len(toClient[c]) <= period + 2

(* A signal is the last message on its way, and none is before the first   *)
(* period.                                                                 *)
Paced(c) ==
  /\ \A i \in 1..Len(toClient[c]) :
       toClient[c][i] = SyncReq => i = Len(toClient[c]) /\ svc # c
  /\ svc = c => Len(toClient[c]) <= 1

Asking(c) ==
  /\ stage[c] = "new" =>
       toService[c] = <<>> /\ left[c] = <<>> /\ taken[c] = NoTable /\ svc # c /\ builder[c] = <<>>
  /\ toService[c] = <<"SnapshotReq">> =>
       left[c] = <<>> /\ taken[c] = NoTable /\ svc # c /\ (gone(c) \/ stage[c] = "Request")
  /\ svc = c =>
       /\ toService[c] = <<>> /\ left[c] = <<>> /\ stage[c] # "new"
       /\ feature = "asked" => taken[c] = NoTable
       /\ feature = "answered" => taken[c] \in Tables /\ package = buildSnapshot(taken[c])

(* r is the end of what is sent for t, and not all of it.                  *)
Remainder(r, t) ==
  /\ Len(r) + period + 1 <= Len(Script(t))
  /\ \A i \in 1..Len(r) : r[i] = Script(t)[Len(Script(t)) - Len(r) + i]

Remains(c) == left[c] # <<>> => taken[c] \in Tables /\ Remainder(left[c], taken[c])

Endings(c) ==
  c \notin broken =>
    /\ stage[c] \in {"finished", "done"} => taken[c] \in Tables /\ builder[c] = taken[c]
    /\ cause[c] = "unexpected" => (taken[c] = <<>> /\ taken[c] \in Tables) \/ period < 2

(* Something is under way for the client, and what it ends with goes on.   *)
Live(c) ==
  \/ toService[c] = <<"SnapshotReq">>
  \/ svc = c
  \/ toService[c] = <<"SyncSignalRep">> /\ left[c] # <<>>
  \/ toClient[c] # <<>> /\ toClient[c][Len(toClient[c])] = SyncReq /\ left[c] # <<>>
  \/ toClient[c] # <<>> /\ toClient[c][Len(toClient[c])] = Msg("SnapshotEnd", "")
  \/ toClient[c] = <<Rep(-1)>>

Quiet == faults = 0 /\ actor = "running"

Lively(c) == Quiet => cause[c] # "timeout" /\ (~ gone(c) => Live(c))

Sound(c) ==
  /\ Turns(c) /\ Paced(c) /\ Asking(c) /\ Remains(c)
  /\ Endings(c) /\ Following(c) /\ Lively(c)

FlowInv == TransferInv /\ Lists /\ \A c \in Clients : Sound(c)

-----------------------------------------------------------------------------
(* A step that does not touch the client d.                                *)

Same(d) ==
  /\ stage'[d] = stage[d] /\ builder'[d] = builder[d] /\ cause'[d] = cause[d]
  /\ toClient'[d] = toClient[d] /\ toService'[d] = toService[d]
  /\ taken'[d] = taken[d] /\ left'[d] = left[d]
  /\ svc' = d <=> svc = d
  /\ svc = d => feature' = feature /\ package' = package

LEMMA SameSound ==
  ASSUME NEW d \in Clients, Sound(d), Same(d), period' = period, d \in broken' <=> d \in broken,
         Quiet' => Quiet
  PROVE  Sound(d)'
<1>1. gone(d)' <=> gone(d)
  BY DEF Same, gone
<1>2. Turns(d)'
  <2> HIDE DEF gone
  <2> QED BY <1>1 DEF Sound, Same, Turns
<1>11. Paced(d)'
  BY DEF Sound, Same, Paced
<1>3. Asking(d)'
  <2> HIDE DEF gone
  <2> QED BY <1>1 DEF Sound, Same, Asking
<1>4. Remains(d)'
  BY DEF Sound, Same, Remains, Remainder
<1>5. Endings(d)'
  BY DEF Sound, Same, Endings
<1>6. \A p : Follows(d, p) => Follows(d, p)'
  BY DEF Same, Follows, Flight
<1>7. Refused(d) => Refused(d)'
  BY DEF Same, Refused
<1>8. Following(d)'
  BY <1>1, <1>6, <1>7 DEF Sound, Following
<1>9. Live(d) => Live(d)'
  BY DEF Same, Live
<1>10. Lively(d)'
  BY <1>1, <1>9 DEF Sound, Same, Lively
<1> QED BY <1>2, <1>3, <1>4, <1>5, <1>8, <1>10, <1>11 DEF Sound

LEMMA OthersSound ==
  ASSUME FlowInv, period' = period, broken' = broken, Quiet' => Quiet, NEW c \in Clients, \A d \in Clients \ {c} : Same(d), Sound(c)'
  PROVE  \A d \in Clients : Sound(d)'
<1>1. ASSUME NEW d \in Clients \ {c} PROVE Sound(d)'
  BY SameSound DEF FlowInv
<1> QED BY <1>1

(* Quiet does not come back.                                               *)
LEMMA QuietBefore ==
  ASSUME TransferInv, [Next]_vars
  PROVE  Quiet' => Quiet
<1>1. faults \in Nat
  BY TransferAssumption DEF TransferInv, Threads
<1>2. faults' = faults \/ faults' = faults + 1
  <2>1. ASSUME NEW harmless, Fault(harmless) PROVE faults' = faults \/ faults' = faults + 1
    BY <2>1 DEF Fault
  <2>2. ASSUME NEW c, NEW s, sendItems(c, s) PROVE faults' = faults \/ faults' = faults + 1
    BY <2>1, <2>2 DEF sendItems
  <2>3. CASE Change \/ onRequest \/ Stop \/ Stopped \/ onPipeReadable \/ UNCHANGED vars
    BY <2>3 DEF Change, onRequest, Stop, Stopped, onPipeReadable, vars
  <2>4. CASE \E S \in SUBSET workers : onTimer(S)
    BY <2>1, <2>4 DEF onTimer
  <2>5. ASSUME NEW c \in Clients, onSnapshotReq(c) \/ refuse(c) \/ onBuilt(c) \/ onSyncSignal(c)
        PROVE  faults' = faults \/ faults' = faults + 1
    BY <2>1, <2>2, <2>5 DEF onSnapshotReq, refuse, onBuilt, onSyncSignal
  <2>6. ASSUME NEW c \in Clients, pull(c) PROVE faults' = faults
    <3>1. ASSUME NEW next, NEW why, Take(c, next, why) PROVE faults' = faults
      BY <3>1 DEF Take
    <3> QED BY <2>6, <3>1 DEF pull, onReqReadable, pullSnapshotBegin, pullRegionBegin,
                              pullRegionOrFinish, pullRegionBody, answerSync
  <2>7. ASSUME NEW c \in Clients, start(c) \/ onCallerPipeReadable(c) \/ stop(c)
        PROVE  faults' = faults
    BY <2>7 DEF start, onCallerPipeReadable, stop
  <2>8. ASSUME NEW c \in Clients, onTimeoutTimer(c) \/ Break(c)
        PROVE  faults' = faults \/ faults' = faults + 1
    BY <2>1, <2>8 DEF onTimeoutTimer, Break
  <2> QED BY <2>3, <2>4, <2>5, <2>6, <2>7, <2>8 DEF Next
<1>3. actor' = "running" => actor = "running"
  BY DEF Next, vars, Change, onRequest, Stop, Stopped, onPipeReadable, onTimer, onSnapshotReq, refuse,
         onBuilt, onSyncSignal, start, pull, onReqReadable, pullSnapshotBegin,
         pullRegionBegin, pullRegionOrFinish, pullRegionBody, answerSync, Take, onTimeoutTimer,
         onCallerPipeReadable, stop, Break, Fault
<1> QED BY <1>1, <1>2, <1>3 DEF Quiet

LEMMA InitFlow == Init => FlowInv
<1>1. SUFFICES ASSUME Init PROVE FlowInv
  OBVIOUS
<1>2. TransferInv
  BY <1>1, InitInv
<1>3. Lists
  <2>1. <<>> \in Seq(Msgs) /\ <<>> \in Seq(Data)
    OBVIOUS
  <2> QED BY <1>1, <2>1 DEF Init, Lists
<1>4. ASSUME NEW c \in Clients PROVE Sound(c)
  <2>1. /\ stage[c] = "new" /\ builder[c] = <<>> /\ toClient[c] = <<>> /\ toService[c] = <<>>
        /\ taken[c] = NoTable /\ cause[c] = "none" /\ left[c] = <<>> /\ svc # c
    BY <1>1, TransferAssumption DEF Init
  <2>2. gone(c)
    BY <2>1 DEF gone, Pulling
  <2>3. Len(<<>>) = 0 /\ period \in Nat
    BY <1>1, TransferAssumption DEF Init
  <2>4. Len(toClient[c]) <= period + 2
    BY <2>1, <2>3
  <2> HIDE DEF gone
  <2>5. Turns(c)
    BY <2>1, <2>4 DEF Turns
  <2>6. Asking(c) /\ Paced(c)
    BY <2>1, <2>3 DEF Asking, Paced
  <2>7. Remains(c) /\ Endings(c)
    BY <2>1 DEF Remains, Endings
  <2>8. Following(c) /\ Lively(c)
    BY <2>1, <2>2 DEF Following, Lively
  <2> QED BY <2>5, <2>6, <2>7, <2>8 DEF Sound
<1> QED BY <1>2, <1>3, <1>4 DEF FlowInv

LEMMA SameAll ==
  ASSUME FlowInv, period' = period, broken' = broken, Quiet' => Quiet, UNCHANGED <<service, client, toClient, toService, taken>>
  PROVE  Lists' /\ \A c \in Clients : Sound(c)'
<1>1. Lists'
  BY DEF FlowInv, Lists, service, client
<1>2. ASSUME NEW c \in Clients PROVE Sound(c)'
  <2>1. Same(c)
    BY DEF Same, service, client
  <2> QED BY <2>1, SameSound DEF FlowInv
<1> QED BY <1>1, <1>2

(* The table is read for the client the service asks for: what was sent it *)
(* before is the same for every table.                                     *)
LEMMA RequestSound ==
  ASSUME FlowInv, period' = period, broken' = broken, Quiet' => Quiet, onRequest
  PROVE  Lists' /\ \A c \in Clients : Sound(c)'
<1>1. PICK c \in Clients : svc = c /\ feature = "asked" /\ table \in Tables
  BY DEF onRequest, FlowInv, TransferInv, Threads
<1>2. UNCHANGED <<stage, builder, cause, toClient, toService, left, svc>>
  BY DEF onRequest, client
<1>3. /\ taken'[c] = table /\ \A d \in Clients \ {c} : taken'[d] = taken[d]
  BY <1>1, Updated DEF onRequest, FlowInv, TransferInv, Shapes
<1>4. feature' = "answered" /\ package' = buildSnapshot(table)
  BY DEF onRequest
<1>5. Lists'
  BY <1>2 DEF FlowInv, Lists
<1>6. \A d \in Clients \ {c} : Same(d)
  BY <1>1, <1>2, <1>3 DEF Same
<1>7. Sound(c)
  BY <1>1 DEF FlowInv
<1>8. /\ toService[c] = <<>> /\ left[c] = <<>> /\ stage[c] # "new" /\ taken[c] = NoTable
      /\ taken[c] \notin Tables
  BY <1>1, <1>7, TransferAssumption DEF Sound, Asking
<1>9. gone(c)' <=> gone(c)
  BY <1>2 DEF gone
<1> HIDE DEF gone
<1>10. Turns(c)'
  BY <1>2, <1>7, <1>9 DEF Sound, Turns
<1>11. Asking(c)'
  BY <1>1, <1>2, <1>3, <1>4, <1>8 DEF Asking
<1>a. Paced(c)'
  BY <1>2, <1>7 DEF Sound, Paced
<1>b. period \in Nat
  BY TransferAssumption DEF FlowInv, TransferInv, Threads
<1>12. Remains(c)'
  BY <1>2, <1>8 DEF Remains
<1>13. Endings(c)'
  BY <1>2, <1>7, <1>8 DEF Sound, Endings
<1>14. Following(c)'
  <2>1. SUFFICES ASSUME ~ gone(c)', c \notin broken PROVE \E p \in Nat : Follows(c, p)'
    BY DEF Following
  <2>2. PICK p \in Nat : Follows(c, p)
    BY <1>1, <1>7, <1>9, <2>1 DEF Sound, Following, Refused
  <2>3. p + Len(toClient[c]) = 1 /\ Reads(taken[c], p, stage[c], builder[c])
    BY <1>1, <2>2 DEF Follows
  <2>4. Reads(table, p, stage[c], builder[c])
    BY <1>8, <2>3 DEF Reads, Between, InBody
  <2>5. Flight(toClient[c], table, left[c], p)
    <3>1. Script(NoTable)[1] = Rep(0) /\ Script(table)[1] = Rep(0) /\ Len(Script(table)) \in Nat
          /\ Len(Script(table)) >= 3
      BY <1>1, ScriptLayout DEF Script
    <3>2. ASSUME NEW i \in 1..Len(toClient[c])
          PROVE  p + i <= Len(Script(table)) /\ toClient[c][i] = Script(table)[p + i]
                 /\ toClient[c][i] # SyncReq
      <4>1. Len(toClient[c]) \in Nat
        BY <1>1, ListSet DEF FlowInv, Lists
      <4>2. p + i = 1
        BY <2>3, <4>1
      <4>3. Flight(toClient[c], NoTable, left[c], p)
        BY <1>8, <2>2 DEF Follows
      <4>4. \/ p + i <= Len(Script(NoTable)) /\ toClient[c][i] = Script(NoTable)[p + i]
               /\ toClient[c][i] # SyncReq
            \/ p + i > period + 1
        BY <4>3, FlightAt
      <4>5. toClient[c][i] = Script(NoTable)[1] /\ toClient[c][i] # SyncReq
        BY <1>b, <4>2, <4>4
      <4>6. 1 <= Len(Script(table))
        BY <3>1
      <4> QED BY <3>1, <4>2, <4>5, <4>6
    <3> QED BY <3>2 DEF Flight
  <2>6. Follows(c, p)'
    BY <1>2, <1>3, <1>8, <2>3, <2>4, <2>5 DEF Follows, Flight
  <2> QED BY <2>6
<1>15. Lively(c)'
  BY <1>1, <1>2, <1>7 DEF Sound, Lively, Live
<1>16. Sound(c)'
  BY <1>a, <1>10, <1>11, <1>12, <1>13, <1>14, <1>15 DEF Sound
<1> QED BY <1>5, <1>6, <1>16, OthersSound

(* A worker is dropped, or a message of the client that nobody waits for.  *)
LEMMA DroppedSound ==
  ASSUME NEW c \in Clients, Sound(c), toClient[c] \in Seq(Msgs),
         stage'[c] = stage[c], builder'[c] = builder[c], cause'[c] = cause[c],
         toClient'[c] = toClient[c], taken'[c] = taken[c],
         toService'[c] \in {toService[c], <<>>}, left'[c] = <<>>, svc # c, svc' # c,
         period' = period, broken' = broken, Lively(c)'
  PROVE  Sound(c)'
<1>1. gone(c)' <=> gone(c)
  BY DEF gone
<1> HIDE DEF gone
<1>2. Turns(c)' /\ Paced(c)'
  BY <1>1 DEF Sound, Turns, Paced
<1>3. Asking(c)'
  <2>1. toService'[c] = toService[c] \/ toService'[c] = <<>>
    OBVIOUS
  <2>2. CASE toService'[c] = toService[c]
    BY <1>1, <2>2 DEF Sound, Asking
  <2>3. CASE toService'[c] = <<>>
    <3>1. <<"SnapshotReq">> # <<>>
      OBVIOUS
    <3>2. stage[c] = "new" => taken[c] = NoTable /\ builder[c] = <<>>
      BY DEF Sound, Asking
    <3> QED BY <2>3, <3>1, <3>2 DEF Asking
  <2> QED BY <2>1, <2>2, <2>3
<1>4. Remains(c)'
  BY DEF Remains
<1>5. Endings(c)'
  BY DEF Sound, Endings
<1>6. Following(c)'
  <2>1. \A p \in Nat : Follows(c, p) => Follows(c, p)'
    BY FlightDropped DEF Follows, Flight
  <2>2. Refused(c) => Refused(c)'
    BY DEF Refused
  <2> QED BY <1>1, <2>1, <2>2 DEF Sound, Following
<1> QED BY <1>2, <1>3, <1>4, <1>5, <1>6 DEF Sound

LEMMA DropSound ==
  ASSUME FlowInv, period' = period, broken' = broken, Quiet' => Quiet, (\E S \in SUBSET workers : onTimer(S)) \/ onPipeReadable
  PROVE  Lists' /\ \A c \in Clients : Sound(c)'
<1>0. faults \in Nat /\ {"loop", "ended"} \cap Clients = {}
  BY TransferAssumption DEF FlowInv, TransferInv, Threads
<1>1. CASE onPipeReadable
  <2>1. /\ left' = [c \in Clients |-> <<>>] /\ toService' = [c \in Clients |-> <<>>]
        /\ UNCHANGED <<stage, builder, cause, toClient, taken>>
        /\ svc = "loop" /\ svc' = "ended" /\ actor' # "running"
    BY <1>1 DEF onPipeReadable, client
  <2>2. Lists'
    <3>1. <<>> \in Seq(Data)
      OBVIOUS
    <3> QED BY <2>1, <3>1 DEF FlowInv, Lists
  <2>3. ASSUME NEW c \in Clients PROVE Sound(c)'
    <3>1. Lively(c)'
      BY <2>1 DEF Lively, Quiet
    <3>2. Sound(c) /\ toClient[c] \in Seq(Msgs) /\ svc # c /\ svc' # c
      BY <1>0, <2>1 DEF FlowInv, Lists
    <3> QED BY <2>1, <3>1, <3>2, DroppedSound
  <2> QED BY <2>2, <2>3
<1>2. CASE \E S \in SUBSET workers : onTimer(S)
  <2>1. PICK S \in SUBSET workers : onTimer(S)
    BY <1>2
  <2>2. /\ left' = [c \in Clients |-> IF c \in S THEN <<>> ELSE left[c]]
        /\ UNCHANGED <<stage, builder, cause, toClient, toService, taken, svc, feature, package, actor>>
        /\ svc = "loop"
    BY <2>1 DEF onTimer, client
  <2>3. Lists'
    <3>1. <<>> \in Seq(Data)
      OBVIOUS
    <3> QED BY <2>2, <3>1 DEF FlowInv, Lists
  <2>4. ASSUME NEW c \in Clients PROVE Sound(c)'
    <3>1. Sound(c) /\ toClient[c] \in Seq(Msgs) /\ svc # c
      BY <1>0, <2>2 DEF FlowInv, Lists
    <3>2. CASE c \notin S
      <4>1. Same(c)
        BY <2>2, <3>2 DEF Same
      <4> QED BY <3>1, <4>1, SameSound
    <3>3. CASE c \in S
      <4>1. faults' = 0 => gone(c) \/ stalled(c)
        <5>1. \/ \A d \in S : gone(d) \/ stalled(d)
              \/ faults' = faults + 1
          BY <2>1 DEF onTimer, Fault
        <5> HIDE DEF gone, stalled
        <5> QED BY <1>0, <3>3, <5>1
      <4>2. Lively(c)'
        <5>1. SUFFICES ASSUME Quiet' PROVE cause[c]' # "timeout" /\ (~ gone(c)' => Live(c)')
          BY DEF Lively
        <5>2. cause[c] # "timeout" /\ (~ gone(c) => Live(c)) /\ actor = "running"
          BY <3>1, <5>1 DEF Sound, Lively, Quiet
        <5>3. ~ (stalled(c) /\ Live(c))
          <6>1. \A x : <<x>> # <<>>
            OBVIOUS
          <6>2. stalled(c) => toClient[c] = <<>> /\ toService[c] = <<>> /\ svc # c
            BY <5>2 DEF stalled
          <6> HIDE DEF stalled
          <6>3. toClient[c] = <<>> /\ toService[c] = <<>> /\ svc # c => ~ Live(c)
            BY <6>1, Zenon DEF Live
          <6> QED BY <6>2, <6>3
        <5>4. gone(c)' <=> gone(c)
          BY <2>2 DEF gone
        <5>5. gone(c)
          <6> HIDE DEF gone, stalled
          <6> QED BY <4>1, <5>1, <5>2, <5>3 DEF Quiet
        <5> HIDE DEF gone
        <5> QED BY <2>2, <5>2, <5>4, <5>5
      <4> QED BY <2>2, <3>1, <3>3, <4>2, DroppedSound
    <3> QED BY <3>2, <3>3
  <2> QED BY <2>3, <2>4
<1> QED BY <1>1, <1>2

(* What is sent of the messages after the first q continues the script.    *)
LEMMA SentFlight ==
  ASSUME period \in Nat, NEW s \in Seq(Data), NEW a \in Seq(Msgs), NEW r \in Seq(Data), NEW t \in Tables,
         NEW q \in Nat, q >= 1, Sends(a, s, r), Len(s) + q = Len(Script(t)),
         \A i \in 1..Len(s) : s[i] = Script(t)[q + i]
  PROVE  Flight(a, t, r, q)
<1>1. Len(s) \in Nat /\ Len(a) \in Nat /\ Len(Script(t)) \in Nat
  <2>1. Len(s) \in Nat /\ Len(a) \in Nat
    BY ListSet
  <2>2. Len(Script(t)) \in Nat
    BY ScriptLayout
  <2> QED BY <2>1, <2>2
<1>2. ASSUME NEW i \in 1..Len(a)
      PROVE  \/ q + i <= Len(Script(t)) /\ a[i] = Script(t)[q + i] /\ a[i] # SyncReq
             \/ /\ i = Len(a) /\ a[i] = SyncReq /\ q + i > period + 1
                /\ r # <<>> => Len(r) = Len(Script(t)) - (q + i - 1)
  <2>1. \/ i <= Len(s) /\ a[i] = s[i] /\ a[i] # SyncReq
        \/ /\ i = Len(a) /\ a[i] = SyncReq /\ i = period + 1
           /\ r # <<>> => Len(r) = Len(s) - period
    BY Zenon DEF Sends
  <2>2. CASE i <= Len(s) /\ a[i] = s[i] /\ a[i] # SyncReq
    <3>1. i \in 1..Len(s) /\ q + i <= Len(Script(t))
      BY <1>1, <2>2
    <3> QED BY <2>2, <3>1
  <2>3. CASE /\ i = Len(a) /\ a[i] = SyncReq /\ i = period + 1
             /\ r # <<>> => Len(r) = Len(s) - period
    <3>1. q + i > period + 1 /\ Len(s) - period = Len(Script(t)) - (q + i - 1)
      BY <1>1, <2>3
    <3> QED BY <2>3, <3>1
  <2> QED BY <2>1, <2>2, <2>3
<1> QED BY <1>2 DEF Flight

LEMMA LeftRemains ==
  ASSUME period \in Nat, NEW s \in Seq(Data), NEW r \in Seq(Data), NEW t \in Tables, NEW q \in Nat, q >= 1,
         Leaves(s, r), r # <<>>, Len(s) + q = Len(Script(t)),
         \A i \in 1..Len(s) : s[i] = Script(t)[q + i]
  PROVE  Remainder(r, t)
<1>1. Len(s) \in Nat /\ Len(r) \in Nat /\ Len(Script(t)) \in Nat
  <2>1. Len(s) \in Nat /\ Len(r) \in Nat
    BY ListSet
  <2>2. Len(Script(t)) \in Nat
    BY ScriptLayout
  <2> QED BY <2>1, <2>2
<1>2. /\ Len(r) = Len(s) - period
      /\ \A i \in 1..Len(r) : period + i <= Len(s) /\ r[i] = s[period + i]
  BY DEF Leaves
<1>3. Len(r) + period + 1 <= Len(Script(t))
  BY <1>1, <1>2
<1>4. ASSUME NEW i \in 1..Len(r) PROVE r[i] = Script(t)[Len(Script(t)) - Len(r) + i]
  <2>1. period + i \in 1..Len(s) /\ q + (period + i) = Len(Script(t)) - Len(r) + i
    <3>1. period + i <= Len(s)
      BY <1>2
    <3>3. i \in Nat /\ i >= 1
      BY <1>1
    <3>4. q + (period + i) = Len(Script(t)) - Len(r) + i
      <4> DEFINE x == Len(r)
                 y == Len(s)
                 z == Len(Script(t))
                 n == period
      <4>1. x \in Nat /\ y \in Nat /\ z \in Nat /\ n \in Nat /\ x = y - n /\ y + q = z
        BY <1>1, <1>2
      <4> HIDE DEF x, y, z, n
      <4>2. q + (n + i) = z - x + i
        BY <3>3, <4>1
      <4> QED BY <4>2 DEF x, z, n
    <3> QED BY <1>1, <3>1, <3>3, <3>4
  <2>2. r[i] = s[period + i]
    BY <1>2
  <2>3. s[period + i] = Script(t)[q + (period + i)]
    BY <2>1
  <2> QED BY <2>1, <2>2, <2>3
<1> QED BY <1>3, <1>4 DEF Remainder

LEMMA LastOfScript ==
  ASSUME NEW t \in Tables
  PROVE  Script(t)[Len(Script(t))] = Msg("SnapshotEnd", "")
<1>1. Len(Script(t)) = Offsets(t)[Len(t)] + 1 /\ Script(t)[Offsets(t)[Len(t)] + 1] = Msg("SnapshotEnd", "")
  BY ScriptLayout DEF Layout
<1> QED BY <1>1

LEMMA LastOfConcat ==
  ASSUME NEW S, NEW l \in Seq(S), NEW a \in Seq(S), a # <<>>
  PROVE  l \o a # <<>> /\ (l \o a)[Len(l \o a)] = a[Len(a)]
<1>1. Len(l) \in Nat /\ Len(a) \in Nat /\ Len(a) # 0
  OBVIOUS
<1>2. Len(l \o a) = Len(l) + Len(a)
  BY ConcatList
<1>3. \A i \in 1..Len(a) : (l \o a)[Len(l) + i] = a[i]
  BY ConcatList
<1> DEFINE m == l \o a
<1> HIDE DEF m
<1>4. Len(m) # 0
  BY <1>1, <1>2 DEF m
<1>5. Len(a) \in 1..Len(a)
  BY <1>1
<1>6. \A u : u = <<>> => Len(u) = 0
  OBVIOUS
<1>7. m # <<>>
  BY <1>4, <1>6
<1> QED BY <1>2, <1>3, <1>5, <1>7 DEF m

(* The worker sends a period of s, which begins behind the first q         *)
(* messages; the client waits for just those.                              *)
LEMMA SendSound ==
  ASSUME FlowInv, period' = period, broken' = broken, Quiet' => Quiet,
         NEW c \in Clients, NEW s \in Seq(Data), s # <<>>, sendItems(c, s),
         taken[c] \in Tables, NEW q \in Nat, q >= 1, Len(s) + q = Len(Script(taken[c])),
         \A i \in 1..Len(s) : s[i] = Script(taken[c])[q + i],
         c \notin broken /\ ~ gone(c) =>
           \E p \in Nat : Follows(c, p) /\ p + Len(toClient[c]) = q,
         ~ gone(c) => /\ Len(toClient[c]) <= 1
                      /\ \A i \in 1..Len(toClient[c]) : toClient[c][i] # SyncReq,
         toService'[c] = <<>>, svc' # c, stage[c] # "new",
         stage'[c] = stage[c], builder'[c] = builder[c], cause'[c] = cause[c], taken'[c] = taken[c]
  PROVE  /\ left' \in [Clients -> Seq(Data)] /\ toClient' \in [Clients -> Seq(Msgs)]
         /\ \A d \in Clients \ {c} : left'[d] = left[d] /\ toClient'[d] = toClient[d]
         /\ Sound(c)'
<1>0. faults \in Nat /\ Lists /\ Sound(c) /\ period \in Nat
  BY TransferAssumption DEF FlowInv, TransferInv, Threads
<1>1. /\ left' \in [Clients -> Seq(Data)] /\ toClient' \in [Clients -> Seq(Msgs)]
      /\ \A d \in Clients \ {c} : left'[d] = left[d] /\ toClient'[d] = toClient[d]
      /\ Leaves(s, left'[c])
      /\ gone(c) => toClient'[c] = <<>>
      /\ \E a \in Seq(Msgs) :
           /\ Len(a) <= period + 1 /\ Sends(a, s, left'[c])
           /\ ~ gone(c) => toClient'[c] = toClient[c] \o a
           /\ faults' = 0 /\ ~ gone(c) => Whole(a, s, left'[c])
  BY <1>0, Sendings
<1>2. PICK a \in Seq(Msgs) :
           /\ Len(a) <= period + 1 /\ Sends(a, s, left'[c])
           /\ ~ gone(c) => toClient'[c] = toClient[c] \o a
           /\ faults' = 0 /\ ~ gone(c) => Whole(a, s, left'[c])
  BY <1>1
<1>3. gone(c)' <=> gone(c)
  BY DEF gone
<1>4. toClient[c] \in Seq(Msgs) /\ Len(toClient[c]) \in Nat /\ left'[c] \in Seq(Data)
  BY <1>0, <1>1, ListSet DEF Lists
<1>5. Len(a) \in Nat
  BY ListSet
<1> DEFINE t == taken[c]
           l == toClient[c]
           r == left'[c]
<1> HIDE DEF gone, Sound
<1>6. Turns(c)'
  <2>1. Len(toClient'[c]) <= period + 2
    <3>1. CASE gone(c)
      <4>1. Len(<<>>) = 0
        OBVIOUS
      <4> QED BY <1>0, <1>1, <3>1, <4>1
    <3>2. CASE ~ gone(c)
      <4>1. Len(l \o a) = Len(l) + Len(a)
        BY <1>4, ConcatList
      <4>2. toClient'[c] = l \o a /\ Len(l) <= 1
        BY <1>2, <3>2
      <4>3. Len(toClient'[c]) = Len(l) + Len(a)
        BY <4>1, <4>2
      <4> HIDE DEF l
      <4>4. Len(l) \in Nat
        BY <1>4 DEF l
      <4> QED BY <1>0, <1>2, <1>5, <4>2, <4>3, <4>4
    <3> QED BY <3>1, <3>2
  <2> QED BY <1>1, <1>3, <2>1 DEF Turns
<1>a. Paced(c)'
  <2>1. CASE gone(c)
    <3>1. Len(<<>>) = 0
      OBVIOUS
    <3> QED BY <1>1, <2>1, <3>1 DEF Paced
  <2>2. CASE ~ gone(c)
    <3>1. /\ Len(l \o a) = Len(l) + Len(a)
          /\ \A i \in 1..Len(l) : (l \o a)[i] = l[i]
          /\ \A i \in 1..Len(a) : (l \o a)[Len(l) + i] = a[i]
          /\ \A i \in 1..Len(l \o a) : i \in 1..Len(l) \/ \E j \in 1..Len(a) : i = Len(l) + j
      <4>1. l \in Seq(Msgs)
        BY <1>4
      <4> HIDE DEF l
      <4> QED BY <4>1, ConcatList
    <3>2. toClient'[c] = l \o a /\ \A i \in 1..Len(l) : l[i] # SyncReq
      BY <1>2, <2>2
    <3>3. \A i \in 1..Len(a) : a[i] = SyncReq => i = Len(a)
      BY <1>2 DEF Sends
    <3> DEFINE m == l \o a
    <3> HIDE DEF m, l
    <3>4. ASSUME NEW i \in 1..Len(m), m[i] = SyncReq PROVE i = Len(m)
      BY <3>1, <3>2, <3>3, <3>4 DEF m
    <3> QED BY <3>2, <3>4 DEF Paced, m
  <2> QED BY <2>1, <2>2
<1>7. Asking(c)'
  <2>1. <<"SnapshotReq">> # <<>>
    OBVIOUS
  <2> QED BY <2>1 DEF Asking
<1>8. Remains(c)'
  <2>1. r # <<>> => Remainder(r, t)
    BY <1>0, <1>1, <1>4, LeftRemains
  <2> QED BY <2>1 DEF Remains, Remainder
<1>9. Endings(c)'
  BY <1>0 DEF Sound, Endings
<1>10. Following(c)'
  <2>1. SUFFICES ASSUME ~ gone(c), c \notin broken PROVE \E p \in Nat : Follows(c, p)'
    BY <1>3 DEF Following
  <2>2. PICK p \in Nat : Follows(c, p) /\ p + Len(l) = q
    BY <2>1
  <2>3. Flight(a, t, r, q)
    BY <1>0, <1>2, <1>4, SentFlight
  <2>4. Flight(l \o a, t, r, p)
    <3>1. Flight(l, t, left[c], p)
      BY <2>2 DEF Follows
    <3>2. \A i \in 1..Len(l) : l[i] # SyncReq
      BY <2>1
    <3>3. Flight(a, t, r, p + Len(l))
      BY <2>2, <2>3
    <3>4. l \in Seq(Msgs)
      BY <1>4
    <3> HIDE DEF l, r, t
    <3> QED BY <3>1, <3>2, <3>3, <3>4, FlightConcat
  <2>5. <<"SyncSignalRep">> # <<>>
    OBVIOUS
  <2>6. Reads(taken'[c], p, stage'[c], builder'[c])
    BY <2>2 DEF Follows
  <2>7. Flight(toClient'[c], taken'[c], left'[c], p)
    BY <1>2, <2>1, <2>4
  <2>8. Follows(c, p)'
    BY <2>5, <2>6, <2>7 DEF Follows, Flight
  <2> QED BY <2>8
<1>11. Lively(c)'
  <2>1. SUFFICES ASSUME Quiet' PROVE cause'[c] # "timeout" /\ (~ gone(c) => Live(c)')
    BY <1>3 DEF Lively
  <2>2. cause'[c] # "timeout" /\ faults' = 0
    BY <1>0, <2>1 DEF Sound, Lively, Quiet
  <2>3. ASSUME ~ gone(c) PROVE Live(c)'
    <3>1. Whole(a, s, r) /\ toClient'[c] = l \o a
      BY <1>2, <2>2, <2>3
    <3>2. a # <<>>
      BY <3>1 DEF Whole
    <3>3. toClient'[c] # <<>> /\ toClient'[c][Len(toClient'[c])] = a[Len(a)]
      <4>1. l \in Seq(Msgs)
        BY <1>4
      <4> HIDE DEF l
      <4> QED BY <3>1, <3>2, <4>1, LastOfConcat
    <3>4. s[Len(s)] = Msg("SnapshotEnd", "")
      <4>1. Len(s) \in Nat /\ Len(s) # 0
        OBVIOUS
      <4>2. Len(s) \in 1..Len(s)
        BY <4>1
      <4>3. s[Len(s)] = Script(t)[q + Len(s)] /\ q + Len(s) = Len(Script(t))
        BY <4>1, <4>2
      <4> QED BY <4>3, LastOfScript
    <3>5. (a[Len(a)] = SyncReq /\ r # <<>>) \/ a[Len(a)] = Msg("SnapshotEnd", "")
      BY <3>1, <3>4 DEF Whole
    <3> QED BY <3>3, <3>5 DEF Live
  <2> QED BY <2>2, <2>3
<1>12. Sound(c)'
  BY <1>a, <1>6, <1>7, <1>8, <1>9, <1>10, <1>11 DEF Sound
<1> QED BY <1>1, <1>12

LEMMA OneMessage ==
  /\ \A x : <<x>> # <<>> /\ Len(<<x>>) = 1 /\ Head(<<x>>) = x /\ Tail(<<x>>) = <<>> /\ <<x>>[1] = x
  /\ Len(<<>>) = 0
OBVIOUS

LEMMA AtMostOne ==
  ASSUME NEW u, NEW x, u = <<>> \/ u = <<x>>
  PROVE  Len(u) \in {0, 1} /\ \A i \in 1..Len(u) : u[i] = x
OBVIOUS

LEMMA ReceivedFacts ==
  ASSUME FlowInv, NEW c \in Clients, NEW type, Received(c, type)
  PROVE  /\ svc = "loop" /\ svc # c /\ toService[c] = <<type>> /\ toClient[c] = <<>>
         /\ toService' = [d \in Clients |-> toService'[d]]
         /\ toService'[c] = <<>> /\ \A d \in Clients \ {c} : toService'[d] = toService[d]
<1>1. Sound(c) /\ Lists /\ "loop" \notin Clients
  BY TransferAssumption DEF FlowInv
<1>2. toService[c] \in {<<>>, <<"SnapshotReq">>, <<"SyncSignalRep">>}
  BY <1>1 DEF Sound, Turns
<1>3. toService[c] # <<>> /\ Head(toService[c]) = type /\ svc = "loop"
  BY DEF Received
<1>4. toService[c] = <<type>> /\ Tail(toService[c]) = <<>>
  BY <1>2, <1>3, OneMessage
<1>5. toService' = [toService EXCEPT ![c] = <<>>]
  BY <1>4 DEF Received
<1>6. toClient[c] = <<>>
  BY <1>1, <1>3 DEF Sound, Turns
<1>7. toService = [d \in Clients |-> toService[d]]
  BY <1>1 DEF Lists
<1>8. /\ toService' = [d \in Clients |-> toService'[d]]
      /\ toService'[c] = <<>> /\ \A d \in Clients \ {c} : toService'[d] = toService[d]
  BY <1>5, <1>7, Updated
<1> QED BY <1>1, <1>3, <1>4, <1>6, <1>8

(* An accepted request: its answer is the first message of the script.     *)
LEMMA AcceptSound ==
  ASSUME FlowInv, period' = period, broken' = broken, Quiet' => Quiet, NEW c \in Clients, onSnapshotReq(c)
  PROVE  Lists' /\ \A d \in Clients : Sound(d)'
<1>1. /\ svc = "loop" /\ svc # c /\ toService[c] = <<"SnapshotReq">> /\ toClient[c] = <<>>
      /\ toService' = [d \in Clients |-> toService'[d]]
      /\ toService'[c] = <<>> /\ \A d \in Clients \ {c} : toService'[d] = toService[d]
  BY ReceivedFacts DEF onSnapshotReq
<1>2. /\ svc' = c /\ feature' = "asked" /\ Send(c, <<Rep(0)>>)
      /\ UNCHANGED <<package, left, stage, builder, cause, taken, faults, actor>>
  BY DEF onSnapshotReq, client
<1>3. Lists /\ Sound(c) /\ period \in Nat /\ "loop" \notin Clients
  BY TransferAssumption DEF FlowInv, TransferInv, Threads
<1>4. <<Rep(0)>> \in Seq(Msgs) /\ <<Rep(0)>> # <<>>
  <2>1. Rep(0) \in Data
    BY DEF Rep, Msg, Data
  <2>2. Rep(0) \in Msgs
    BY <2>1 DEF Msgs
  <2> HIDE DEF Rep
  <2> QED BY <2>2
<1>5. /\ toClient' \in [Clients -> Seq(Msgs)]
      /\ \A d \in Clients \ {c} : toClient'[d] = toClient[d]
      /\ gone(c) => toClient'[c] = <<>>
      /\ ~ gone(c) => toClient'[c] = toClient[c] \o <<Rep(0)>>
  BY <1>2, <1>3, <1>4, SendUpdates
<1>6. ~ gone(c) => toClient'[c] = <<Rep(0)>>
  <2>1. \A u \in Seq(Msgs) : <<>> \o u = u
    OBVIOUS
  <2> HIDE DEF gone, Rep
  <2> QED BY <1>1, <1>4, <1>5, <2>1
<1>7. Lists'
  BY <1>1, <1>2, <1>3, <1>5 DEF Lists
<1>8. \A d \in Clients \ {c} : Same(d)
  BY <1>1, <1>2, <1>3, <1>5 DEF Same
<1>9. gone(c)' <=> gone(c)
  BY <1>2 DEF gone
<1> HIDE DEF gone
<1>10. left[c] = <<>> /\ taken[c] = NoTable /\ taken[c] \notin Tables /\ (gone(c) \/ stage[c] = "Request")
  BY <1>1, <1>3, TransferAssumption DEF Sound, Asking
<1>11. Turns(c)'
  <2>1. Len(toClient'[c]) <= period + 2
    <3>1. Len(toClient'[c]) \in {0, 1}
      <4> HIDE DEF Rep
      <4> QED BY <1>5, <1>6, OneMessage
    <3>2. \A x \in {0, 1}, n \in Nat : x <= n + 2
      OBVIOUS
    <3> QED BY <1>3, <3>1, <3>2
  <2> QED BY <1>1, <1>5, <1>9, <2>1 DEF Turns
<1>12. Asking(c)'
  <2>1. stage[c] # "new"
    <3>1. toService[c] # <<>>
      BY <1>1, OneMessage
    <3> QED BY <1>3, <3>1 DEF Sound, Asking
  <2>2. <<"SnapshotReq">> # <<>>
    BY OneMessage
  <2> QED BY <1>1, <1>2, <1>10, <2>1, <2>2 DEF Asking
<1>a. Paced(c)'
  <2>1. Rep(0) # SyncReq
    BY DEF Rep, SyncReq, Msg
  <2> HIDE DEF Rep, SyncReq
  <2>2. toClient'[c] = <<>> \/ toClient'[c] = <<Rep(0)>>
    BY <1>5, <1>6
  <2>3. Len(toClient'[c]) \in {0, 1} /\ \A i \in 1..Len(toClient'[c]) : toClient'[c][i] = Rep(0)
    BY <2>2, AtMostOne
  <2>4. \A x \in {0, 1} : x <= 1
    OBVIOUS
  <2> QED BY <2>1, <2>3, <2>4 DEF Paced
<1>13. Remains(c)' /\ Endings(c)'
  BY <1>2, <1>3, <1>10 DEF Sound, Remains, Endings
<1>14. Following(c)'
  <2>1. SUFFICES ASSUME ~ gone(c), c \notin broken PROVE Follows(c, 0)'
    BY <1>9 DEF Following
  <2>2. stage[c] = "Request"
    BY <1>10, <2>1
  <2>3. ~ Refused(c)
    BY <1>1, OneMessage DEF Refused
  <2>4. builder[c] = <<>>
    <3>1. PICK p \in Nat : Follows(c, p)
      BY <1>3, <2>1, <2>3 DEF Sound, Following
    <3> QED BY <2>2, <3>1 DEF Follows, Reads
  <2>5. Reads(taken'[c], 0, stage'[c], builder'[c])
    BY <1>2, <2>2, <2>4 DEF Reads
  <2>6. Flight(toClient'[c], taken'[c], left'[c], 0)
    <3>1. Script(NoTable) = <<Rep(0)>>
      BY DEF Script
    <3>2. Rep(0) # SyncReq
      BY DEF Rep, SyncReq, Msg
    <3>3. toClient'[c] = <<Rep(0)>> /\ taken'[c] = NoTable
      BY <1>2, <1>6, <1>10, <2>1
    <3> HIDE DEF Rep, SyncReq
    <3>4. Len(<<Rep(0)>>) = 1 /\ <<Rep(0)>>[1] = Rep(0)
      BY OneMessage
    <3> DEFINE m == <<Rep(0)>>
    <3> HIDE DEF m
    <3>5. Flight(m, NoTable, left'[c], 0)
      <4>1. Len(m) = 1 /\ m[1] # SyncReq /\ Script(NoTable) = m
        BY <3>1, <3>2, <3>4 DEF m
      <4>2. ASSUME NEW i \in 1..Len(m)
            PROVE  0 + i <= Len(Script(NoTable)) /\ m[i] = Script(NoTable)[0 + i] /\ m[i] # SyncReq
        <5>1. i = 1
          BY <4>1
        <5> QED BY <4>1, <5>1
      <4> QED BY <4>2 DEF Flight
    <3> QED BY <3>3, <3>5 DEF m
  <2>7. 0 + Len(toClient'[c]) = 1
    <3> HIDE DEF Rep
    <3>1. Len(toClient'[c]) = 1
      BY <1>6, <2>1, OneMessage
    <3> QED BY <3>1
  <2>8. toService'[c] # <<"SyncSignalRep">>
    BY <1>1, OneMessage
  <2> QED BY <1>2, <2>5, <2>6, <2>7, <2>8 DEF Follows, Flight
<1>15. Lively(c)'
  <2>1. Quiet' => cause'[c] # "timeout"
    BY <1>2, <1>3 DEF Sound, Lively
  <2> QED BY <1>2, <2>1 DEF Lively, Live
<1>16. Sound(c)'
  BY <1>a, <1>11, <1>12, <1>13, <1>14, <1>15 DEF Sound
<1> QED BY <1>7, <1>8, <1>16, OthersSound

(* A refusal, or an answer that is lost.                                   *)
LEMMA RefuseSound ==
  ASSUME FlowInv, period' = period, broken' = broken, Quiet' => Quiet, NEW c \in Clients, refuse(c)
  PROVE  Lists' /\ \A d \in Clients : Sound(d)'
<1>1. /\ svc = "loop" /\ svc # c /\ toService[c] = <<"SnapshotReq">> /\ toClient[c] = <<>>
      /\ toService' = [d \in Clients |-> toService'[d]]
      /\ toService'[c] = <<>> /\ \A d \in Clients \ {c} : toService'[d] = toService[d]
  BY ReceivedFacts DEF refuse
<1>2. UNCHANGED <<svc, feature, package, left, stage, builder, cause, taken, actor>>
  BY DEF refuse, client, service
<1>3. Lists /\ Sound(c) /\ period \in Nat /\ faults \in Nat
  BY TransferAssumption DEF FlowInv, TransferInv, Threads
<1>4. <<Rep(-1)>> \in Seq(Msgs) /\ <<Rep(-1)>> # <<>>
  <2>1. Rep(-1) \in Data
    BY DEF Rep, Msg, Data
  <2>2. Rep(-1) \in Msgs
    BY <2>1 DEF Msgs
  <2> HIDE DEF Rep
  <2> QED BY <2>2
<1>5. /\ toClient' \in [Clients -> Seq(Msgs)]
      /\ \A d \in Clients \ {c} : toClient'[d] = toClient[d]
      /\ gone(c) => toClient'[c] = <<>>
      /\ ~ gone(c) => \/ toClient'[c] = <<Rep(-1)>>
                      \/ toClient'[c] = <<>> /\ faults' # 0
  <2>1. CASE Send(c, <<Rep(-1)>>)
    <3>1. /\ toClient' \in [Clients -> Seq(Msgs)]
          /\ \A d \in Clients \ {c} : toClient'[d] = toClient[d]
          /\ gone(c) => toClient'[c] = <<>>
          /\ ~ gone(c) => toClient'[c] = toClient[c] \o <<Rep(-1)>>
      BY <1>3, <1>4, <2>1, SendUpdates
    <3>2. \A u \in Seq(Msgs) : <<>> \o u = u
      OBVIOUS
    <3> HIDE DEF gone, Rep
    <3> QED BY <1>1, <1>4, <3>1, <3>2
  <2>2. CASE UNCHANGED toClient /\ Fault(gone(c))
    <3>1. ~ gone(c) => faults' = faults + 1
      BY <2>2 DEF Fault
    <3> HIDE DEF gone
    <3>2. ~ gone(c) => faults' # 0
      BY <1>3, <3>1
    <3> QED BY <1>1, <1>3, <2>2, <3>2 DEF Lists
  <2> QED BY <2>1, <2>2 DEF refuse
<1>7. Lists'
  BY <1>1, <1>2, <1>3, <1>5 DEF Lists
<1>8. \A d \in Clients \ {c} : Same(d)
  BY <1>1, <1>2, <1>3, <1>5 DEF Same
<1>9. gone(c)' <=> gone(c)
  BY <1>2 DEF gone
<1> HIDE DEF gone, Rep
<1>10. left[c] = <<>> /\ taken[c] = NoTable /\ taken[c] \notin Tables /\ (gone(c) \/ stage[c] = "Request")
  BY <1>1, <1>3, TransferAssumption DEF Sound, Asking
<1>11. Turns(c)'
  <2>1. Len(toClient'[c]) <= period + 2
    <3>1. Len(toClient'[c]) \in {0, 1}
      BY <1>5, OneMessage
    <3>2. \A x \in {0, 1}, n \in Nat : x <= n + 2
      OBVIOUS
    <3> QED BY <1>3, <3>1, <3>2
  <2> QED BY <1>1, <1>5, <1>9, <2>1 DEF Turns
<1>12. Asking(c)'
  <2>1. stage[c] # "new"
    <3>1. toService[c] # <<>>
      BY <1>1, OneMessage
    <3> QED BY <1>3, <3>1 DEF Sound, Asking
  <2>2. <<"SnapshotReq">> # <<>>
    BY OneMessage
  <2> QED BY <1>1, <1>2, <1>10, <2>1, <2>2 DEF Asking
<1>a. Paced(c)'
  <2>1. Rep(-1) # SyncReq
    BY DEF Rep, SyncReq, Msg
  <2> HIDE DEF SyncReq
  <2>2. toClient'[c] = <<>> \/ toClient'[c] = <<Rep(-1)>>
    BY <1>5
  <2>3. Len(toClient'[c]) \in {0, 1} /\ \A i \in 1..Len(toClient'[c]) : toClient'[c][i] = Rep(-1)
    BY <2>2, AtMostOne
  <2> QED BY <1>1, <1>2, <2>1, <2>3 DEF Paced
<1>13. Remains(c)' /\ Endings(c)'
  BY <1>2, <1>3, <1>10 DEF Sound, Remains, Endings
<1>14. Following(c)'
  <2>1. SUFFICES ASSUME ~ gone(c), c \notin broken PROVE Refused(c)' \/ \E p \in Nat : Follows(c, p)'
    BY <1>9 DEF Following
  <2>2. CASE toClient'[c] = <<Rep(-1)>>
    <3>1. ~ Refused(c) /\ stage[c] = "Request"
      BY <1>1, <1>10, <2>1, OneMessage DEF Refused
    <3>2. PICK p \in Nat : Follows(c, p)
      BY <1>3, <2>1, <3>1 DEF Sound, Following
    <3>3. builder[c] = <<>>
      BY <3>1, <3>2 DEF Follows, Reads
    <3> QED BY <1>1, <1>2, <1>10, <2>2, <3>1, <3>3 DEF Refused
  <2>3. CASE toClient'[c] = <<>>
    <3>1. ~ Refused(c)
      BY <1>1, OneMessage DEF Refused
    <3>2. PICK p \in Nat : Follows(c, p)
      BY <1>3, <2>1, <3>1 DEF Sound, Following
    <3>3. Flight(toClient'[c], taken'[c], left'[c], p)
      BY <2>3, FlightNothing
    <3>4. toService'[c] # <<"SyncSignalRep">>
      BY <1>1, OneMessage
    <3>5. Follows(c, p)'
      BY <1>1, <1>2, <3>2, <3>3, <3>4 DEF Follows, Flight
    <3> QED BY <3>5
  <2> QED BY <1>5, <2>1, <2>2, <2>3
<1>15. Lively(c)'
  <2>1. Quiet' => cause'[c] # "timeout" /\ faults' = 0
    BY <1>2, <1>3 DEF Sound, Lively, Quiet
  <2> QED BY <1>5, <1>9, <2>1 DEF Lively, Live
<1>16. Sound(c)'
  BY <1>a, <1>11, <1>12, <1>13, <1>14, <1>15 DEF Sound
<1> QED BY <1>7, <1>8, <1>16, OthersSound

(* The first period: behind the answer to the request.                     *)
LEMMA BuiltSound ==
  ASSUME FlowInv, period' = period, broken' = broken, Quiet' => Quiet, NEW c \in Clients, onBuilt(c)
  PROVE  Lists' /\ \A d \in Clients : Sound(d)'
<1>1. /\ svc = c /\ feature = "answered" /\ svc' = "loop" /\ sendItems(c, package)
      /\ UNCHANGED <<stage, builder, cause, toService, taken, actor>>
  BY DEF onBuilt, client
<1>2. Lists /\ Sound(c) /\ "loop" \notin Clients
  BY TransferAssumption DEF FlowInv
<1>3. /\ toService[c] = <<>> /\ left[c] = <<>> /\ stage[c] # "new"
      /\ taken[c] \in Tables /\ package = buildSnapshot(taken[c])
  BY <1>1, <1>2 DEF Sound, Asking
<1>4. /\ package \in Seq(Data) /\ Len(Script(taken[c])) = Len(package) + 1
      /\ Len(Script(taken[c])) >= 3
      /\ \A i \in 1..Len(package) : Script(taken[c])[i + 1] = package[i]
  BY <1>3, ScriptLayout
<1>5. package # <<>> /\ Len(package) + 1 = Len(Script(taken[c]))
      /\ \A i \in 1..Len(package) : package[i] = Script(taken[c])[1 + i]
  <2>1. Len(package) # 0
    BY <1>4
  <2>2. package # <<>>
    BY <2>1, OneMessage
  <2>3. Len(package) \in Nat /\ \A i \in 1..Len(package) : i + 1 = 1 + i
    BY <1>4
  <2> QED BY <1>4, <2>2, <2>3
<1>6. /\ c \notin broken /\ ~ gone(c) => \E p \in Nat : Follows(c, p) /\ p + Len(toClient[c]) = 1
      /\ Len(toClient[c]) <= 1 /\ \A i \in 1..Len(toClient[c]) : toClient[c][i] # SyncReq
  <2>1. ASSUME c \notin broken, ~ gone(c)
        PROVE  \E p \in Nat : Follows(c, p) /\ p + Len(toClient[c]) = 1
    <3>1. ~ Refused(c)
      BY <1>1 DEF Refused
    <3>2. PICK p \in Nat : Follows(c, p)
      BY <1>2, <2>1, <3>1 DEF Sound, Following
    <3> QED BY <1>1, <3>2 DEF Follows
  <2>2. Paced(c)
    BY <1>2 DEF Sound
  <2> QED BY <1>1, <2>1, <2>2 DEF Paced
<1>7. svc' # c /\ toService'[c] = <<>> /\ 1 \in Nat /\ 1 >= 1
  BY <1>1, <1>2, <1>3
<1>8. /\ left' \in [Clients -> Seq(Data)] /\ toClient' \in [Clients -> Seq(Msgs)]
      /\ \A d \in Clients \ {c} : left'[d] = left[d] /\ toClient'[d] = toClient[d]
      /\ Sound(c)'
  <2>1. PICK s \in Seq(Data) : s = package
    BY <1>4
  <2>2. /\ s # <<>> /\ sendItems(c, s) /\ Len(s) + 1 = Len(Script(taken[c]))
        /\ \A i \in 1..Len(s) : s[i] = Script(taken[c])[1 + i]
    BY <1>1, <1>5, <2>1
  <2>3. PICK q \in Nat : q = 1
    OBVIOUS
  <2>4. /\ q >= 1 /\ Len(s) + q = Len(Script(taken[c]))
        /\ \A i \in 1..Len(s) : s[i] = Script(taken[c])[q + i]
    BY <2>2, <2>3
  <2>5. /\ c \notin broken /\ ~ gone(c) =>
             \E p \in Nat : Follows(c, p) /\ p + Len(toClient[c]) = q
        /\ ~ gone(c) => /\ Len(toClient[c]) <= 1
                     /\ \A i \in 1..Len(toClient[c]) : toClient[c][i] # SyncReq
    BY <1>6, <2>3
  <2>6. /\ stage'[c] = stage[c] /\ builder'[c] = builder[c] /\ cause'[c] = cause[c]
        /\ taken'[c] = taken[c]
    BY <1>1
  <2> HIDE DEF gone
  <2> QED BY <1>3, <1>7, <2>2, <2>4, <2>5, <2>6, SendSound
<1>9. Lists'
  BY <1>1, <1>2, <1>8 DEF Lists
<1>10. \A d \in Clients \ {c} : Same(d)
  BY <1>1, <1>2, <1>8 DEF Same
<1> QED BY <1>8, <1>9, <1>10, OthersSound

(* A later period: the worker has the rest of what the client waits for.   *)
LEMMA SignalSound ==
  ASSUME FlowInv, period' = period, broken' = broken, Quiet' => Quiet, NEW c \in Clients, onSyncSignal(c)
  PROVE  Lists' /\ \A d \in Clients : Sound(d)'
<1>1. /\ svc = "loop" /\ svc # c /\ toService[c] = <<"SyncSignalRep">> /\ toClient[c] = <<>>
      /\ toService' = [d \in Clients |-> toService'[d]]
      /\ toService'[c] = <<>> /\ \A d \in Clients \ {c} : toService'[d] = toService[d]
  BY ReceivedFacts DEF onSyncSignal
<1>2. UNCHANGED <<svc, feature, package, stage, builder, cause, taken, actor>>
  BY DEF onSyncSignal, client
<1>3. Lists /\ Sound(c) /\ period \in Nat
  BY TransferAssumption DEF FlowInv, TransferInv, Threads
<1>4. left[c] \in Seq(Data) /\ toClient[c] \in Seq(Msgs)
  BY <1>3 DEF Lists
<1>5. CASE left[c] # <<>>
  <2>1. sendItems(c, left[c])
    BY <1>5 DEF onSyncSignal, workers
  <2>2. taken[c] \in Tables /\ Remainder(left[c], taken[c])
    BY <1>3, <1>5 DEF Sound, Remains
  <2>3. PICK s \in Seq(Data) : s = left[c]
    BY <1>4
  <2>4. Len(s) \in Nat /\ Len(Script(taken[c])) \in Nat
    <3>1. Len(Script(taken[c])) \in Nat
      BY <2>2, ScriptLayout
    <3> QED BY <3>1, ListSet
  <2>5. Len(s) + period + 1 <= Len(Script(taken[c]))
        /\ \A i \in 1..Len(s) : s[i] = Script(taken[c])[Len(Script(taken[c])) - Len(s) + i]
    BY <2>2, <2>3 DEF Remainder
  <2>6. PICK q \in Nat : q = Len(Script(taken[c])) - Len(s)
    <3>1. \A x, y, z \in Nat : x + y + 1 <= z => z - x \in Nat
      OBVIOUS
    <3>2. Len(Script(taken[c])) - Len(s) \in Nat
      BY <1>3, <2>4, <2>5, <3>1
    <3> QED BY <3>2
  <2>7. q >= 1 /\ Len(s) + q = Len(Script(taken[c]))
    BY <1>3, <2>4, <2>5, <2>6
  <2>8. \A i \in 1..Len(s) : s[i] = Script(taken[c])[q + i]
    BY <2>5, <2>6
  <2>9. ASSUME c \notin broken, ~ gone(c)
        PROVE  \E p \in Nat : Follows(c, p) /\ p + Len(toClient[c]) = q
    <3>1. ~ Refused(c)
      BY <1>5 DEF Refused
    <3>2. PICK p \in Nat : Follows(c, p)
      BY <1>3, <2>9, <3>1 DEF Sound, Following
    <3>3. Len(left[c]) = Len(Script(taken[c])) - p
      BY <1>1, <1>5, <3>2 DEF Follows
    <3>4. p = q
      BY <2>3, <2>4, <2>6, <3>3
    <3>5. Len(toClient[c]) = 0
      BY <1>1, OneMessage
    <3>6. p + Len(toClient[c]) = q
      BY <3>4, <3>5
    <3> QED BY <3>2, <3>6
  <2>a. Len(toClient[c]) <= 1 /\ \A i \in 1..Len(toClient[c]) : toClient[c][i] # SyncReq
    <3>1. Len(toClient[c]) = 0
      BY <1>1, OneMessage
    <3>2. Len(toClient[c]) <= 1 /\ 1..Len(toClient[c]) = {}
      BY <3>1
    <3> QED BY <3>2
  <2>10. stage[c] # "new"
    BY <1>3, <1>5 DEF Sound, Asking
  <2>11. /\ left' \in [Clients -> Seq(Data)] /\ toClient' \in [Clients -> Seq(Msgs)]
         /\ \A d \in Clients \ {c} : left'[d] = left[d] /\ toClient'[d] = toClient[d]
         /\ Sound(c)'
    <3>1. s # <<>> /\ sendItems(c, s)
      BY <1>5, <2>1, <2>3
    <3>2. /\ stage'[c] = stage[c] /\ builder'[c] = builder[c] /\ cause'[c] = cause[c]
          /\ taken'[c] = taken[c] /\ svc' # c
      BY <1>1, <1>2
    <3> HIDE DEF gone
    <3> QED BY <1>1, <2>2, <2>7, <2>8, <2>9, <2>a, <2>10, <3>1, <3>2, SendSound
  <2>12. Lists'
    BY <1>1, <1>2, <1>3, <2>11 DEF Lists
  <2>13. \A d \in Clients \ {c} : Same(d)
    BY <1>1, <1>2, <2>11 DEF Same
  <2> QED BY <2>11, <2>12, <2>13, OthersSound
<1>6. CASE left[c] = <<>>
  <2>1. UNCHANGED <<toClient, left, faults>>
    BY <1>6 DEF onSyncSignal, workers
  <2>2. Lists'
    BY <1>1, <1>2, <1>3, <2>1 DEF Lists
  <2>3. \A d \in Clients \ {c} : Same(d)
    BY <1>1, <1>2, <2>1 DEF Same
  <2>4. Lively(c)'
    <3>1. <<"SyncSignalRep">> # <<"SnapshotReq">> /\ <<Rep(-1)>> # <<>>
      BY OneMessage
    <3>2. ~ Live(c)
      <4> HIDE DEF Rep
      <4> QED BY <1>1, <1>6, <3>1 DEF Live
    <3>3. Quiet => cause[c] # "timeout" /\ gone(c)
      BY <1>3, <3>2 DEF Sound, Lively
    <3>4. gone(c)' <=> gone(c)
      BY <1>2 DEF gone
    <3> HIDE DEF gone
    <3> QED BY <1>2, <3>3, <3>4 DEF Lively
  <2>5. Sound(c)'
    BY <1>1, <1>2, <1>3, <1>4, <1>6, <2>1, <2>4, DroppedSound
  <2> QED BY <2>2, <2>3, <2>5, OthersSound
<1> QED BY <1>5, <1>6

LEMMA TakeFacts ==
  ASSUME FlowInv, NEW c \in Clients, NEW next, NEW why, Take(c, next, why), toClient[c] # <<>>
  PROVE  /\ stage'[c] = next
         /\ cause'[c] = IF why = "" THEN cause[c] ELSE why
         /\ toClient'[c] = IF next \in {"finished", "gaveUp"} THEN <<>> ELSE Tail(toClient[c])
         /\ toClient' \in [Clients -> Seq(Msgs)]
         /\ \A d \in Clients \ {c} :
              stage'[d] = stage[d] /\ cause'[d] = cause[d] /\ toClient'[d] = toClient[d]
         /\ UNCHANGED <<table, actor, period, feature, package, svc, left, taken, broken, faults>>
<1>1. stage'[c] = next /\ \A d \in Clients \ {c} : stage'[d] = stage[d]
  BY Updated DEF Take, FlowInv, TransferInv, Shapes
<1>2. /\ cause'[c] = IF why = "" THEN cause[c] ELSE why
      /\ \A d \in Clients \ {c} : cause'[d] = cause[d]
  BY Updated DEF Take, FlowInv, TransferInv, Shapes
<1> DEFINE l == IF next \in {"finished", "gaveUp"} THEN <<>> ELSE Tail(toClient[c])
<1>3. toClient \in [Clients -> Seq(Msgs)] /\ toClient[c] \in Seq(Msgs)
  BY DEF FlowInv, Lists
<1>4. l \in Seq(Msgs)
  <2>1. <<>> \in Seq(Msgs)
    OBVIOUS
  <2>2. Tail(toClient[c]) \in Seq(Msgs)
    BY <1>3, TailList
  <2> QED BY <2>1, <2>2
<1>5. toClient' = [toClient EXCEPT ![c] = l]
  BY DEF Take
<1> HIDE DEF l
<1>6. /\ toClient' \in [Clients -> Seq(Msgs)] /\ toClient'[c] = l
      /\ \A d \in Clients \ {c} : toClient'[d] = toClient[d]
  BY <1>3, <1>4, <1>5, ListUpdated
<1>7. UNCHANGED <<table, actor, period, feature, package, svc, left, taken, broken, faults>>
  BY DEF Take, service
<1> QED BY <1>1, <1>2, <1>6, <1>7 DEF l

(* A client that has a message to read follows the script, unless its      *)
(* connection broke.                                                       *)
LEMMA ReadingFollows ==
  ASSUME FlowInv, NEW c \in Clients \ broken, stage[c] \in Pulling, toClient[c] # <<>>
  PROVE  /\ Sound(c) /\ toClient[c] \in Seq(Msgs) /\ toService[c] = <<>>
         /\ Refused(c) \/ \E p \in Nat : Follows(c, p)
<1>1. Sound(c) /\ toClient[c] \in Seq(Msgs)
  BY DEF FlowInv, Lists
<1>2. ~ gone(c)
  BY DEF gone
<1>3. Refused(c) \/ \E p \in Nat : Follows(c, p)
  BY <1>1, <1>2 DEF Sound, Following
<1>4. toService[c] = <<>>
  BY <1>1 DEF Sound, Turns
<1> QED BY <1>1, <1>3, <1>4

(* Of a client whose connection broke nothing is asked but that it takes   *)
(* its turns.                                                              *)
LEMMA BrokenTakeSound ==
  ASSUME FlowInv, NEW c \in broken, NEW next \in Pulling \cup {"finished", "gaveUp"}, NEW why,
         Take(c, next, why), stage[c] \in Pulling, toClient[c] # <<>>, Quiet' => Quiet,
         \/ toService'[c] = toService[c]
         \/ /\ Head(toClient[c]) = SyncReq /\ next = stage[c]
            /\ toService'[c] = Append(toService[c], "SyncSignalRep")
  PROVE  Sound(c)'
<1>1. c \in Clients /\ period \in Nat /\ ~ Quiet
  BY TransferAssumption DEF FlowInv, TransferInv, Threads, Quiet
<1>2. Sound(c) /\ toClient[c] \in Seq(Msgs)
  BY <1>1 DEF FlowInv, Lists
<1>3. ~ gone(c)
  BY DEF gone
<1>4. toService[c] = <<>>
  BY <1>2 DEF Sound, Turns
<1> DEFINE l == toClient[c]
           m == toClient'[c]
<1>5. /\ stage'[c] = next /\ m = IF next \in {"finished", "gaveUp"} THEN <<>> ELSE Tail(l)
      /\ UNCHANGED <<period, feature, package, svc, left, taken, broken>>
  BY <1>1, TakeFacts
<1>6. Len(l) \in Nat /\ Len(l) >= 1 /\ Head(l) = l[1]
  <2>1. Len(l) \in Nat
    BY <1>2, ListSet
  <2> QED BY <1>2, <2>1, TailList
<1>7. /\ Len(m) \in Nat /\ Len(m) < Len(l) /\ m # <<>> => next \in Pulling
      /\ \A i \in 1..Len(m) : i + 1 \in 1..Len(l) /\ m[i] = l[i + 1] /\ Len(m) + 1 = Len(l)
  <2>1. CASE next \in {"finished", "gaveUp"}
    <3>1. m = <<>> /\ Len(m) = 0
      BY <1>5, <2>1
    <3> HIDE DEF m, l
    <3> QED BY <1>6, <3>1
  <2>2. CASE next \in Pulling
    <3>1. m = Tail(l)
      BY <1>5, <2>2 DEF Pulling
    <3>2. Len(Tail(l)) = Len(l) - 1 /\ \A i \in 1..Len(Tail(l)) : Tail(l)[i] = l[i + 1]
      BY <1>2, TailList
    <3> HIDE DEF m, l
    <3> QED BY <1>6, <2>2, <3>1, <3>2
  <2> QED BY <2>1, <2>2
<1>8. Head(l) = SyncReq => Len(l) = 1 /\ svc # c
  <2>1. 1 \in 1..Len(l)
    BY <1>6
  <2>2. l[1] = SyncReq => 1 = Len(l) /\ svc # c
    BY <1>2, <2>1 DEF Sound, Paced
  <2> QED BY <1>6, <2>2
<1>9. gone(c)' <=> next \notin Pulling
  BY <1>5 DEF gone
<1>10. next # "new"
  BY DEF Pulling
<1>11. toService'[c] = <<>> \/ (toService'[c] = <<"SyncSignalRep">> /\ Len(l) = 1 /\ svc # c)
  <2>1. Append(<<>>, "SyncSignalRep") = <<"SyncSignalRep">>
    OBVIOUS
  <2> QED BY <1>4, <1>8, <2>1
<1>12. Len(l) = 1 => m = <<>>
  <2>1. CASE next \in {"finished", "gaveUp"}
    BY <1>5, <2>1
  <2>2. CASE next \in Pulling
    <3>1. m = Tail(l)
      BY <1>5, <2>2 DEF Pulling
    <3>2. Tail(l) \in Seq(Msgs) /\ Len(Tail(l)) = Len(l) - 1
      BY <1>2, TailList
    <3>3. \A x \in Seq(Msgs) : Len(x) = 0 => x = <<>>
      OBVIOUS
    <3>4. Len(l) = 1 => Len(Tail(l)) = 0
      BY <3>2
    <3> HIDE DEF l, m
    <3> QED BY <3>1, <3>2, <3>3, <3>4
  <2> QED BY <2>1, <2>2
<1> HIDE DEF gone, Sound, SyncReq
<1>13. Turns(c)'
  <2>1. Len(l) <= period + 2
    BY <1>2 DEF Sound, Turns
  <2>2. Len(m) <= period' + 2
    <3>1. period' = period
      BY <1>5
    <3>2. Len(m) < Len(l) /\ Len(m) \in Nat /\ Len(l) \in Nat
      BY <1>6, <1>7
    <3>3. \A x, y, z \in Nat : x < y /\ y <= z + 2 => x <= z + 2
      OBVIOUS
    <3>4. Len(m) <= period + 2
      <4> HIDE DEF l, m
      <4> QED BY <1>1, <2>1, <3>2, <3>3
    <3> HIDE DEF l, m
    <3> QED BY <3>1, <3>4
  <2>3. toClient'[c] # <<>> => toService'[c] = <<>> /\ ~ gone(c)'
    BY <1>7, <1>9, <1>11, <1>12
  <2> QED BY <1>11, <2>2, <2>3 DEF Turns
<1>14. Paced(c)'
  <2>1. ASSUME NEW i \in 1..Len(m), m[i] = SyncReq PROVE i = Len(m) /\ svc # c
    <3>1. i + 1 \in 1..Len(l) /\ l[i + 1] = SyncReq /\ Len(m) + 1 = Len(l)
      BY <1>7, <2>1
    <3>2. i + 1 = Len(l) /\ svc # c
      BY <1>2, <3>1 DEF Sound, Paced
    <3> HIDE DEF l, m
    <3> QED BY <1>7, <3>1, <3>2
  <2>2. svc = c => Len(m) <= 1
    <3>1. svc = c => Len(l) <= 1
      BY <1>2 DEF Sound, Paced
    <3>2. Len(m) < Len(l) /\ Len(m) \in Nat /\ Len(l) \in Nat
      BY <1>6, <1>7
    <3> HIDE DEF l, m
    <3> QED BY <3>1, <3>2
  <2>3. svc' = svc
    BY <1>5
  <2> QED BY <2>1, <2>2, <2>3 DEF Paced, SyncReq
<1>15. Asking(c)'
  <2>1. <<"SnapshotReq">> # <<>> /\ <<"SnapshotReq">> # <<"SyncSignalRep">>
    BY OneMessage
  <2> QED BY <1>2, <1>5, <1>10, <1>11, <2>1 DEF Sound, Asking
<1>16. Remains(c)' /\ Endings(c)' /\ Following(c)' /\ Lively(c)'
  <2>1. Remains(c)'
    BY <1>2, <1>5 DEF Sound, Remains, Remainder
  <2>2. Endings(c)' /\ Following(c)'
    BY <1>5 DEF Endings, Following
  <2>3. Lively(c)'
    BY <1>1 DEF Lively
  <2> QED BY <2>1, <2>2, <2>3
<1> QED BY <1>13, <1>14, <1>15, <1>16 DEF Sound

LastOnes == {SyncReq, Msg("SnapshotEnd", ""), Rep(-1)}

(* It reads a message of the script and goes on.                           *)
LEMMA ReadOn ==
  ASSUME FlowInv, period' = period, broken' = broken, Quiet' => Quiet,
         NEW c \in Clients \ broken, stage[c] \in Pulling, stage'[c] \in Pulling,
         toClient[c] # <<>>, toClient'[c] = Tail(toClient[c]),
         Head(toClient[c]) \notin LastOnes,
         toService'[c] = toService[c], cause'[c] = cause[c],
         UNCHANGED <<feature, package, svc, left, taken>>,
         NEW p \in Nat, Follows(c, p), Reads(taken[c], p + 1, stage'[c], builder'[c])
  PROVE  Sound(c)'
<1>1. Sound(c) /\ toClient[c] \in Seq(Msgs) /\ toService[c] = <<>>
  BY ReadingFollows
<1>2. ~ gone(c) /\ ~ gone(c)'
  BY DEF gone
<1> DEFINE l == toClient[c]
           m == toClient'[c]
<1>3. /\ l \in Seq(Msgs) /\ Len(l) \in Nat /\ Len(l) >= 1 /\ Len(m) = Len(l) - 1 /\ Head(l) = l[1]
      /\ \A i \in 1..Len(m) : m[i] = l[i + 1]
  <2>1. l \in Seq(Msgs) /\ l # <<>> /\ m = Tail(l)
    BY <1>1
  <2>2. Len(l) \in Nat
    BY <1>1, ListSet
  <2> HIDE DEF l, m
  <2>3. Len(l) >= 1 /\ Len(m) = Len(l) - 1 /\ Head(l) = l[1] /\ \A i \in 1..Len(m) : m[i] = l[i + 1]
    BY <2>1, TailList
  <2> QED BY <2>1, <2>2, <2>3
<1>4. Len(m) \in Nat
  BY <1>3
<1> HIDE DEF gone, Sound
<1>5. Turns(c)'
  <2>1. Len(l) <= period + 2 /\ period \in Nat
    BY <1>1, TransferAssumption DEF Sound, Turns, FlowInv, TransferInv, Threads
  <2>2. Len(m) <= period + 2
    <3> HIDE DEF l, m
    <3> QED BY <1>3, <1>4, <2>1
  <2> QED BY <1>1, <1>2, <2>2 DEF Turns
<1>a. Paced(c)'
  <2>1. ASSUME NEW i \in 1..Len(m), m[i] = SyncReq PROVE i = Len(m) /\ svc # c
    <3>1. i + 1 \in 1..Len(l) /\ m[i] = l[i + 1]
      <4> HIDE DEF l, m
      <4> QED BY <1>3, <1>4
    <3>2. i + 1 = Len(l) /\ svc # c
      BY <1>1, <2>1, <3>1 DEF Sound, Paced
    <3> HIDE DEF l, m
    <3> QED BY <1>3, <1>4, <3>2
  <2>2. svc = c => Len(m) <= 1
    <3>1. svc = c => Len(l) <= 1
      BY <1>1 DEF Sound, Paced
    <3> HIDE DEF l, m
    <3> QED BY <1>3, <1>4, <3>1
  <2> QED BY <2>1, <2>2 DEF Paced, SyncReq
<1>6. stage'[c] # "new" /\ stage[c] # "new" /\ stage'[c] \notin {"finished", "done"}
  BY DEF Pulling
<1>7. Asking(c)'
  <2>1. <<"SnapshotReq">> # <<>>
    BY OneMessage
  <2> QED BY <1>1, <1>6, <2>1 DEF Sound, Asking
<1>8. Remains(c)' /\ Endings(c)'
  BY <1>1, <1>6 DEF Sound, Remains, Remainder, Endings
<1>9. Follows(c, p + 1)'
  <2>1. Flight(m, taken'[c], left'[c], p + 1)
    <3>1. Flight(m, taken[c], left[c], p + 1)
      BY <1>1, FlightTail DEF Follows
    <3> QED BY <3>1
  <2>2. svc' = c => (p + 1) + Len(m) = 1
    <3>1. svc = c => p + Len(l) = 1
      BY DEF Follows
    <3> HIDE DEF l, m
    <3> QED BY <1>3, <1>4, <3>1
  <2>3. <<"SyncSignalRep">> # <<>>
    BY OneMessage
  <2> QED BY <1>1, <2>1, <2>2, <2>3 DEF Follows, Flight
<1>10. Following(c)'
  <2>1. p + 1 \in Nat
    OBVIOUS
  <2> QED BY <1>9, <2>1 DEF Following
<1>11. Lively(c)'
  <2>1. SUFFICES ASSUME Quiet' PROVE Live(c)' /\ cause'[c] # "timeout"
    BY DEF Lively
  <2>2. Live(c) /\ cause'[c] # "timeout"
    BY <1>1, <1>2, <2>1 DEF Sound, Lively
  <2>3. l # <<Rep(-1)>> /\ <<"SyncSignalRep">> # <<>> /\ <<"SnapshotReq">> # <<>>
    <3>1. Head(l) # Rep(-1)
      BY DEF LastOnes
    <3> HIDE DEF Rep
    <3> QED BY <3>1, OneMessage
  <2>4. ASSUME l[Len(l)] \in {SyncReq, Msg("SnapshotEnd", "")}
        PROVE  m # <<>> /\ m[Len(m)] = l[Len(l)]
    <3>1. l[1] # l[Len(l)]
      BY <1>3, <2>4 DEF LastOnes
    <3>2. Len(l) # 1
      BY <3>1
    <3> HIDE DEF l, m
    <3>3. Len(m) \in 1..Len(m) /\ Len(m) + 1 = Len(l) /\ Len(m) # 0
      BY <1>3, <1>4, <3>2
    <3>4. m # <<>>
      BY <3>3, OneMessage
    <3> QED BY <1>3, <3>3, <3>4
  <2> HIDE DEF Rep, SyncReq, Msg
  <2>5. \/ svc = c
        \/ l[Len(l)] = SyncReq /\ left[c] # <<>>
        \/ l[Len(l)] = Msg("SnapshotEnd", "")
    BY <1>1, <2>2, <2>3 DEF Live
  <2>6. CASE svc = c
    BY <2>2, <2>6 DEF Live
  <2>7. CASE l[Len(l)] = SyncReq /\ left[c] # <<>>
    BY <2>2, <2>4, <2>7 DEF Live
  <2>8. CASE l[Len(l)] = Msg("SnapshotEnd", "")
    BY <2>2, <2>4, <2>8 DEF Live
  <2> QED BY <2>5, <2>6, <2>7, <2>8
<1> QED BY <1>5, <1>a, <1>7, <1>8, <1>10, <1>11 DEF Sound

(* A client that is done with its worker, for whatever reason.             *)
LEMMA LeaveSound ==
  ASSUME FlowInv, period' = period, broken' = broken, NEW c \in Clients, stage[c] # "new",
         stage'[c] \in {"finished", "gaveUp", "stopped", "done", "failed"},
         toClient'[c] = <<>>, toService'[c] = toService[c],
         UNCHANGED <<feature, package, svc, left, taken>>,
         c \notin broken =>
           /\ stage'[c] \in {"finished", "done"} => taken[c] \in Tables /\ builder'[c] = taken[c]
           /\ cause'[c] = "unexpected" => (taken[c] = <<>> /\ taken[c] \in Tables) \/ period < 2,
         Quiet' => cause'[c] # "timeout"
  PROVE  Sound(c)'
<1>1. Sound(c)
  BY DEF FlowInv
<1>2. gone(c)'
  BY DEF gone, Pulling
<1> HIDE DEF gone, Sound
<1>3. Turns(c)'
  <2>1. Len(<<>>) = 0 /\ period \in Nat
    BY TransferAssumption DEF FlowInv, TransferInv, Threads
  <2>2. Len(toClient'[c]) <= period + 2
    BY <2>1
  <2> QED BY <1>1, <2>2 DEF Sound, Turns
<1>a. Paced(c)'
  <2>1. Len(<<>>) = 0 /\ 1..0 = {}
    OBVIOUS
  <2> QED BY <2>1 DEF Paced
<1>4. Asking(c)'
  BY <1>1, <1>2 DEF Sound, Asking
<1>5. Remains(c)' /\ Endings(c)'
  BY <1>1 DEF Sound, Remains, Remainder, Endings
<1>6. Following(c)' /\ Lively(c)'
  BY <1>2 DEF Following, Lively
<1> QED BY <1>3, <1>a, <1>4, <1>5, <1>6 DEF Sound

(* A client answers the signal behind a period; the rest follows.          *)
LEMMA AnswerSound ==
  ASSUME FlowInv, period' = period, broken' = broken, Quiet' => Quiet,
         NEW c \in Clients \ broken, stage[c] \in Pulling, toClient[c] # <<>>, answerSync(c)
  PROVE  Lists' /\ \A d \in Clients : Sound(d)'
<1>1. Sound(c) /\ toClient[c] \in Seq(Msgs) /\ toService[c] = <<>>
      /\ (Refused(c) \/ \E p \in Nat : Follows(c, p))
  BY ReadingFollows
<1>2. Head(toClient[c]) = SyncReq /\ Take(c, stage[c], "") /\ UNCHANGED builder
      /\ toService' = [toService EXCEPT ![c] = Append(@, "SyncSignalRep")]
  BY DEF answerSync
<1>3. stage[c] \notin {"finished", "gaveUp", "new", "done"}
  BY DEF Pulling
<1>4. /\ stage'[c] = stage[c] /\ cause'[c] = cause[c] /\ toClient'[c] = Tail(toClient[c])
      /\ toClient' \in [Clients -> Seq(Msgs)]
      /\ \A d \in Clients \ {c} :
           stage'[d] = stage[d] /\ cause'[d] = cause[d] /\ toClient'[d] = toClient[d]
      /\ UNCHANGED <<table, actor, period, feature, package, svc, left, taken, broken, faults>>
  BY <1>2, <1>3, TakeFacts
<1>5. /\ toService' = [d \in Clients |-> toService'[d]]
      /\ toService'[c] = <<"SyncSignalRep">> /\ \A d \in Clients \ {c} : toService'[d] = toService[d]
  <2>1. toService = [d \in Clients |-> toService[d]]
    BY DEF FlowInv, Lists
  <2>2. toService' = [toService EXCEPT ![c] = <<"SyncSignalRep">>]
    <3>1. Append(<<>>, "SyncSignalRep") = <<"SyncSignalRep">>
      OBVIOUS
    <3> QED BY <1>1, <1>2, <3>1
  <2> QED BY <2>1, <2>2, Updated
<1>6. Rep(-1) # SyncReq
  BY DEF Rep, SyncReq, Msg
<1>7. ~ Refused(c)
  <2> HIDE DEF Rep, SyncReq
  <2> QED BY <1>2, <1>6, OneMessage DEF Refused
<1>8. PICK p \in Nat : Follows(c, p)
  BY <1>1, <1>7
<1>9. Flight(toClient[c], taken[c], left[c], p)
  BY <1>8 DEF Follows
<1>10. /\ Len(toClient[c]) = 1 /\ p > period /\ toClient'[c] = <<>>
       /\ left[c] # <<>> => Len(left[c]) = Len(Script(taken[c])) - p
  <2> HIDE DEF SyncReq
  <2>1. PICK l : l = toClient[c]
    OBVIOUS
  <2>2. l \in Seq(Msgs) /\ l # <<>> /\ Flight(l, taken[c], left[c], p) /\ Head(l) = SyncReq
    BY <1>1, <1>2, <1>9, <2>1
  <2>5. period \in Nat
    BY TransferAssumption DEF FlowInv, TransferInv, Threads
  <2>3. Len(l) = 1 /\ p > period /\ Tail(l) = <<>>
    BY <2>2, <2>5, FlightHead
  <2>4. left[c] # <<>> => Len(left[c]) = Len(Script(taken[c])) - p
    BY <2>2, <2>5, FlightHead
  <2> QED BY <1>4, <2>1, <2>3, <2>4
<1>11. svc # c
  <2>1. svc = c => p + 1 = 1
    BY <1>8, <1>10 DEF Follows
  <2>2. period \in Nat
    BY TransferAssumption DEF FlowInv, TransferInv, Threads
  <2> QED BY <1>10, <2>1, <2>2
<1>12. gone(c)' <=> gone(c)
  BY <1>4 DEF gone
<1>13. ~ gone(c)
  BY DEF gone
<1> HIDE DEF gone, Sound
<1>14. Turns(c)'
  <2>1. Len(<<>>) = 0 /\ period \in Nat
    BY TransferAssumption DEF FlowInv, TransferInv, Threads
  <2>2. Len(toClient'[c]) <= period + 2
    BY <1>10, <2>1
  <2> QED BY <1>5, <1>10, <2>2 DEF Turns
<1>a. Paced(c)'
  <2>1. Len(<<>>) = 0 /\ 1..0 = {}
    OBVIOUS
  <2> QED BY <1>10, <2>1 DEF Paced
<1>15. Asking(c)'
  <2>1. <<"SnapshotReq">> # <<"SyncSignalRep">>
    BY OneMessage
  <2> QED BY <1>3, <1>4, <1>5, <1>11, <2>1 DEF Asking
<1>16. Remains(c)' /\ Endings(c)'
  BY <1>1, <1>2, <1>3, <1>4 DEF Sound, Remains, Remainder, Endings
<1>17. Follows(c, p)'
  <2>1. Flight(toClient'[c], taken'[c], left'[c], p)
    BY <1>10 DEF Flight
  <2>2. Reads(taken'[c], p, stage'[c], builder'[c])
    BY <1>2, <1>4, <1>8 DEF Follows
  <2> QED BY <1>4, <1>10, <1>11, <2>1, <2>2 DEF Follows, Flight
<1>18. Following(c)'
  BY <1>17 DEF Following
<1>19. Lively(c)'
  <2>1. SUFFICES ASSUME Quiet' PROVE Live(c)' /\ cause'[c] # "timeout"
    BY DEF Lively
  <2>2. Live(c) /\ cause'[c] # "timeout"
    BY <1>1, <1>4, <1>13, <2>1 DEF Sound, Lively
  <2>3. left[c] # <<>>
    <3>1. <<"SyncSignalRep">> # <<>> /\ <<"SnapshotReq">> # <<>>
      BY OneMessage
    <3>2. toClient[c] # <<Rep(-1)>>
      <4> HIDE DEF Rep, SyncReq
      <4> QED BY <1>2, <1>6, OneMessage
    <3>3. toClient[c][Len(toClient[c])] = SyncReq
      <4>1. toClient[c][1] = SyncReq
        <5> HIDE DEF SyncReq
        <5> QED BY <1>1, <1>2, TailList
      <4> QED BY <1>10, <4>1
    <3>4. SyncReq # Msg("SnapshotEnd", "")
      BY DEF SyncReq, Msg
    <3> HIDE DEF Rep, SyncReq, Msg
    <3> QED BY <1>1, <1>11, <2>2, <3>1, <3>2, <3>3, <3>4 DEF Live
  <2> QED BY <1>4, <1>5, <2>2, <2>3 DEF Live
<1>20. Sound(c)'
  BY <1>14, <1>a, <1>15, <1>16, <1>18, <1>19 DEF Sound
<1>21. Lists'
  BY <1>2, <1>4, <1>5 DEF FlowInv, Lists
<1>22. \A d \in Clients \ {c} : Same(d)
  BY <1>2, <1>4, <1>5 DEF Same
<1> QED BY <1>20, <1>21, <1>22, OthersSound

LEMMA PullFrame ==
  ASSUME FlowInv, period' = period, broken' = broken, Quiet' => Quiet, NEW c \in Clients, NEW next, NEW why, Take(c, next, why),
         toClient[c] # <<>>, builder' = [d \in Clients |-> builder'[d]],
         \A d \in Clients \ {c} : builder'[d] = builder[d], UNCHANGED toService, Sound(c)'
  PROVE  Lists' /\ \A d \in Clients : Sound(d)'
<1>1. /\ toClient' \in [Clients -> Seq(Msgs)]
      /\ \A d \in Clients \ {c} :
           stage'[d] = stage[d] /\ cause'[d] = cause[d] /\ toClient'[d] = toClient[d]
      /\ UNCHANGED <<table, actor, period, feature, package, svc, left, taken, broken, faults>>
  BY TakeFacts
<1>2. Lists'
  BY <1>1 DEF FlowInv, Lists
<1>3. \A d \in Clients \ {c} : Same(d)
  BY <1>1 DEF Same
<1> QED BY <1>2, <1>3, OthersSound

(* The message at the head, unless it is the sync signal, is the next of   *)
(* the script.                                                             *)
LEMMA HeadOf ==
  ASSUME FlowInv, NEW c \in Clients, stage[c] \in Pulling, toClient[c] # <<>>,
         NEW p \in Nat, Follows(c, p)
  PROVE  /\ Head(toClient[c]) # SyncReq =>
              p + 1 <= Len(Script(taken[c])) /\ Head(toClient[c]) = Script(taken[c])[p + 1]
         /\ Head(toClient[c]) = SyncReq => p > period
         /\ taken[c] \in Tables \/ taken[c] = NoTable
<1>1. toClient[c] \in Seq(Msgs) /\ Flight(toClient[c], taken[c], left[c], p)
  BY DEF FlowInv, Lists, Follows
<1>2. taken[c] \in Tables \/ taken[c] = NoTable
  BY DEF FlowInv, TransferInv, ClientsOK
<1>3. period \in Nat
  BY TransferAssumption DEF FlowInv, TransferInv, Threads
<1> QED BY <1>1, <1>2, <1>3, FlightHead

LEMMA MsgFacts ==
  ASSUME NEW t, NEW x
  PROVE  /\ Msg(t, x).type = t /\ Msg(t, x).of = x
         /\ \A u, y : Msg(t, x) = Msg(u, y) => t = u /\ x = y
BY DEF Msg

LEMMA GoesOn ==
  /\ Rep(0) \notin LastOnes
  /\ Msg("SnapshotBegin", "") \notin LastOnes
  /\ \A x : Msg("RegionBegin", x) \notin LastOnes
  /\ \A x : Msg("Item", x) \notin LastOnes
  /\ \A x : Msg("RegionEnd", x) \notin LastOnes
<1>1. Rep(0) # Rep(-1)
  <2>1. 0 # -1
    OBVIOUS
  <2> QED BY <2>1, MsgFacts DEF Rep
<1>2. Rep(0) # SyncReq /\ Rep(0) # Msg("SnapshotEnd", "")
  BY MsgFacts DEF Rep, SyncReq
<1>3. \A t, x : t \notin {"SyncSignalReq", "SnapshotEnd", "SnapshotRep"} => Msg(t, x) \notin LastOnes
  <2>1. SUFFICES ASSUME NEW t, NEW x, t \notin {"SyncSignalReq", "SnapshotEnd", "SnapshotRep"}
                 PROVE  Msg(t, x) \notin LastOnes
    OBVIOUS
  <2>2. Msg(t, x).type = t
    BY MsgFacts
  <2>3. SyncReq.type = "SyncSignalReq" /\ Msg("SnapshotEnd", "").type = "SnapshotEnd"
    BY MsgFacts DEF SyncReq
  <2>4. Rep(-1).type = "SnapshotRep"
    BY MsgFacts DEF Rep
  <2> DEFINE y == Msg(t, x)
             z == Rep(-1)
  <2> HIDE DEF y, z, SyncReq, Msg
  <2>5. y # SyncReq /\ y # Msg("SnapshotEnd", "") /\ y # z
    BY <2>1, <2>2, <2>3, <2>4 DEF y, z
  <2> QED BY <2>5 DEF LastOnes, y, z
<1>4. Rep(0) \notin LastOnes
  <2> DEFINE y == Rep(0)
             z == Rep(-1)
  <2>1. y # z /\ y # SyncReq /\ y # Msg("SnapshotEnd", "")
    BY <1>1, <1>2
  <2> HIDE DEF y, z, SyncReq, Msg
  <2> QED BY <2>1 DEF LastOnes, z, y
<1> QED BY <1>3, <1>4

LEMMA ReqReadSound ==
  ASSUME FlowInv, period' = period, broken' = broken, Quiet' => Quiet,
         NEW c \in Clients \ broken, onReqReadable(c)
  PROVE  Lists' /\ \A d \in Clients : Sound(d)'
<1>1. stage[c] = "Request" /\ toClient[c] # <<>> /\ builder' = builder /\ toService' = toService
  BY DEF onReqReadable, Reading
<1>a. IF Head(toClient[c]) = Rep(0)
        THEN Take(c, "SnapshotBegin", "")
        ELSE Take(c, "gaveUp", IF Head(toClient[c]) = Rep(-1) THEN "refused" ELSE "unexpected")
  BY DEF onReqReadable
<1>2. stage[c] \in Pulling /\ "SnapshotBegin" \in Pulling
  BY <1>1 DEF Pulling
<1>3. Sound(c) /\ toClient[c] \in Seq(Msgs) /\ toService[c] = <<>>
      /\ (Refused(c) \/ \E p \in Nat : Follows(c, p))
  BY <1>1, <1>2, ReadingFollows
<1>4. /\ builder' = [d \in Clients |-> builder'[d]]
      /\ \A d \in Clients \ {c} : builder'[d] = builder[d]
  BY <1>1 DEF FlowInv, Lists
<1>5. Rep(0) \notin LastOnes
  BY GoesOn
<1>6. CASE Head(toClient[c]) = Rep(0)
  <2>1. Take(c, "SnapshotBegin", "")
    BY <1>a, <1>6
  <2>2. /\ stage'[c] = "SnapshotBegin" /\ cause'[c] = cause[c] /\ toClient'[c] = Tail(toClient[c])
        /\ UNCHANGED <<table, actor, feature, package, svc, left, taken, faults>>
    <3>1. toClient[c] # <<>> /\ "SnapshotBegin" \notin {"finished", "gaveUp"}
      BY <1>1
    <3> QED BY <2>1, <3>1, TakeFacts
  <2>3. ~ Refused(c)
    <3>1. Rep(-1) \in LastOnes
      BY DEF LastOnes
    <3> HIDE DEF Rep
    <3> QED BY <1>5, <1>6, <3>1, OneMessage DEF Refused
  <2>4. PICK p \in Nat : Follows(c, p)
    BY <1>3, <2>3
  <2>5. p = 0 /\ builder[c] = <<>>
    BY <1>1, <2>4 DEF Follows, Reads
  <2>7. Reads(taken[c], p + 1, stage'[c], builder'[c])
    <3>1. p + 1 = 1 /\ builder'[c] = <<>> /\ stage'[c] = "SnapshotBegin"
      BY <1>1, <2>2, <2>5
    <3> QED BY <3>1 DEF Reads
  <2>8. Sound(c)'
    BY <1>1, <1>2, <1>5, <1>6, <2>2, <2>4, <2>7, ReadOn
  <2> QED BY <1>1, <1>4, <2>1, <2>8, PullFrame
<1>7. CASE Head(toClient[c]) # Rep(0)
  <2>1. Take(c, "gaveUp", IF Head(toClient[c]) = Rep(-1) THEN "refused" ELSE "unexpected")
    BY <1>a, <1>7
  <2>a. Head(toClient[c]) = Rep(-1)
    <3>1. Refused(c) => Head(toClient[c]) = Rep(-1)
      BY OneMessage DEF Refused
    <3>2. ASSUME NEW p \in Nat, Follows(c, p) PROVE FALSE
      <4>1. p = 0
        BY <1>1, <3>2 DEF Follows, Reads
      <4>2. period \in Nat /\ ~ (p > period)
        BY <4>1, TransferAssumption DEF FlowInv, TransferInv, Threads
      <4>3. Head(toClient[c]) = Script(taken[c])[p + 1] /\ (taken[c] \in Tables \/ taken[c] = NoTable)
        BY <1>1, <1>2, <3>2, <4>2, HeadOf
      <4>4. Script(taken[c])[1] = Rep(0)
        <5>1. CASE taken[c] \in Tables
          BY <5>1, ScriptLayout
        <5>2. CASE taken[c] = NoTable
          <6>1. Script(NoTable) = <<Rep(0)>>
            BY DEF Script
          <6> HIDE DEF Rep
          <6> QED BY <5>2, <6>1, OneMessage
        <5> QED BY <4>3, <5>1, <5>2
      <4>5. Script(taken[c])[p + 1] = Script(taken[c])[1]
        BY <4>1
      <4> QED BY <1>7, <4>3, <4>4, <4>5
    <3> QED BY <1>3, <3>1, <3>2
  <2>b. Take(c, "gaveUp", "refused")
    BY <2>1, <2>a
  <2>2. /\ stage'[c] = "gaveUp" /\ cause'[c] = "refused" /\ toClient'[c] = <<>>
        /\ UNCHANGED <<table, actor, feature, package, svc, left, taken, faults>>
    BY <1>1, <2>b, TakeFacts
  <2>3. Sound(c)'
    BY <1>1, <2>2, LeaveSound
  <2> QED BY <1>1, <1>4, <2>1, <2>3, PullFrame
<1> QED BY <1>6, <1>7

LEMMA BeginReadSound ==
  ASSUME FlowInv, period' = period, broken' = broken, Quiet' => Quiet,
         NEW c \in Clients \ broken, pullSnapshotBegin(c)
  PROVE  Lists' /\ \A d \in Clients : Sound(d)'
<1>1. /\ stage[c] = "SnapshotBegin" /\ toClient[c] # <<>>
      /\ builder' = builder /\ toService' = toService
  BY DEF pullSnapshotBegin, Reading
<1>a. IF Head(toClient[c]).type = "SnapshotBegin"
        THEN Take(c, "RegionBegin", "")
        ELSE Take(c, "gaveUp", "unexpected")
  BY DEF pullSnapshotBegin
<1>2. stage[c] \in Pulling /\ "RegionBegin" \in Pulling
  BY <1>1 DEF Pulling
<1>3. Sound(c) /\ toClient[c] \in Seq(Msgs) /\ toService[c] = <<>>
      /\ (Refused(c) \/ \E p \in Nat : Follows(c, p))
  BY <1>1, <1>2, ReadingFollows
<1>4. /\ builder' = [d \in Clients |-> builder'[d]]
      /\ \A d \in Clients \ {c} : builder'[d] = builder[d]
  BY <1>1 DEF FlowInv, Lists
<1>5. PICK p \in Nat : Follows(c, p)
  BY <1>1, <1>3 DEF Refused
<1>6. p = 1 /\ builder[c] = <<>>
  BY <1>1, <1>5 DEF Follows, Reads
<1>7. CASE Head(toClient[c]) = SyncReq
  <2>1. period < 2
    <3>1. p > period /\ period \in Nat
      BY <1>1, <1>2, <1>5, <1>7, HeadOf, TransferAssumption DEF FlowInv, TransferInv, Threads
    <3> QED BY <1>6, <3>1
  <2>2. Take(c, "gaveUp", "unexpected")
    <3>1. SyncReq.type # "SnapshotBegin"
      BY MsgFacts DEF SyncReq
    <3> HIDE DEF SyncReq
    <3> QED BY <1>a, <1>7, <3>1
  <2>3. /\ stage'[c] = "gaveUp" /\ cause'[c] = "unexpected" /\ toClient'[c] = <<>>
        /\ UNCHANGED <<table, actor, feature, package, svc, left, taken, faults>>
    BY <1>1, <2>2, TakeFacts
  <2>4. Sound(c)'
    BY <1>1, <2>1, <2>3, LeaveSound
  <2> QED BY <1>1, <1>4, <2>2, <2>4, PullFrame
<1>8. CASE Head(toClient[c]) # SyncReq
  <2>1. /\ 1 + 1 <= Len(Script(taken[c])) /\ Head(toClient[c]) = Script(taken[c])[1 + 1]
        /\ taken[c] \in Tables \/ taken[c] = NoTable
    BY <1>1, <1>2, <1>5, <1>6, <1>8, HeadOf
  <2>2. taken[c] \in Tables
    <3>1. Script(NoTable) = <<Rep(0)>>
      BY DEF Script
    <3>2. Len(Script(NoTable)) = 1
      <4> HIDE DEF Rep
      <4> QED BY <3>1, OneMessage
    <3> QED BY <2>1, <3>2
  <2>3. Head(toClient[c]) = Msg("SnapshotBegin", "")
    <3>1. Script(taken[c])[2] = Msg("SnapshotBegin", "")
      BY <2>2, ScriptLayout
    <3>2. Script(taken[c])[1 + 1] = Script(taken[c])[2]
      OBVIOUS
    <3> QED BY <2>1, <3>1, <3>2
  <2>4. Head(toClient[c]) \notin LastOnes /\ Head(toClient[c]).type = "SnapshotBegin"
    BY <2>3, GoesOn, MsgFacts
  <2>5. Take(c, "RegionBegin", "")
    BY <1>a, <2>4
  <2>6. /\ stage'[c] = "RegionBegin" /\ cause'[c] = cause[c] /\ toClient'[c] = Tail(toClient[c])
        /\ UNCHANGED <<table, actor, feature, package, svc, left, taken, faults>>
    BY <1>1, <2>5, TakeFacts
  <2>7. Between(taken[c], 2, <<>>)
    <3>1. Offsets(taken[c])[0] = 2 /\ Len(taken[c]) \in Nat /\ <<>> \in Seq(Blocks) /\ Len(<<>>) = 0
      <4>1. Offsets(taken[c])[0] = 2
        BY <2>2, ScriptLayout DEF Layout
      <4>2. Len(taken[c]) \in Nat
        BY <2>2, TableList
      <4>3. <<>> \in Seq(Blocks) /\ Len(<<>>) = 0
        OBVIOUS
      <4> QED BY <4>1, <4>2, <4>3
    <3>2. 0 \in 0..Len(taken[c]) /\ 1..0 = {}
      BY <3>1
    <3> QED BY <2>2, <3>1, <3>2 DEF Between
  <2>8. Reads(taken[c], p + 1, stage'[c], builder'[c])
    <3>1. p + 1 = 2 /\ builder'[c] = <<>> /\ stage'[c] = "RegionBegin"
      BY <1>1, <1>6, <2>6
    <3> QED BY <2>7, <3>1 DEF Reads
  <2>9. Sound(c)'
    BY <1>1, <1>2, <1>5, <2>4, <2>6, <2>8, ReadOn
  <2> QED BY <1>1, <1>4, <2>5, <2>9, PullFrame
<1> QED BY <1>7, <1>8

LEMMA TypeOf == \A m, t, x : m = Msg(t, x) => m.type = t /\ m.of = x
BY MsgFacts

(* What a client between two regions reads.                                *)
LEMMA NextOf ==
  ASSUME NEW t, NEW p, NEW b, Between(t, p, b), NEW m, m = Script(t)[p + 1]
  PROVE  m.type = "RegionBegin" =>
              \E r \in Regions : /\ m = Msg("RegionBegin", r)
                                 /\ InBody(t, p + 1, Append(b, [region |-> r, items |-> <<>>]))
<1>1. \/ \E r \in Regions : /\ Script(t)[p + 1] = Msg("RegionBegin", r)
                            /\ InBody(t, p + 1, Append(b, [region |-> r, items |-> <<>>]))
      \/ Script(t)[p + 1] = Msg("SnapshotEnd", "") /\ b = t
  BY BetweenRead
<1>2. CASE \E r \in Regions : /\ Script(t)[p + 1] = Msg("RegionBegin", r)
                              /\ InBody(t, p + 1, Append(b, [region |-> r, items |-> <<>>]))
  <2>1. PICK r \in Regions : /\ Script(t)[p + 1] = Msg("RegionBegin", r)
                            /\ InBody(t, p + 1, Append(b, [region |-> r, items |-> <<>>]))
    BY <1>2
  <2>2. m = Msg("RegionBegin", r)
    BY <2>1
  <2>3. m.type = "RegionBegin"
    BY <2>2, TypeOf
  <2> QED BY <2>1, <2>2, <2>3
<1>3. CASE Script(t)[p + 1] = Msg("SnapshotEnd", "") /\ b = t
  <2>1. m = Msg("SnapshotEnd", "")
    BY <1>3
  <2>2. m.type = "SnapshotEnd"
    BY <2>1, TypeOf
  <2> QED BY <1>3, <2>1, <2>2
<1> QED BY <1>1, <1>2, <1>3

LEMMA EndOf ==
  ASSUME NEW t, NEW p, NEW b, Between(t, p, b), Script(t)[p + 1].type # "RegionBegin"
  PROVE  \A x : x = b => x = t
<1>1. \/ \E r \in Regions : /\ Script(t)[p + 1] = Msg("RegionBegin", r)
                            /\ InBody(t, p + 1, Append(b, [region |-> r, items |-> <<>>]))
      \/ Script(t)[p + 1] = Msg("SnapshotEnd", "") /\ b = t
  BY BetweenRead
<1>2. ~ \E r \in Regions : /\ Script(t)[p + 1] = Msg("RegionBegin", r)
                           /\ InBody(t, p + 1, Append(b, [region |-> r, items |-> <<>>]))
  <2>1. ASSUME NEW r \in Regions, Script(t)[p + 1] = Msg("RegionBegin", r) PROVE FALSE
    <3>1. PICK m : m = Script(t)[p + 1]
      OBVIOUS
    <3>2. m.type = "RegionBegin"
      BY <2>1, <3>1, TypeOf
    <3> QED BY <3>1, <3>2
  <2> QED BY <2>1
<1> QED BY <1>1, <1>2

LEMMA EndMessage ==
  ASSUME NEW t, NEW p, NEW b, Between(t, p, b), Script(t)[p + 1].type # "RegionBegin"
  PROVE  Script(t)[p + 1] = Msg("SnapshotEnd", "")
<1>1. \/ \E r \in Regions : /\ Script(t)[p + 1] = Msg("RegionBegin", r)
                            /\ InBody(t, p + 1, Append(b, [region |-> r, items |-> <<>>]))
      \/ Script(t)[p + 1] = Msg("SnapshotEnd", "") /\ b = t
  BY BetweenRead
<1>2. ASSUME NEW r \in Regions, Script(t)[p + 1] = Msg("RegionBegin", r) PROVE FALSE
  <2>1. PICK m : m = Script(t)[p + 1]
    OBVIOUS
  <2>2. m.type = "RegionBegin"
    BY <1>2, <2>1, TypeOf
  <2> QED BY <2>1, <2>2
<1> QED BY <1>1, <1>2

(* What a client in a region reads.                                        *)
LEMMA NextInBody ==
  ASSUME NEW t, NEW p, NEW b, InBody(t, p, b), NEW m, m = Script(t)[p + 1]
  PROVE  /\ m.type = "Item" =>
              \E x \in Items : /\ m = Msg("Item", x)
                               /\ InBody(t, p + 1, [b EXCEPT ![Len(b)].items = Append(@, x)])
         /\ m.type # "Item" => m = Msg("RegionEnd", b[Len(b)].region) /\ Between(t, p + 1, b)
<1>1. \/ \E x \in Items : /\ Script(t)[p + 1] = Msg("Item", x)
                          /\ InBody(t, p + 1, [b EXCEPT ![Len(b)].items = Append(@, x)])
      \/ /\ Script(t)[p + 1] = Msg("RegionEnd", b[Len(b)].region)
         /\ Between(t, p + 1, b)
  BY BodyRead
<1>2. CASE \E x \in Items : /\ Script(t)[p + 1] = Msg("Item", x)
                            /\ InBody(t, p + 1, [b EXCEPT ![Len(b)].items = Append(@, x)])
  <2>1. PICK x \in Items : /\ Script(t)[p + 1] = Msg("Item", x)
                          /\ InBody(t, p + 1, [b EXCEPT ![Len(b)].items = Append(@, x)])
    BY <1>2
  <2>2. m = Msg("Item", x)
    BY <2>1
  <2>3. m.type = "Item"
    BY <2>2, TypeOf
  <2> QED BY <2>1, <2>2, <2>3
<1>3. CASE /\ Script(t)[p + 1] = Msg("RegionEnd", b[Len(b)].region)
           /\ Between(t, p + 1, b)
  <2>1. m = Msg("RegionEnd", b[Len(b)].region)
    BY <1>3
  <2>2. m.type = "RegionEnd"
    BY <2>1, TypeOf
  <2> QED BY <1>3, <2>1, <2>2
<1> QED BY <1>1, <1>2, <1>3

LEMMA BuilderUpdated ==
  ASSUME FlowInv, NEW c \in Clients, NEW b, builder' = [builder EXCEPT ![c] = b]
  PROVE  /\ builder' = [d \in Clients |-> builder'[d]] /\ builder'[c] = b
         /\ \A d \in Clients \ {c} : builder'[d] = builder[d]
<1>1. builder = [d \in Clients |-> builder[d]]
  BY DEF FlowInv, Lists
<1> QED BY <1>1, Updated

LEMMA BuilderKept ==
  ASSUME FlowInv, UNCHANGED builder
  PROVE  /\ builder' = [d \in Clients |-> builder'[d]]
         /\ \A d \in Clients : builder'[d] = builder[d]
BY DEF FlowInv, Lists

(* The next region begins.                                                 *)
LEMMA RegionBegun ==
  ASSUME FlowInv, period' = period, broken' = broken, Quiet' => Quiet,
         NEW c \in Clients \ broken, stage[c] \in Pulling, toClient[c] # <<>>,
         UNCHANGED toService, NEW p \in Nat, Follows(c, p), Head(toClient[c]) # SyncReq,
         Between(taken[c], p, builder[c]), Head(toClient[c]).type = "RegionBegin",
         Take(c, "RegionBody", ""), addRegion(c, Head(toClient[c]).of)
  PROVE  Lists' /\ \A d \in Clients : Sound(d)'
<1>1. p + 1 <= Len(Script(taken[c])) /\ Head(toClient[c]) = Script(taken[c])[p + 1]
  BY HeadOf
<1>2. PICK m : m = Head(toClient[c])
  OBVIOUS
<1>3. PICK r \in Regions : /\ m = Msg("RegionBegin", r)
                           /\ InBody(taken[c], p + 1, Append(builder[c], [region |-> r, items |-> <<>>]))
  <2>1. m.type = "RegionBegin" /\ m = Script(taken[c])[p + 1]
    BY <1>1, <1>2
  <2> QED BY <2>1, NextOf
<1>4. Head(toClient[c]) = Msg("RegionBegin", r) /\ Head(toClient[c]).of = r
  <2>0. m = Msg("RegionBegin", r)
    BY <1>3
  <2>1. m.of = r
    BY <2>0, MsgFacts, Zenon
  <2> QED BY <1>2, <1>3, <2>1
<1>5. Head(toClient[c]) \notin LastOnes
  BY <1>4, GoesOn
<1> DEFINE b == Append(builder[c], [region |-> r, items |-> <<>>])
<1>6. builder' = [builder EXCEPT ![c] = b]
  BY <1>4 DEF addRegion
<1> HIDE DEF b
<1>7. /\ builder' = [d \in Clients |-> builder'[d]] /\ builder'[c] = b
      /\ \A d \in Clients \ {c} : builder'[d] = builder[d]
  BY <1>6, BuilderUpdated
<1>8. /\ stage'[c] = "RegionBody" /\ cause'[c] = cause[c] /\ toClient'[c] = Tail(toClient[c])
      /\ UNCHANGED <<table, actor, period, feature, package, svc, left, taken, broken, faults>>
  BY TakeFacts
<1>9. Reads(taken[c], p + 1, stage'[c], builder'[c]) /\ stage'[c] \in Pulling
  BY <1>3, <1>7, <1>8 DEF Reads, Pulling, b
<1>10. Sound(c)'
  BY <1>5, <1>8, <1>9, ReadOn
<1> QED BY <1>7, <1>10, PullFrame

LEMMA RegionReadSound ==
  ASSUME FlowInv, period' = period, broken' = broken, Quiet' => Quiet,
         NEW c \in Clients \ broken, pullRegionBegin(c)
  PROVE  Lists' /\ \A d \in Clients : Sound(d)'
<1> DEFINE m == Head(toClient[c])
<1>1. stage[c] = "RegionBegin" /\ toClient[c] # <<>> /\ UNCHANGED toService
  BY DEF pullRegionBegin, Reading
<1>a. IF m.type = "RegionBegin"
        THEN Take(c, "RegionBody", "") /\ addRegion(c, m.of)
        ELSE Take(c, "gaveUp", "unexpected") /\ UNCHANGED builder
  BY DEF pullRegionBegin
<1>2. stage[c] \in Pulling
  BY <1>1 DEF Pulling
<1>3. Refused(c) \/ \E p \in Nat : Follows(c, p)
  BY <1>1, <1>2, ReadingFollows
<1>4. PICK p \in Nat : Follows(c, p)
  BY <1>1, <1>3 DEF Refused
<1>5. p = 2 /\ builder[c] = <<>> /\ Between(taken[c], p, builder[c])
  BY <1>1, <1>4 DEF Follows, Reads
<1>6. CASE m.type = "RegionBegin"
  <2>1. m # SyncReq
    BY <1>6, MsgFacts DEF SyncReq
  <2> QED BY <1>1, <1>a, <1>2, <1>4, <1>5, <1>6, <2>1, RegionBegun
<1>7. CASE m.type # "RegionBegin"
  <2>1. Take(c, "gaveUp", "unexpected") /\ UNCHANGED builder
    BY <1>a, <1>7
  <2>2. /\ stage'[c] = "gaveUp" /\ cause'[c] = "unexpected" /\ toClient'[c] = <<>>
        /\ UNCHANGED <<table, actor, feature, package, svc, left, taken, faults>>
    BY <1>1, <2>1, TakeFacts
  <2>3. (taken[c] = <<>> /\ taken[c] \in Tables) \/ period < 2
    <3>1. taken[c] \in Tables
      BY <1>5 DEF Between
    <3>2. CASE m = SyncReq
      <4>1. p > period /\ period \in Nat
        BY <1>1, <1>2, <1>4, <3>2, HeadOf, TransferAssumption DEF FlowInv, TransferInv, Threads
      <4> QED BY <1>5, <4>1
    <3>3. CASE m # SyncReq
      <4>1. m = Script(taken[c])[p + 1]
        BY <1>1, <1>2, <1>4, <3>3, HeadOf
      <4>2. Script(taken[c])[p + 1].type # "RegionBegin"
        BY <4>1, <1>7
      <4>3. PICK t : t = taken[c]
        OBVIOUS
      <4>4. PICK b : b = builder[c]
        OBVIOUS
      <4>5. Between(t, p, b) /\ Script(t)[p + 1].type # "RegionBegin"
        BY <1>5, <4>2, <4>3, <4>4
      <4>6. \A z : z = b => z = t
        BY <4>5, EndOf
      <4>7. builder[c] = taken[c]
        BY <4>3, <4>4, <4>6
      <4> QED BY <1>5, <3>1, <4>7
    <3> QED BY <3>2, <3>3
  <2>4. /\ builder' = [d \in Clients |-> builder'[d]]
        /\ \A d \in Clients \ {c} : builder'[d] = builder[d]
    BY <2>1, BuilderKept
  <2>5. Sound(c)'
    BY <1>1, <2>2, <2>3, LeaveSound
  <2> QED BY <1>1, <2>1, <2>4, <2>5, PullFrame
<1> QED BY <1>6, <1>7

LEMMA OrFinishReadSound ==
  ASSUME FlowInv, period' = period, broken' = broken, Quiet' => Quiet,
         NEW c \in Clients \ broken, pullRegionOrFinish(c)
  PROVE  Lists' /\ \A d \in Clients : Sound(d)'
<1> DEFINE m == Head(toClient[c])
<1>1. stage[c] = "RegionOrFinish" /\ toClient[c] # <<>>
  BY DEF pullRegionOrFinish, Reading
<1>2. stage[c] \in Pulling
  BY <1>1 DEF Pulling
<1>3. Refused(c) \/ \E p \in Nat : Follows(c, p)
  BY <1>1, <1>2, ReadingFollows
<1>4. PICK p \in Nat : Follows(c, p)
  BY <1>1, <1>3 DEF Refused
<1>5. Between(taken[c], p, builder[c])
  BY <1>1, <1>4 DEF Follows, Reads
<1>6. CASE answerSync(c)
  BY <1>1, <1>2, <1>6, AnswerSound
<1>7. CASE m.type = "RegionBegin" /\ Take(c, "RegionBody", "") /\ addRegion(c, m.of)
           /\ UNCHANGED toService
  <2>1. m # SyncReq
    BY <1>7, MsgFacts DEF SyncReq
  <2> QED BY <1>1, <1>2, <1>4, <1>5, <1>7, <2>1, RegionBegun
<1>8. CASE /\ m.type \notin {"RegionBegin", "SyncSignalReq"}
           /\ IF m.type = "SnapshotEnd"
                THEN Take(c, "finished", "")
                ELSE Take(c, "RegionOrFinish", "unexpected")
           /\ UNCHANGED <<builder, toService>>
  <2>a. m # SyncReq /\ m.type # "RegionBegin"
    <3>1. SyncReq.type = "SyncSignalReq"
      BY MsgFacts DEF SyncReq
    <3> HIDE DEF SyncReq, m
    <3> QED BY <1>8, <3>1
  <2>1. p + 1 <= Len(Script(taken[c])) /\ m = Script(taken[c])[p + 1]
    BY <1>1, <1>2, <1>4, <2>a, HeadOf
  <2>2. m = Msg("SnapshotEnd", "") /\ builder[c] = taken[c]
    <3>1. PICK x : x = m
      OBVIOUS
    <3>2. x.type # "RegionBegin" /\ x = Script(taken[c])[p + 1]
      BY <2>a, <2>1, <3>1
    <3>4. Script(taken[c])[p + 1].type # "RegionBegin"
      BY <3>2
    <3>5. PICK t : t = taken[c]
      OBVIOUS
    <3>6. PICK b : b = builder[c]
      OBVIOUS
    <3>7. Between(t, p, b) /\ Script(t)[p + 1].type # "RegionBegin"
      BY <1>5, <3>4, <3>5, <3>6
    <3>8. \A z : z = b => z = t
      BY <3>7, EndOf
    <3>9. Script(t)[p + 1] = Msg("SnapshotEnd", "")
      BY <3>7, EndMessage
    <3>10. x = Msg("SnapshotEnd", "")
      BY <3>2, <3>5, <3>9
    <3>11. builder[c] = taken[c]
      BY <3>5, <3>6, <3>8
    <3> HIDE DEF m
    <3> QED BY <3>1, <3>10, <3>11
  <2>3. Take(c, "finished", "") /\ UNCHANGED <<builder, toService>>
    <3>1. m.type = "SnapshotEnd"
      BY <2>2, TypeOf
    <3> QED BY <1>8, <3>1
  <2>4. /\ stage'[c] = "finished" /\ cause'[c] = cause[c] /\ toClient'[c] = <<>>
        /\ UNCHANGED <<table, actor, feature, package, svc, left, taken, faults>>
    BY <1>1, <2>3, TakeFacts
  <2>5. /\ builder' = [d \in Clients |-> builder'[d]]
        /\ \A d \in Clients \ {c} : builder'[d] = builder[d]
    BY <2>3, BuilderKept
  <2>6. Sound(c)'
    <3>1. Sound(c)
      BY DEF FlowInv
    <3>2. taken[c] \in Tables /\ builder'[c] = taken[c]
      BY <1>5, <2>2, <2>3 DEF Between
    <3>3. cause[c] = "unexpected" => (taken[c] = <<>> /\ taken[c] \in Tables) \/ period < 2
      BY <3>1 DEF Sound, Endings
    <3>4. Quiet' => cause'[c] # "timeout"
      BY <2>4, <3>1 DEF Sound, Lively
    <3> QED BY <1>1, <2>3, <2>4, <3>2, <3>3, <3>4, LeaveSound
  <2> QED BY <1>1, <2>3, <2>5, <2>6, PullFrame
<1> QED BY <1>6, <1>7, <1>8 DEF pullRegionOrFinish

LEMMA BodyReadSound ==
  ASSUME FlowInv, period' = period, broken' = broken, Quiet' => Quiet,
         NEW c \in Clients \ broken, pullRegionBody(c)
  PROVE  Lists' /\ \A d \in Clients : Sound(d)'
<1> DEFINE m == Head(toClient[c])
           last == builder[c][Len(builder[c])].region
<1>1. stage[c] = "RegionBody" /\ toClient[c] # <<>>
  BY DEF pullRegionBody, Reading
<1>2. stage[c] \in Pulling
  BY <1>1 DEF Pulling
<1>3. Refused(c) \/ \E p \in Nat : Follows(c, p)
  BY <1>1, <1>2, ReadingFollows
<1>4. PICK p \in Nat : Follows(c, p)
  BY <1>1, <1>3 DEF Refused
<1>5. InBody(taken[c], p, builder[c])
  BY <1>1, <1>4 DEF Follows, Reads
<1>6. CASE answerSync(c)
  BY <1>1, <1>2, <1>6, AnswerSound
<1>7. CASE m.type = "Item" /\ Take(c, "RegionBody", "") /\ addItem(c, m.of) /\ UNCHANGED toService
  <2>1. m # SyncReq
    BY <1>7, MsgFacts DEF SyncReq
  <2>2. m = Script(taken[c])[p + 1]
    BY <1>1, <1>2, <1>4, <2>1, HeadOf
  <2>3. PICK x \in Items :
           /\ m = Msg("Item", x)
           /\ InBody(taken[c], p + 1, [builder[c] EXCEPT ![Len(builder[c])].items = Append(@, x)])
    BY <1>5, <1>7, <2>2, NextInBody
  <2>4. m = Msg("Item", x) /\ m.of = x /\ m \notin LastOnes
    BY <2>3, TypeOf, GoesOn
  <2> DEFINE b == [builder[c] EXCEPT ![Len(builder[c])].items = Append(@, x)]
  <2>5. builder' = [builder EXCEPT ![c] = b]
    BY <1>7, <2>4 DEF addItem
  <2> HIDE DEF b
  <2>6. /\ builder' = [d \in Clients |-> builder'[d]] /\ builder'[c] = b
        /\ \A d \in Clients \ {c} : builder'[d] = builder[d]
    BY <2>5, BuilderUpdated
  <2>7. /\ stage'[c] = "RegionBody" /\ cause'[c] = cause[c] /\ toClient'[c] = Tail(toClient[c])
        /\ UNCHANGED <<table, actor, feature, package, svc, left, taken, faults>>
    BY <1>1, <1>7, TakeFacts
  <2>8. Reads(taken[c], p + 1, stage'[c], builder'[c]) /\ stage'[c] \in Pulling
    BY <2>3, <2>6, <2>7 DEF Reads, Pulling, b
  <2>9. Sound(c)'
    BY <1>1, <1>2, <1>4, <1>7, <2>4, <2>7, <2>8, ReadOn
  <2> QED BY <1>1, <1>7, <2>6, <2>9, PullFrame
<1>8. CASE /\ m.type \notin {"Item", "SyncSignalReq"}
           /\ IF m = Msg("RegionEnd", last)
                THEN Take(c, "RegionOrFinish", "")
                ELSE Take(c, "gaveUp", "unexpected")
           /\ UNCHANGED <<builder, toService>>
  <2>a. m # SyncReq /\ m.type # "Item"
    <3>1. SyncReq.type = "SyncSignalReq"
      BY MsgFacts DEF SyncReq
    <3> HIDE DEF SyncReq, m
    <3> QED BY <1>8, <3>1
  <2>1. m = Script(taken[c])[p + 1]
    BY <1>1, <1>2, <1>4, <2>a, HeadOf
  <2>2. m = Msg("RegionEnd", last) /\ Between(taken[c], p + 1, builder[c])
    BY <1>5, <2>a, <2>1, NextInBody
  <2>4. Take(c, "RegionOrFinish", "") /\ UNCHANGED <<builder, toService>>
    BY <1>8, <2>2
  <2>5. /\ stage'[c] = "RegionOrFinish" /\ cause'[c] = cause[c] /\ toClient'[c] = Tail(toClient[c])
        /\ UNCHANGED <<table, actor, feature, package, svc, left, taken, faults>>
    BY <1>1, <2>4, TakeFacts
  <2>6. /\ builder' = [d \in Clients |-> builder'[d]]
        /\ \A d \in Clients \ {c} : builder'[d] = builder[d]
    BY <2>4, BuilderKept
  <2>7. m \notin LastOnes
    BY <2>2, GoesOn
  <2>8. Reads(taken[c], p + 1, stage'[c], builder'[c]) /\ stage'[c] \in Pulling
    BY <2>2, <2>4, <2>5 DEF Reads, Pulling
  <2>9. Sound(c)'
    BY <1>1, <1>2, <1>4, <2>4, <2>5, <2>7, <2>8, ReadOn
  <2> QED BY <1>1, <2>4, <2>6, <2>9, PullFrame
<1> QED BY <1>6, <1>7, <1>8 DEF pullRegionBody

(* A client asks for the snapshot.                                         *)
LEMMA StartSound ==
  ASSUME FlowInv, period' = period, broken' = broken, Quiet' => Quiet, NEW c \in Clients, start(c)
  PROVE  Lists' /\ \A d \in Clients : Sound(d)'
<1>1. Lists /\ Sound(c)
  BY DEF FlowInv
<1>2. /\ stage[c] = "new" /\ stage'[c] = "Request"
      /\ \A d \in Clients \ {c} : stage'[d] = stage[d]
  BY Updated DEF start, FlowInv, TransferInv, Shapes
<1>3. /\ toService' = [d \in Clients |-> toService'[d]] /\ toService'[c] = <<"SnapshotReq">>
      /\ \A d \in Clients \ {c} : toService'[d] = toService[d]
  BY <1>1, Updated DEF start, Lists
<1>4. UNCHANGED <<svc, feature, package, left, builder, cause, toClient, taken, faults, actor>>
  BY DEF start, service
<1>5. Lists'
  BY <1>1, <1>3, <1>4 DEF Lists
<1>6. \A d \in Clients \ {c} : Same(d)
  BY <1>2, <1>3, <1>4 DEF Same
<1>7. gone(c) /\ ~ gone(c)'
  BY <1>2 DEF gone, Pulling
<1> HIDE DEF gone
<1>8. toClient[c] = <<>> /\ left[c] = <<>> /\ taken[c] = NoTable /\ svc # c /\ builder[c] = <<>>
  BY <1>1, <1>2, <1>7 DEF Sound, Turns, Asking
<1>9. Turns(c)'
  <2>1. Len(<<>>) = 0 /\ period \in Nat
    BY TransferAssumption DEF FlowInv, TransferInv, Threads
  <2>2. Len(toClient'[c]) <= period + 2
    BY <1>4, <1>8, <2>1
  <2> QED BY <1>3, <1>4, <1>8, <2>2 DEF Turns
<1>a. Paced(c)'
  <2>1. Len(<<>>) = 0 /\ 1..0 = {}
    OBVIOUS
  <2> QED BY <1>4, <1>8, <2>1 DEF Paced
<1>10. Asking(c)'
  BY <1>2, <1>4, <1>8 DEF Asking
<1>11. Remains(c)' /\ Endings(c)'
  BY <1>1, <1>2, <1>4, <1>8 DEF Sound, Remains, Endings
<1>12. Following(c)'
  <2>1. Reads(taken'[c], 0, stage'[c], builder'[c])
    BY <1>2, <1>4, <1>8 DEF Reads
  <2>2. Flight(toClient'[c], taken'[c], left'[c], 0)
    <3>1. toClient'[c] = <<>>
      BY <1>4, <1>8
    <3> QED BY <3>1 DEF Flight
  <2>3. Follows(c, 0)'
    BY <1>4, <1>8, <2>1, <2>2 DEF Follows, Flight
  <2> QED BY <2>3 DEF Following
<1>13. Lively(c)'
  BY <1>1, <1>3, <1>4 DEF Sound, Lively, Live
<1>14. Sound(c)'
  BY <1>9, <1>a, <1>10, <1>11, <1>12, <1>13 DEF Sound
<1> QED BY <1>5, <1>6, <1>14, OthersSound

(* Nothing has come for 3 s: while the service lives and nothing is slow   *)
(* something is under way, so this does not happen.                        *)
LEMMA TimeoutSound ==
  ASSUME FlowInv, period' = period, broken' = broken, Quiet' => Quiet, NEW c \in Clients, onTimeoutTimer(c)
  PROVE  Lists' /\ \A d \in Clients : Sound(d)'
<1>1. Lists /\ Sound(c) /\ stage[c] \in Pulling /\ faults \in Nat
  BY TransferAssumption DEF onTimeoutTimer, FlowInv, TransferInv, Threads
<1>2. stage'[c] = "gaveUp" /\ \A d \in Clients \ {c} : stage'[d] = stage[d]
  BY Updated DEF onTimeoutTimer, FlowInv, TransferInv, Shapes
<1>3. cause'[c] = "timeout" /\ \A d \in Clients \ {c} : cause'[d] = cause[d]
  BY Updated DEF onTimeoutTimer, FlowInv, TransferInv, Shapes
<1>4. <<>> \in Seq(Msgs)
  OBVIOUS
<1>5. /\ toClient' \in [Clients -> Seq(Msgs)] /\ toClient'[c] = <<>>
      /\ \A d \in Clients \ {c} : toClient'[d] = toClient[d]
  BY <1>1, <1>4, ListUpdated DEF onTimeoutTimer, Lists
<1>6. UNCHANGED <<svc, feature, package, left, builder, toService, taken, actor>>
  BY DEF onTimeoutTimer, service
<1>7. Lists'
  BY <1>1, <1>5, <1>6 DEF Lists
<1>8. \A d \in Clients \ {c} : Same(d)
  BY <1>2, <1>3, <1>5, <1>6 DEF Same
<1>9. ~ Quiet'
  <2>1. SUFFICES ASSUME Quiet' PROVE FALSE
    OBVIOUS
  <2>2. stalled(c)
    <3>1. stalled(c) \/ faults' = faults + 1
      BY DEF onTimeoutTimer, Fault
    <3>2. faults' = 0
      BY <2>1 DEF Quiet
    <3> HIDE DEF stalled
    <3> QED BY <1>1, <3>1, <3>2
  <2>3. Live(c) /\ actor = "running"
    BY <1>1, <2>1 DEF Sound, Lively, Quiet, gone
  <2>4. toClient[c] = <<>> /\ toService[c] = <<>> /\ svc # c
    BY <2>2, <2>3 DEF stalled
  <2>5. \A x : <<x>> # <<>>
    OBVIOUS
  <2> QED BY <2>3, <2>4, <2>5, Zenon DEF Live
<1>10. Sound(c)'
  BY <1>1, <1>2, <1>3, <1>5, <1>6, <1>9, LeaveSound DEF Pulling
<1> QED BY <1>7, <1>8, <1>10, OthersSound

(* The caller stops the transfer.                                          *)
LEMMA StopSound ==
  ASSUME FlowInv, period' = period, broken' = broken, Quiet' => Quiet, NEW c \in Clients, stop(c)
  PROVE  Lists' /\ \A d \in Clients : Sound(d)'
<1>1. Lists /\ Sound(c) /\ stage[c] # "new"
  BY DEF stop, Pulling, FlowInv
<1>2. stage'[c] = "stopped" /\ \A d \in Clients \ {c} : stage'[d] = stage[d]
  BY Updated DEF stop, FlowInv, TransferInv, Shapes
<1>3. <<>> \in Seq(Msgs)
  OBVIOUS
<1>4. /\ toClient' \in [Clients -> Seq(Msgs)] /\ toClient'[c] = <<>>
      /\ \A d \in Clients \ {c} : toClient'[d] = toClient[d]
  BY <1>1, <1>3, ListUpdated DEF stop, Lists
<1>5. UNCHANGED <<svc, feature, package, left, builder, cause, toService, taken, actor>>
  BY DEF stop, service
<1>6. Lists'
  BY <1>1, <1>4, <1>5 DEF Lists
<1>7. \A d \in Clients \ {c} : Same(d)
  BY <1>2, <1>4, <1>5 DEF Same
<1>8. c \notin broken /\ cause'[c] = "unexpected" => (taken[c] = <<>> /\ taken[c] \in Tables) \/ period < 2
  BY <1>1, <1>5 DEF Sound, Endings
<1>9. Quiet' => cause'[c] # "timeout"
  BY <1>1, <1>5 DEF Sound, Lively
<1>10. Sound(c)'
  BY <1>1, <1>2, <1>4, <1>5, <1>8, <1>9, LeaveSound
<1> QED BY <1>6, <1>7, <1>10, OthersSound

(* The caller is told.                                                     *)
LEMMA CallerSound ==
  ASSUME FlowInv, period' = period, broken' = broken, Quiet' => Quiet, NEW c \in Clients, onCallerPipeReadable(c)
  PROVE  Lists' /\ \A d \in Clients : Sound(d)'
<1>1. Lists /\ Sound(c)
  BY DEF FlowInv
<1>2. /\ \/ stage[c] = "finished" /\ stage'[c] = "done"
         \/ stage[c] = "gaveUp" /\ stage'[c] = "failed"
      /\ \A d \in Clients \ {c} : stage'[d] = stage[d]
  BY Updated DEF onCallerPipeReadable, FlowInv, TransferInv, Shapes
<1>3. UNCHANGED <<svc, feature, package, left, builder, cause, toService, toClient, taken, actor>>
  BY DEF onCallerPipeReadable, service
<1>4. Lists'
  BY <1>1, <1>3 DEF Lists
<1>5. \A d \in Clients \ {c} : Same(d)
  BY <1>2, <1>3 DEF Same
<1>6. toClient'[c] = <<>>
  BY <1>1, <1>2, <1>3 DEF Sound, Turns, gone, Pulling
<1>7. c \notin broken /\ stage'[c] \in {"finished", "done"} => taken[c] \in Tables /\ builder'[c] = taken[c]
  BY <1>1, <1>2, <1>3 DEF Sound, Endings
<1>8. c \notin broken /\ cause'[c] = "unexpected" => (taken[c] = <<>> /\ taken[c] \in Tables) \/ period < 2
  BY <1>1, <1>3 DEF Sound, Endings
<1>9. Quiet' => cause'[c] # "timeout"
  BY <1>1, <1>3 DEF Sound, Lively
<1>10. Sound(c)'
  BY <1>2, <1>3, <1>6, <1>7, <1>8, <1>9, LeaveSound
<1> QED BY <1>4, <1>5, <1>10, OthersSound

(* What arrives of at most one message.                                    *)
LEMMA TornOne ==
  ASSUME NEW x, NEW s, s = <<>> \/ s = <<x>>, NEW u \in Torn(s)
  PROVE  u = <<>> \/ u = s
<1>1. s \in Seq({x}) /\ Len(s) \in {0, 1}
  <2>1. <<>> \in Seq({x}) /\ <<x>> \in Seq({x})
    OBVIOUS
  <2> QED BY <2>1, AtMostOne
<1>2. u \in Seq({x}) /\ Len(u) \in Nat /\ Len(u) <= Len(s)
  BY <1>1, TornThins
<1>3. \A v \in Seq({x}) : Len(v) = 0 => v = <<>>
  OBVIOUS
<1>4. \A v \in Seq({x}) : Len(v) = 1 => v = <<x>>
  OBVIOUS
<1>5. CASE s = <<>>
  <2>1. Len(s) = 0
    BY <1>5, OneMessage
  <2>2. Len(u) = 0
    BY <1>2, <2>1
  <2> QED BY <1>2, <1>3, <2>2
<1>6. CASE s = <<x>>
  <2>1. Len(u) = 0 \/ Len(u) = 1
    BY <1>1, <1>2
  <2> QED BY <1>2, <1>3, <1>4, <1>6, <2>1
<1> QED BY <1>5, <1>6

(* A connection breaks: what arrives keeps its order.                      *)
LEMMA BreakSound ==
  ASSUME FlowInv, Quiet' => Quiet, NEW c \in Clients, Break(c)
  PROVE  Lists' /\ \A d \in Clients : Sound(d)'
<1>1. ~ Quiet'
  <2>1. faults \in Nat
    BY TransferAssumption DEF FlowInv, TransferInv, Threads
  <2>2. faults' = faults + 1
    BY DEF Break, Fault
  <2> QED BY <2>1, <2>2 DEF Quiet
<1>2. /\ UNCHANGED <<period, svc, feature, package, left, stage, builder, cause, taken>>
      /\ broken' = broken \cup {c} /\ ~ gone(c)
  BY DEF Break, service, client
<1>3. Lists /\ Sound(c) /\ toClient[c] \in Seq(Msgs)
  BY DEF FlowInv, Lists
<1>4. PICK down \in Torn(toClient[c]), up \in Torn(toService[c]) :
        /\ toClient' = [toClient EXCEPT ![c] = down]
        /\ toService' = [toService EXCEPT ![c] = up]
  BY DEF Break
<1>5. /\ down \in Seq(Msgs) /\ Len(down) \in Nat /\ Len(down) <= Len(toClient[c])
      /\ Thins(down, toClient[c])
  BY <1>3, TornThins
<1>6. /\ toClient' \in [Clients -> Seq(Msgs)] /\ toClient'[c] = down
      /\ \A d \in Clients \ {c} : toClient'[d] = toClient[d]
  BY <1>3, <1>4, <1>5, ListUpdated DEF Lists
<1>7. /\ toService' = [d \in Clients |-> toService'[d]] /\ toService'[c] = up
      /\ \A d \in Clients \ {c} : toService'[d] = toService[d]
  BY <1>3, <1>4, Updated DEF Lists
<1>8. up = <<>> \/ up = toService[c]
  <2>1. toService[c] \in {<<>>, <<"SnapshotReq">>, <<"SyncSignalRep">>}
    BY <1>3 DEF Sound, Turns
  <2>2. PICK s : s = toService[c]
    OBVIOUS
  <2>3. s = <<>> \/ s = <<"SnapshotReq">> \/ s = <<"SyncSignalRep">>
    BY <2>1, <2>2
  <2>4. up \in Torn(s)
    BY <2>2
  <2> QED BY <2>2, <2>3, <2>4, TornOne
<1>9. Lists'
  BY <1>2, <1>3, <1>6, <1>7 DEF Lists
<1>10. ASSUME NEW d \in Clients \ {c} PROVE Sound(d)'
  <2>1. Same(d)
    BY <1>2, <1>6, <1>7 DEF Same
  <2> QED BY <1>2, <2>1, SameSound DEF FlowInv
<1>11. gone(c)' <=> gone(c)
  BY <1>2 DEF gone
<1> HIDE DEF gone
<1>12. PICK n \in Nat : n = Len(toClient[c])
  BY <1>3, ListSet
<1>13. down # <<>> => toClient[c] # <<>>
  <2>1. toClient[c] = <<>> => Len(down) = 0
    BY <1>5, OneMessage
  <2>2. \A v \in Seq(Msgs) : Len(v) = 0 => v = <<>>
    OBVIOUS
  <2> QED BY <1>5, <2>1, <2>2
<1>14. Turns(c)'
  <2>1. n <= period + 2 /\ period \in Nat
    BY <1>3, <1>12, TransferAssumption DEF Sound, Turns, FlowInv, TransferInv, Threads
  <2>2. Len(down) <= period + 2
    BY <1>5, <1>12, <2>1
  <2>3. toService'[c] \in {<<>>, <<"SnapshotReq">>, <<"SyncSignalRep">>}
    BY <1>3, <1>7, <1>8 DEF Sound, Turns
  <2>4. toClient'[c] # <<>> => toService'[c] = <<>> /\ ~ gone(c)'
    <3>1. down # <<>> => toService[c] = <<>>
      BY <1>3, <1>13 DEF Sound, Turns
    <3> QED BY <1>2, <1>6, <1>7, <1>8, <1>11, <3>1
  <2>5. Len(toClient'[c]) <= period' + 2
    BY <1>2, <1>6, <2>2
  <2> QED BY <2>3, <2>4, <2>5 DEF Turns
<1>15. Paced(c)'
  <2>1. PICK f : /\ \A i \in 1..Len(down) : f[i] \in 1..n /\ down[i] = toClient[c][f[i]]
                 /\ \A i, j \in 1..Len(down) : i < j => f[i] < f[j]
    BY <1>5, <1>12 DEF Thins
  <2>2. \A i \in 1..n : toClient[c][i] = SyncReq => i = n /\ svc # c
    BY <1>3, <1>12 DEF Sound, Paced, SyncReq
  <2>3. svc = c => n <= 1
    BY <1>3, <1>12 DEF Sound, Paced
  <2>4. ASSUME NEW i \in 1..Len(down), down[i] = SyncReq PROVE i = Len(down) /\ svc # c
    <3>1. f[i] = n /\ svc # c
      BY <2>1, <2>2, <2>4
    <3>2. ASSUME i < Len(down) PROVE FALSE
      <4>1. Len(down) \in 1..Len(down)
        BY <1>5
      <4>2. f[Len(down)] \in 1..n /\ f[i] < f[Len(down)]
        BY <2>1, <3>2, <4>1
      <4> QED BY <1>12, <3>1, <4>2
    <3> QED BY <1>5, <3>1, <3>2
  <2>5. svc = c => Len(down) <= 1
    BY <1>5, <1>12, <2>3
  <2> QED BY <1>2, <1>6, <2>4, <2>5 DEF Paced, SyncReq
<1>16. Asking(c)'
  <2>1. <<"SnapshotReq">> # <<>>
    BY OneMessage
  <2>2. toService'[c] = <<"SnapshotReq">> => toService[c] = <<"SnapshotReq">>
    BY <1>7, <1>8, <2>1
  <2>3. toService[c] = <<>> => toService'[c] = <<>>
    BY <1>7, <1>8
  <2> QED BY <1>2, <1>3, <1>11, <2>2, <2>3 DEF Sound, Asking
<1>17. Remains(c)'
  BY <1>2, <1>3 DEF Sound, Remains, Remainder
<1>18. Endings(c)' /\ Following(c)' /\ Lively(c)'
  <2>1. c \in broken'
    BY <1>2
  <2>2. Endings(c)'
    BY <2>1 DEF Endings
  <2>3. Following(c)'
    BY <2>1 DEF Following
  <2>4. Lively(c)'
    BY <1>1 DEF Lively
  <2> QED BY <2>2, <2>3, <2>4
<1>19. Sound(c)'
  BY <1>14, <1>15, <1>16, <1>17, <1>18 DEF Sound
<1> QED BY <1>9, <1>10, <1>19

(* Whatever a client reads whose connection broke.                         *)
LEMMA BrokenPullSound ==
  ASSUME FlowInv, period' = period, broken' = broken, Quiet' => Quiet, NEW c \in broken, pull(c)
  PROVE  Lists' /\ \A d \in Clients : Sound(d)'
<1>1. c \in Clients
  BY DEF FlowInv, TransferInv, Threads
<1>2. stage[c] \in Pulling /\ toClient[c] # <<>>
  BY DEF pull, onReqReadable, pullSnapshotBegin, pullRegionBegin, pullRegionOrFinish, pullRegionBody,
         Reading, Pulling
<1>3. PICK next \in Pulling \cup {"finished", "gaveUp"} :
        /\ \E why : Take(c, next, why)
        /\ \/ toService' = toService
           \/ /\ Head(toClient[c]) = SyncReq /\ next = stage[c]
              /\ toService' = [toService EXCEPT ![c] = Append(@, "SyncSignalRep")]
  <2>1. /\ "SnapshotBegin" \in Pulling /\ "RegionBegin" \in Pulling /\ "RegionBody" \in Pulling
        /\ "RegionOrFinish" \in Pulling
    BY DEF Pulling
  <2>2. CASE onReqReadable(c)
    BY <2>1, <2>2 DEF onReqReadable
  <2>3. CASE pullSnapshotBegin(c)
    BY <2>1, <2>3 DEF pullSnapshotBegin
  <2>4. CASE pullRegionBegin(c)
    BY <2>1, <2>4 DEF pullRegionBegin
  <2>5. CASE pullRegionOrFinish(c)
    BY <1>2, <2>1, <2>5 DEF pullRegionOrFinish, answerSync
  <2>6. CASE pullRegionBody(c)
    BY <1>2, <2>1, <2>6 DEF pullRegionBody, answerSync
  <2> QED BY <2>2, <2>3, <2>4, <2>5, <2>6 DEF pull
<1>3a. PICK why : Take(c, next, why)
  BY <1>3
<1>4. /\ builder' = [d \in Clients |-> builder'[d]]
      /\ \A d \in Clients \ {c} : builder'[d] = builder[d]
  <2>1. builder = [d \in Clients |-> builder[d]]
    BY DEF FlowInv, Lists
  <2>2. builder' = builder \/ \E b : builder' = [builder EXCEPT ![c] = b]
    BY DEF pull, onReqReadable, pullSnapshotBegin, pullRegionBegin, pullRegionOrFinish, pullRegionBody,
           addRegion, addItem, answerSync
  <2> QED BY <1>1, <2>1, <2>2, Updated
<1>5. /\ toService' = [d \in Clients |-> toService'[d]]
      /\ \A d \in Clients \ {c} : toService'[d] = toService[d]
      /\ \/ toService'[c] = toService[c]
         \/ /\ Head(toClient[c]) = SyncReq /\ next = stage[c]
            /\ toService'[c] = Append(toService[c], "SyncSignalRep")
  <2>1. toService = [d \in Clients |-> toService[d]]
    BY DEF FlowInv, Lists
  <2>2. CASE toService' = toService
    BY <2>1, <2>2
  <2>3. CASE /\ Head(toClient[c]) = SyncReq /\ next = stage[c]
             /\ toService' = [toService EXCEPT ![c] = Append(@, "SyncSignalRep")]
    <3>1. toService' = [toService EXCEPT ![c] = Append(toService[c], "SyncSignalRep")]
      BY <2>3
    <3> QED BY <1>1, <2>1, <2>3, <3>1, Updated
  <2> QED BY <1>3, <2>2, <2>3
<1>6. /\ toClient' \in [Clients -> Seq(Msgs)]
      /\ \A d \in Clients \ {c} :
           stage'[d] = stage[d] /\ cause'[d] = cause[d] /\ toClient'[d] = toClient[d]
      /\ UNCHANGED <<table, actor, period, feature, package, svc, left, taken, broken, faults>>
  BY <1>1, <1>2, <1>3a, TakeFacts
<1>7. Lists'
  BY <1>4, <1>5, <1>6 DEF FlowInv, Lists
<1>8. \A d \in Clients \ {c} : Same(d)
  BY <1>4, <1>5, <1>6 DEF Same
<1>9. Sound(c)'
  BY <1>2, <1>3a, <1>5, BrokenTakeSound
<1> QED BY <1>1, <1>7, <1>8, <1>9, OthersSound

-----------------------------------------------------------------------------
(* Every step.                                                             *)

LEMMA NextFlow ==
  ASSUME FlowInv, [Next]_vars
  PROVE  FlowInv'
<1>1. TransferInv' /\ (Quiet' => Quiet)
  BY StepInv, QuietBefore DEF FlowInv
<1>2. CASE Change \/ Stop \/ Stopped \/ UNCHANGED vars
  <2>1. UNCHANGED <<period, broken, service, client, toClient, toService, taken>>
    BY <1>2 DEF Change, Stop, Stopped, vars
  <2> QED BY <1>1, <2>1, SameAll DEF FlowInv
<1>3. CASE onRequest
  <2>1. period' = period /\ broken' = broken
    BY <1>3 DEF onRequest
  <2> QED BY <1>1, <1>3, <2>1, RequestSound DEF FlowInv
<1>4. CASE (\E S \in SUBSET workers : onTimer(S)) \/ onPipeReadable
  <2>1. period' = period /\ broken' = broken
    BY <1>4 DEF onTimer, onPipeReadable
  <2> QED BY <1>1, <1>4, <2>1, DropSound DEF FlowInv
<1>5. ASSUME NEW c \in Clients, onSnapshotReq(c) \/ refuse(c) \/ onBuilt(c) \/ onSyncSignal(c)
      PROVE  FlowInv'
  <2>1. period' = period /\ broken' = broken
    BY <1>5 DEF onSnapshotReq, refuse, onBuilt, onSyncSignal
  <2> QED BY <1>1, <1>5, <2>1, AcceptSound, RefuseSound, BuiltSound, SignalSound DEF FlowInv
<1>6. ASSUME NEW c \in Clients, pull(c)
      PROVE  FlowInv'
  <2>1. period' = period /\ broken' = broken
    BY <1>6 DEF pull, onReqReadable, pullSnapshotBegin, pullRegionBegin, pullRegionOrFinish,
                pullRegionBody, answerSync, Take
  <2>2. CASE c \in broken
    BY <1>1, <1>6, <2>1, <2>2, BrokenPullSound DEF FlowInv
  <2>3. CASE c \notin broken
    BY <1>1, <1>6, <2>1, <2>3, ReqReadSound, BeginReadSound, RegionReadSound, OrFinishReadSound,
       BodyReadSound DEF FlowInv, pull
  <2> QED BY <2>2, <2>3
<1>7. ASSUME NEW c \in Clients,
             start(c) \/ onTimeoutTimer(c) \/ onCallerPipeReadable(c) \/ stop(c)
      PROVE  FlowInv'
  <2>1. period' = period /\ broken' = broken
    BY <1>7 DEF start, onTimeoutTimer, onCallerPipeReadable, stop
  <2> QED BY <1>1, <1>7, <2>1, StartSound, TimeoutSound, CallerSound, StopSound DEF FlowInv
<1>8. ASSUME NEW c \in Clients, Break(c) PROVE FlowInv'
  BY <1>1, <1>8, BreakSound DEF FlowInv
<1> QED BY <1>2, <1>3, <1>4, <1>5, <1>6, <1>7, <1>8 DEF Next

-----------------------------------------------------------------------------
(* The properties of the runs.                                             *)

(* The inductive invariant: service and client take turns, what is on its  *)
(* way to a client continues its script, and while nothing is slow or      *)
(* broken there is always something on its way.                            *)
THEOREM TransferFlows == Spec => []FlowInv
<1>1. FlowInv /\ UNCHANGED vars => FlowInv'
  BY NextFlow
<1> QED BY <1>1, InitFlow, NextFlow, PTL DEF Spec

(* Unless its connection broke, a client never meets a message its stage   *)
(* has no place for, but in the snapshot of a table without a region and   *)
(* with periods shorter than two.                                          *)
THEOREM TransferInStep == Spec => []InStep
<1>1. FlowInv => InStep
  BY DEF FlowInv, Sound, Endings, InStep
<1> QED BY <1>1, TransferFlows, PTL

(* While the service lives and nothing is slow or broken no client times   *)
(* out: the two never wait for each other.                                 *)
THEOREM TransferNoStall == Spec => []NoStall
<1>1. FlowInv => NoStall
  BY DEF FlowInv, Sound, Lively, Quiet, NoStall
<1> QED BY <1>1, TransferFlows, PTL

(* No more than a period, its sync signal and the answer to the request is *)
(* on its way to a client, and one message on its way back.                *)
THEOREM TransferOnePeriod == Spec => []OnePeriodInFlight
<1>1. FlowInv => OnePeriodInFlight
  <2>1. SUFFICES ASSUME FlowInv, NEW c \in Clients
                 PROVE  Len(toClient[c]) <= period + 2 /\ Len(toService[c]) <= 1
    BY DEF OnePeriodInFlight
  <2>2. Turns(c)
    BY <2>1 DEF FlowInv, Sound
  <2>3. Len(toService[c]) \in {0, 1}
    BY <2>2, OneMessage DEF Turns
  <2>4. \A n \in {0, 1} : n <= 1
    OBVIOUS
  <2>5. Len(toService[c]) <= 1
    BY <2>3, <2>4
  <2>6. Len(toClient[c]) <= period + 2
    BY <2>2 DEF Turns
  <2> QED BY <2>5, <2>6
<1> QED BY <1>1, TransferFlows, PTL

-----------------------------------------------------------------------------
(* Whatever is lost: what a client is sent comes in the order of its       *)
(* script.                                                                 *)

(* Where the messages of a script stand.                                   *)
LEMMA ScriptPlaces ==
  ASSUME NEW t \in Tables, NEW p \in 1..Len(Script(t)), p > 2, p # Len(Script(t))
  PROVE  \E j \in 1..Len(t) : Offsets(t)[j - 1] < p /\ p <= Offsets(t)[j]
<1> DEFINE off == Offsets(t)
           N == Len(t)
<1>1. /\ off \in [0..N -> Nat] /\ off[0] = 2 /\ Len(Script(t)) = off[N] + 1
      /\ Len(Script(t)) \in Nat
  BY ScriptLayout DEF Layout
<1>2. N \in Nat
  BY TableList
<1> HIDE DEF off, N
<1> DEFINE T == {j \in 0..N : p <= off[j]}
<1>3. T \subseteq Nat /\ T # {}
  <2>1. N \in 0..N /\ off[N] \in Nat
    BY <1>1, <1>2
  <2>2. p <= off[N]
    BY <1>1, <2>1
  <2> QED BY <1>2, <2>1, <2>2
<1>4. PICK j \in T : \A k \in T : j <= k
  BY <1>3, NatLeast
<1>5. j \in 0..N /\ p <= off[j] /\ j # 0
  BY <1>1
<1>6. j - 1 \in 0..N /\ j \in 1..N
  BY <1>2, <1>5
<1>7. j - 1 \notin T
  BY <1>4, <1>6
<1>8. ~ (p <= off[j - 1]) /\ off[j - 1] \in Nat
  BY <1>1, <1>6, <1>7
<1>9. off[j - 1] < p
  BY <1>8
<1> QED BY <1>5, <1>6, <1>9 DEF off, N

(* In the part of a region are its beginning, its items and its end.       *)
LEMMA ScriptBlock ==
  ASSUME NEW t \in Tables, NEW j \in 1..Len(t), NEW p \in Nat,
         Offsets(t)[j - 1] < p, p <= Offsets(t)[j], NEW m, m = Script(t)[p]
  PROVE  \/ p = Offsets(t)[j - 1] + 1 /\ m.type = "RegionBegin" /\ m.of = t[j].region
         \/ p = Offsets(t)[j] /\ m.type = "RegionEnd" /\ m.of = t[j].region
         \/ /\ p < Offsets(t)[j] /\ m.type = "Item"
            /\ m.of \in Items /\ m.of \in ToSet(t[j].items)
<1> DEFINE off == Offsets(t)
<1>1. /\ off \in [0..Len(t) -> Nat]
      /\ off[j] = off[j - 1] + Len(t[j].items) + 2
      /\ Script(t)[off[j - 1] + 1] = Msg("RegionBegin", t[j].region)
      /\ \A k \in 1..Len(t[j].items) :
           Script(t)[off[j - 1] + 1 + k] = Msg("Item", t[j].items[k])
      /\ Script(t)[off[j]] = Msg("RegionEnd", t[j].region)
  BY ScriptLayout DEF Layout
<1>2. t[j].items \in Seq(Items) /\ Len(t[j].items) \in Nat /\ Len(t) \in Nat
  BY TableList
<1>3. PICK a \in Nat : a = off[j - 1]
  <2>1. j - 1 \in 0..Len(t)
    BY <1>2
  <2> QED BY <1>1, <2>1
<1>4. PICK n \in Nat : n = Len(t[j].items)
  BY <1>2
<1>5. off[j] = a + n + 2
  BY <1>1, <1>3, <1>4
<1>6. a < p /\ p <= a + n + 2
  BY <1>3, <1>5
<1>7. CASE p = a + 1
  <2>1. m = Msg("RegionBegin", t[j].region)
    BY <1>1, <1>3, <1>7
  <2>2. m.type = "RegionBegin" /\ m.of = t[j].region
    BY <2>1, TypeOf
  <2> QED BY <1>3, <1>7, <2>2
<1>8. CASE p = a + n + 2
  <2>1. m = Msg("RegionEnd", t[j].region)
    BY <1>1, <1>5, <1>8
  <2>2. m.type = "RegionEnd" /\ m.of = t[j].region
    BY <2>1, TypeOf
  <2> QED BY <1>5, <1>8, <2>2
<1>9. CASE p # a + 1 /\ p # a + n + 2
  <2>1. PICK k \in 1..n : p = a + 1 + k
    <3>1. p - a - 1 \in 1..n /\ p = a + 1 + (p - a - 1)
      BY <1>6, <1>9
    <3> QED BY <3>1
  <2>2. m = Msg("Item", t[j].items[k])
    BY <1>1, <1>3, <1>4, <2>1
  <2>3. m.type = "Item" /\ m.of = t[j].items[k]
    BY <2>2, TypeOf
  <2>4. t[j].items[k] \in Items /\ t[j].items[k] \in ToSet(t[j].items)
    BY <1>2, <1>4 DEF ToSet
  <2>5. p < off[j]
    <3>1. p < a + n + 2
      BY <1>6, <1>9
    <3> QED BY <1>5, <3>1
  <2> QED BY <2>3, <2>4, <2>5
<1> QED BY <1>7, <1>8, <1>9

(* Only the beginning of a region begins one, only its end ends one, and   *)
(* an item is an item.                                                     *)
LEMMA ScriptTypes ==
  ASSUME NEW t \in Tables, NEW p \in Nat, p >= 1, p <= Len(Script(t)), NEW m, m = Script(t)[p]
  PROVE  /\ m.type = "RegionBegin" =>
              \E j \in 1..Len(t) : p = Offsets(t)[j - 1] + 1 /\ m.of = t[j].region
         /\ m.type = "RegionEnd" =>
              \E j \in 1..Len(t) : p = Offsets(t)[j] /\ m.of = t[j].region
         /\ m.type = "Item" => m.of \in Items
<1> DEFINE N == Len(Script(t))
<1>1. /\ N \in Nat /\ Script(t)[N] = Msg("SnapshotEnd", "")
      /\ Script(t)[1] = Rep(0) /\ Script(t)[2] = Msg("SnapshotBegin", "")
  BY ScriptLayout DEF Layout
<1>2. CASE p = 1
  <2>1. m = Msg("SnapshotRep", 0)
    BY <1>1, <1>2 DEF Rep
  <2>2. m.type = "SnapshotRep"
    BY <2>1, TypeOf
  <2> QED BY <2>2
<1>3. CASE p = 2
  <2>1. m = Msg("SnapshotBegin", "")
    BY <1>1, <1>3
  <2>2. m.type = "SnapshotBegin"
    BY <2>1, TypeOf
  <2> QED BY <2>2
<1>4. CASE p = N
  <2>1. m = Msg("SnapshotEnd", "")
    BY <1>1, <1>4
  <2>2. m.type = "SnapshotEnd"
    BY <2>1, TypeOf
  <2> QED BY <2>2
<1> HIDE DEF N
<1>5. CASE p > 2 /\ p # N
  <2>1. p \in 1..Len(Script(t))
    <3>1. N \in Nat /\ p \in Nat /\ p >= 1 /\ p <= N
      BY <1>1 DEF N
    <3>2. p \in 1..N
      BY <3>1
    <3> QED BY <3>2 DEF N
  <2>2. PICK j \in 1..Len(t) : Offsets(t)[j - 1] < p /\ p <= Offsets(t)[j]
    BY <1>5, <2>1, ScriptPlaces DEF N
  <2> QED BY <2>2, ScriptBlock
<1> QED BY <1>2, <1>3, <1>4, <1>5

Notices == {SyncReq, Rep(-1)}

(* What of l is no notice is in the script of t, in its order, behind the  *)
(* first q messages and among the first n.                                 *)
Ordered(l, t, q, n) ==
  \E f :
    /\ \A i \in 1..Len(l) : l[i] \notin Notices =>
         f[i] \in Nat /\ q < f[i] /\ f[i] <= n /\ l[i] = Script(t)[f[i]]
    /\ \A i, j \in 1..Len(l) :
         i < j /\ l[i] \notin Notices /\ l[j] \notin Notices => f[i] < f[j]

LEMMA OrderedNothing ==
  ASSUME NEW t, NEW q, NEW n
  PROVE  Ordered(<<>>, t, q, n)
<1>1. 1..Len(<<>>) = {}
  OBVIOUS
<1> QED BY <1>1 DEF Ordered

LEMMA OrderedMore ==
  ASSUME NEW l, NEW t, NEW q \in Nat, NEW n \in Nat, NEW m \in Nat, n <= m, Ordered(l, t, q, n)
  PROVE  Ordered(l, t, q, m)
<1>1. PICK f :
        /\ \A i \in 1..Len(l) : l[i] \notin Notices =>
             f[i] \in Nat /\ q < f[i] /\ f[i] <= n /\ l[i] = Script(t)[f[i]]
        /\ \A i, j \in 1..Len(l) :
             i < j /\ l[i] \notin Notices /\ l[j] \notin Notices => f[i] < f[j]
  BY DEF Ordered
<1>2. \A x \in Nat : x <= n => x <= m
  OBVIOUS
<1>3. \A i \in 1..Len(l) : l[i] \notin Notices =>
        f[i] \in Nat /\ q < f[i] /\ f[i] <= m /\ l[i] = Script(t)[f[i]]
  BY <1>1, <1>2
<1> QED BY <1>1, <1>3 DEF Ordered

LEMMA OrderedThin ==
  ASSUME NEW l, NEW u, Thins(u, l), NEW t, NEW q, NEW n, Ordered(l, t, q, n),
         Len(l) \in Nat, Len(u) \in Nat
  PROVE  Ordered(u, t, q, n)
<1>1. PICK f :
        /\ \A i \in 1..Len(l) : l[i] \notin Notices =>
             f[i] \in Nat /\ q < f[i] /\ f[i] <= n /\ l[i] = Script(t)[f[i]]
        /\ \A i, j \in 1..Len(l) :
             i < j /\ l[i] \notin Notices /\ l[j] \notin Notices => f[i] < f[j]
  BY DEF Ordered
<1>2. PICK g : /\ \A i \in 1..Len(u) : g[i] \in 1..Len(l) /\ u[i] = l[g[i]]
               /\ \A i, j \in 1..Len(u) : i < j => g[i] < g[j]
  BY DEF Thins
<1> DEFINE h == [i \in 1..Len(u) |-> f[g[i]]]
<1>3. \A i \in 1..Len(u) : h[i] = f[g[i]]
  OBVIOUS
<1> HIDE DEF h
<1>4. \A i \in 1..Len(u) : u[i] \notin Notices =>
        h[i] \in Nat /\ q < h[i] /\ h[i] <= n /\ u[i] = Script(t)[h[i]]
  BY <1>1, <1>2, <1>3
<1>5. \A i, j \in 1..Len(u) :
        i < j /\ u[i] \notin Notices /\ u[j] \notin Notices => h[i] < h[j]
  BY <1>1, <1>2, <1>3
<1> QED BY <1>4, <1>5 DEF Ordered

LEMMA OrderedTail ==
  ASSUME NEW l \in Seq(Msgs), l # <<>>, NEW t, NEW q, NEW n, Ordered(l, t, q, n)
  PROVE  Ordered(Tail(l), t, q, n)
<1>1. /\ Len(l) \in Nat /\ Len(Tail(l)) = Len(l) - 1 /\ Len(l) >= 1
      /\ \A i \in 1..Len(Tail(l)) : i + 1 \in 1..Len(l) /\ Tail(l)[i] = l[i + 1]
  BY TailList, ListSet
<1> DEFINE u == Tail(l)
           g == [i \in 1..Len(u) |-> i + 1]
<1>2. Len(u) \in Nat
  BY <1>1
<1> HIDE DEF u
<1>3. \A i \in 1..Len(u) : g[i] = i + 1 /\ g[i] \in 1..Len(l) /\ u[i] = l[g[i]]
  BY <1>1 DEF u
<1> HIDE DEF g
<1>4. \A i, j \in 1..Len(u) : i < j => g[i] < g[j]
  BY <1>2, <1>3
<1>5. Thins(u, l)
  BY <1>3, <1>4 DEF Thins
<1> QED BY <1>1, <1>2, <1>5, OrderedThin DEF u

(* The head of what is on its way, unless it is a notice, stands somewhere *)
(* in the script, and what follows behind it.                              *)
LEMMA OrderedHead ==
  ASSUME NEW l \in Seq(Msgs), l # <<>>, NEW t, NEW q \in Nat, NEW n \in Nat, Ordered(l, t, q, n),
         Head(l) \notin Notices
  PROVE  \E p \in Nat : /\ q < p /\ p <= n /\ Head(l) = Script(t)[p]
                        /\ Ordered(Tail(l), t, p, n)
<1>1. PICK f :
        /\ \A i \in 1..Len(l) : l[i] \notin Notices =>
             f[i] \in Nat /\ q < f[i] /\ f[i] <= n /\ l[i] = Script(t)[f[i]]
        /\ \A i, j \in 1..Len(l) :
             i < j /\ l[i] \notin Notices /\ l[j] \notin Notices => f[i] < f[j]
  BY DEF Ordered
<1>2. /\ Len(l) \in Nat /\ Len(Tail(l)) = Len(l) - 1 /\ Len(l) >= 1 /\ Head(l) = l[1]
      /\ \A i \in 1..Len(Tail(l)) : i + 1 \in 1..Len(l) /\ Tail(l)[i] = l[i + 1]
  BY TailList, ListSet
<1>3. 1 \in 1..Len(l)
  BY <1>2
<1>4. f[1] \in Nat /\ q < f[1] /\ f[1] <= n /\ Head(l) = Script(t)[f[1]]
  BY <1>1, <1>2, <1>3
<1> DEFINE u == Tail(l)
           h == [i \in 1..Len(u) |-> f[i + 1]]
<1>5. Len(u) \in Nat
  BY <1>2
<1> HIDE DEF u
<1>6. \A i \in 1..Len(u) : h[i] = f[i + 1] /\ i + 1 \in 1..Len(l) /\ u[i] = l[i + 1] /\ 1 < i + 1
  BY <1>2 DEF u
<1> HIDE DEF h
<1>7. \A i \in 1..Len(u) : u[i] \notin Notices =>
        h[i] \in Nat /\ f[1] < h[i] /\ h[i] <= n /\ u[i] = Script(t)[h[i]]
  <2>1. SUFFICES ASSUME NEW i \in 1..Len(u), u[i] \notin Notices
                 PROVE  h[i] \in Nat /\ f[1] < h[i] /\ h[i] <= n /\ u[i] = Script(t)[h[i]]
    OBVIOUS
  <2>2. h[i] = f[i + 1] /\ i + 1 \in 1..Len(l) /\ u[i] = l[i + 1] /\ 1 < i + 1
    BY <1>6
  <2>3. l[1] \notin Notices
    BY <1>2
  <2>4. f[1] < f[i + 1]
    BY <1>1, <1>3, <2>1, <2>2, <2>3
  <2> QED BY <1>1, <2>1, <2>2, <2>4
<1>8. \A i, j \in 1..Len(u) :
        i < j /\ u[i] \notin Notices /\ u[j] \notin Notices => h[i] < h[j]
  <2>1. SUFFICES ASSUME NEW i \in 1..Len(u), NEW j \in 1..Len(u),
                        i < j, u[i] \notin Notices, u[j] \notin Notices
                 PROVE  h[i] < h[j]
    OBVIOUS
  <2>2. i + 1 < j + 1
    BY <1>5, <2>1
  <2> QED BY <1>1, <1>6, <2>1, <2>2
<1>9. Ordered(u, t, f[1], n)
  BY <1>7, <1>8 DEF Ordered
<1> QED BY <1>4, <1>9 DEF u

(* What is sent next goes behind what is on its way.                       *)
LEMMA OrderedConcat ==
  ASSUME NEW l \in Seq(Msgs), NEW a \in Seq(Msgs), NEW t, NEW q \in Nat, NEW n \in Nat, NEW m \in Nat,
         q <= n, n <= m, Ordered(l, t, q, n), Ordered(a, t, n, m)
  PROVE  Ordered(l \o a, t, q, m)
<1>1. PICK f :
        /\ \A i \in 1..Len(l) : l[i] \notin Notices =>
             f[i] \in Nat /\ q < f[i] /\ f[i] <= n /\ l[i] = Script(t)[f[i]]
        /\ \A i, j \in 1..Len(l) :
             i < j /\ l[i] \notin Notices /\ l[j] \notin Notices => f[i] < f[j]
  BY DEF Ordered
<1>2. PICK g :
        /\ \A i \in 1..Len(a) : a[i] \notin Notices =>
             g[i] \in Nat /\ n < g[i] /\ g[i] <= m /\ a[i] = Script(t)[g[i]]
        /\ \A i, j \in 1..Len(a) :
             i < j /\ a[i] \notin Notices /\ a[j] \notin Notices => g[i] < g[j]
  BY DEF Ordered
<1> DEFINE s == l \o a
<1>3. Len(l) \in Nat /\ Len(a) \in Nat
  BY ListSet
<1>4. Len(s) = Len(l) + Len(a)
  BY ConcatList
<1>5. \A i \in 1..Len(l) : s[i] = l[i]
  BY ConcatList
<1>6. \A i \in 1..Len(a) : s[Len(l) + i] = a[i]
  BY ConcatList
<1> HIDE DEF s
<1>7. \A i \in 1..Len(s) : i > Len(l) => i - Len(l) \in 1..Len(a) /\ Len(l) + (i - Len(l)) = i
  BY <1>3, <1>4
<1> DEFINE h == [i \in 1..Len(s) |-> IF i <= Len(l) THEN f[i] ELSE g[i - Len(l)]]
<1>8. \A i \in 1..Len(s) : h[i] = IF i <= Len(l) THEN f[i] ELSE g[i - Len(l)]
  OBVIOUS
<1> HIDE DEF h
<1>9. ASSUME NEW i \in 1..Len(s)
      PROVE  /\ i <= Len(l) => i \in 1..Len(l) /\ h[i] = f[i] /\ s[i] = l[i]
             /\ ~ (i <= Len(l)) => /\ i - Len(l) \in 1..Len(a)
                                   /\ h[i] = g[i - Len(l)] /\ s[i] = a[i - Len(l)]
  <2>1. CASE i <= Len(l)
    <3>1. i \in 1..Len(l)
      BY <1>3, <1>4, <2>1
    <3> QED BY <1>5, <1>8, <2>1, <3>1
  <2>2. CASE ~ (i <= Len(l))
    <3>1. i > Len(l)
      BY <1>3, <1>4, <2>2
    <3>2. i - Len(l) \in 1..Len(a) /\ Len(l) + (i - Len(l)) = i
      BY <1>7, <3>1
    <3>3. s[Len(l) + (i - Len(l))] = a[i - Len(l)]
      BY <1>6, <3>2
    <3> QED BY <1>8, <2>2, <3>2, <3>3
  <2> QED BY <2>1, <2>2
<1>10. ASSUME NEW i \in 1..Len(s), s[i] \notin Notices
       PROVE  /\ h[i] \in Nat /\ q < h[i] /\ h[i] <= m /\ s[i] = Script(t)[h[i]]
              /\ i <= Len(l) => h[i] <= n
              /\ ~ (i <= Len(l)) => n < h[i]
  <2>1. CASE i <= Len(l)
    <3>1. f[i] \in Nat /\ q < f[i] /\ f[i] <= n /\ l[i] = Script(t)[f[i]]
      BY <1>1, <1>9, <1>10, <2>1
    <3> QED BY <1>9, <2>1, <3>1
  <2>2. CASE ~ (i <= Len(l))
    <3>1. PICK k \in 1..Len(a) : k = i - Len(l) /\ h[i] = g[k] /\ s[i] = a[k]
      BY <1>9, <2>2
    <3>2. g[k] \in Nat /\ n < g[k] /\ g[k] <= m /\ a[k] = Script(t)[g[k]]
      BY <1>2, <1>10, <3>1
    <3> QED BY <2>2, <3>1, <3>2
  <2> QED BY <2>1, <2>2
<1>11. ASSUME NEW i \in 1..Len(s), NEW j \in 1..Len(s), i < j, s[i] \notin Notices, s[j] \notin Notices
       PROVE  h[i] < h[j]
  <2>1. CASE j <= Len(l)
    <3>1. i <= Len(l)
      BY <1>3, <1>4, <1>11, <2>1
    <3> QED BY <1>1, <1>9, <1>11, <2>1, <3>1
  <2>2. CASE i <= Len(l) /\ ~ (j <= Len(l))
    BY <1>10, <1>11, <2>2
  <2>3. CASE ~ (i <= Len(l)) /\ ~ (j <= Len(l))
    <3>1. PICK x \in 1..Len(a) : x = i - Len(l) /\ h[i] = g[x] /\ s[i] = a[x]
      BY <1>9, <2>3
    <3>2. PICK y \in 1..Len(a) : y = j - Len(l) /\ h[j] = g[y] /\ s[j] = a[y]
      BY <1>9, <2>3
    <3>3. x < y
      BY <1>3, <1>4, <1>11, <3>1, <3>2
    <3> QED BY <1>2, <1>11, <3>1, <3>2, <3>3
  <2> QED BY <2>1, <2>2, <2>3
<1>12. Ordered(s, t, q, m)
  BY <1>10, <1>11 DEF Ordered
<1> QED BY <1>12 DEF s

-----------------------------------------------------------------------------
(* ... and what a client holds of it.                                      *)

(* x is a region of t, with no item it has not there.                      *)
Fits(x, t) ==
  \E j \in 1..Len(t) :
    x.region = t[j].region /\ ToSet(x.items) \subseteq ToSet(t[j].items)

LEMMA PartsFit == \A b, t : Read!PartOf(b, t) <=> \A i \in 1..Len(b) : Fits(b[i], t)
BY DEF Read!PartOf, Read!ToSet, ToSet, Fits

(* A client that reads a region holds parts of the table and a last region *)
(* with items of it, or has read past its end and will never meet that.    *)
InRegion(t, q, b) ==
  /\ t \in Tables /\ b \in Seq(Blocks) /\ b # <<>>
  /\ \A i \in 1..(Len(b) - 1) : Fits(b[i], t)
  /\ \E j \in 1..Len(t) :
       /\ b[Len(b)].region = t[j].region /\ Offsets(t)[j - 1] < q
       /\ \/ ToSet(b[Len(b)].items) \subseteq ToSet(t[j].items)
          \/ Offsets(t)[j] <= q

(* In the stage s, with the builder b, the last message it read that is no *)
(* notice was message q of the script of t.                                *)
Has(t, q, s, b) ==
  \/ s \in {"Request", "SnapshotBegin", "RegionBegin"} /\ b = <<>>
  \/ s = "RegionBody" /\ InRegion(t, q, b)
  \/ /\ s = "RegionOrFinish"
     /\ t \in Tables /\ b \in Seq(Blocks) /\ b # <<>> /\ Read!PartOf(b, t)

(* It holds parts of the table and begins a region.                        *)
LEMMA BeginsRegion ==
  ASSUME NEW t \in Tables, NEW b \in Seq(Blocks), Read!PartOf(b, t),
         NEW p \in Nat, p >= 1, p <= Len(Script(t)), NEW m, m = Script(t)[p], m.type = "RegionBegin"
  PROVE  InRegion(t, p, Append(b, [region |-> m.of, items |-> <<>>]))
<1> DEFINE x == [region |-> m.of, items |-> <<>>]
           B == Append(b, x)
<1>1. PICK j \in 1..Len(t) : p = Offsets(t)[j - 1] + 1 /\ m.of = t[j].region
  BY ScriptTypes
<1>2. t[j].region \in Regions /\ Len(t) \in Nat
  BY TableList
<1>3. x \in Blocks
  <2>1. <<>> \in Seq(Items)
    OBVIOUS
  <2> QED BY <1>1, <1>2, <2>1 DEF Blocks
<1>4. x.region = t[j].region /\ ToSet(x.items) = {}
  BY <1>1 DEF ToSet
<1> HIDE DEF x
<1>5. /\ B \in Seq(Blocks) /\ Len(B) = Len(b) + 1 /\ B[Len(b) + 1] = x
      /\ \A k \in 1..Len(b) : B[k] = b[k]
  BY <1>3, AppendList
<1>6. Len(b) \in Nat
  BY ListSet
<1> HIDE DEF B
<1>7. Len(B) - 1 = Len(b) /\ B # <<>> /\ B[Len(B)] = x
  <2>1. Len(B) # 0
    BY <1>5, <1>6
  <2> QED BY <1>5, <1>6, <2>1, OneMessage
<1>8. \A i \in 1..(Len(B) - 1) : Fits(B[i], t)
  BY <1>5, <1>7, PartsFit
<1>9. Offsets(t)[j - 1] < p
  <2>1. Offsets(t)[j - 1] \in Nat
    <3>1. j - 1 \in 0..Len(t)
      BY <1>2
    <3> QED BY <3>1, ScriptLayout DEF Layout
  <2> QED BY <1>1, <2>1
<1>10. InRegion(t, p, B)
  BY <1>4, <1>5, <1>7, <1>8, <1>9 DEF InRegion
<1> QED BY <1>10 DEF B, x

(* It reads an item.                                                       *)
LEMMA ReadsItem ==
  ASSUME NEW t, NEW q \in Nat, NEW b, InRegion(t, q, b), NEW p \in Nat, q < p, p <= Len(Script(t)),
         NEW m, m = Script(t)[p], m.type = "Item"
  PROVE  InRegion(t, p, [b EXCEPT ![Len(b)].items = Append(@, m.of)])
<1>1. t \in Tables /\ b \in Seq(Blocks) /\ b # <<>> /\ \A i \in 1..(Len(b) - 1) : Fits(b[i], t)
  BY DEF InRegion
<1>2. PICK j \in 1..Len(t) :
        /\ b[Len(b)].region = t[j].region /\ Offsets(t)[j - 1] < q
        /\ \/ ToSet(b[Len(b)].items) \subseteq ToSet(t[j].items)
           \/ Offsets(t)[j] <= q
  BY DEF InRegion
<1>3. PICK n \in Nat : n = Len(b) /\ n >= 1
  <2>1. Len(b) \in Nat /\ Len(b) # 0
    <3>1. \A u \in Seq(Blocks) : Len(u) = 0 => u = <<>>
      OBVIOUS
    <3> QED BY <1>1, <3>1, ListSet
  <2> QED BY <2>1
<1>4. n \in 1..n /\ b[n] \in Blocks /\ b = [i \in 1..n |-> b[i]]
  BY <1>1, <1>3
<1> DEFINE x == [b[n] EXCEPT !.items = Append(@, m.of)]
           B == [b EXCEPT ![n] = x]
<1>5. m.of \in Items
  <2>1. p >= 1
    OBVIOUS
  <2> QED BY <1>1, <2>1, ScriptTypes
<1>6. x \in Blocks /\ x.region = b[n].region /\ ToSet(x.items) = ToSet(b[n].items) \cup {m.of}
  <2>1. b[n].items \in Seq(Items)
    BY <1>4 DEF Blocks
  <2> DEFINE u == Append(b[n].items, m.of)
  <2>2. /\ u \in Seq(Items) /\ Len(u) = Len(b[n].items) + 1 /\ u[Len(b[n].items) + 1] = m.of
        /\ \A k \in 1..Len(b[n].items) : u[k] = b[n].items[k]
    BY <1>5, <2>1, AppendList
  <2>3. x = [region |-> b[n].region, items |-> u]
    <3>1. \A v : \A y \in Blocks : [y EXCEPT !.items = v] = [region |-> y.region, items |-> v]
      BY DEF Blocks
    <3>2. x = [b[n] EXCEPT !.items = u]
      OBVIOUS
    <3> QED BY <1>4, <3>1, <3>2
  <2> HIDE DEF u, x
  <2>4. ToSet(u) = ToSet(b[n].items) \cup {m.of}
    <3>1. PICK k \in Nat : k = Len(b[n].items)
      BY <2>1, ListSet
    <3>2. DOMAIN u = 1..(k + 1) /\ DOMAIN b[n].items = 1..k
      BY <2>1, <2>2, <3>1
    <3>3. 1..(k + 1) = 1..k \cup {k + 1}
      BY <3>1
    <3>4. \A i \in 1..k : u[i] = b[n].items[i]
      BY <2>2, <3>1
    <3>5. u[k + 1] = m.of
      BY <2>2, <3>1
    <3>6. ToSet(b[n].items) = {b[n].items[i] : i \in 1..k}
      BY <3>2 DEF ToSet
    <3>7. ToSet(u) = {u[i] : i \in (1..k \cup {k + 1})}
      BY <3>2, <3>3 DEF ToSet
    <3> QED BY <3>4, <3>5, <3>6, <3>7
  <2>5. x \in Blocks
    BY <1>4, <2>2, <2>3 DEF Blocks
  <2> QED BY <2>3, <2>4, <2>5
<1> HIDE DEF x
<1>7. B \in Seq(Blocks) /\ Len(B) = n /\ B[n] = x /\ \A i \in 1..(n - 1) : B[i] = b[i]
  <2>1. B = [i \in 1..n |-> IF i = n THEN x ELSE b[i]]
    BY <1>4
  <2>2. \A i \in 1..n : b[i] \in Blocks
    BY <1>1, <1>3
  <2>3. \A i \in 1..n : B[i] \in Blocks
    BY <1>6, <2>1, <2>2
  <2>4. B = [i \in 1..n |-> B[i]] /\ B[n] = x /\ \A i \in 1..(n - 1) : B[i] = b[i]
    BY <1>3, <1>4, <2>1
  <2> HIDE DEF B
  <2>5. B \in Seq(Blocks) /\ Len(B) = n
    BY <1>3, <2>3, <2>4, ListSet
  <2> QED BY <2>4, <2>5
<1>8. [b EXCEPT ![Len(b)].items = Append(@, m.of)] = B
  BY <1>3, <1>4 DEF x
<1> HIDE DEF B
<1>9. \A i \in 1..(Len(B) - 1) : Fits(B[i], t)
  BY <1>1, <1>3, <1>7
<1>10. Offsets(t)[j - 1] \in Nat /\ Offsets(t)[j] \in Nat
  <2>1. j - 1 \in 0..Len(t) /\ j \in 0..Len(t)
    BY <1>1, TableList
  <2> QED BY <1>1, <2>1, ScriptLayout DEF Layout
<1>11. Offsets(t)[j - 1] < p
  BY <1>2, <1>10
<1>12. ToSet(x.items) \subseteq ToSet(t[j].items) \/ Offsets(t)[j] <= p
  <2>1. CASE Offsets(t)[j] <= p
    BY <2>1
  <2>2. CASE ~ (Offsets(t)[j] <= p)
    <3>1. p <= Offsets(t)[j] /\ ~ (Offsets(t)[j] <= q)
      BY <1>10, <2>2
    <3>2. m.of \in ToSet(t[j].items)
      <4>1. "Item" # "RegionBegin" /\ "Item" # "RegionEnd"
        OBVIOUS
      <4> QED BY <1>1, <1>11, <3>1, <4>1, ScriptBlock
    <3> QED BY <1>2, <1>3, <1>6, <3>1, <3>2
  <2> QED BY <2>1, <2>2
<1>13. Len(B) = n /\ B[Len(B)] = x /\ B # <<>>
  <2>1. Len(B) # 0
    BY <1>3, <1>7
  <2> QED BY <1>7, <2>1, OneMessage
<1>14. InRegion(t, p, B)
  BY <1>1, <1>2, <1>3, <1>6, <1>7, <1>9, <1>11, <1>12, <1>13 DEF InRegion
<1> QED BY <1>8, <1>14

(* It reads the end of the region it is in, and has not read past it.      *)
LEMMA EndsRegion ==
  ASSUME NEW t, NEW q \in Nat, NEW b, InRegion(t, q, b), NEW p \in Nat, q < p, p <= Len(Script(t)),
         Script(t)[p] = Msg("RegionEnd", b[Len(b)].region)
  PROVE  t \in Tables /\ b \in Seq(Blocks) /\ b # <<>> /\ Read!PartOf(b, t)
<1>1. t \in Tables /\ b \in Seq(Blocks) /\ b # <<>> /\ \A i \in 1..(Len(b) - 1) : Fits(b[i], t)
  BY DEF InRegion
<1>2. PICK j \in 1..Len(t) :
        /\ b[Len(b)].region = t[j].region
        /\ \/ ToSet(b[Len(b)].items) \subseteq ToSet(t[j].items)
           \/ Offsets(t)[j] <= q
  BY DEF InRegion
<1>3. PICK i \in 1..Len(t) : p = Offsets(t)[i] /\ b[Len(b)].region = t[i].region
  <2>1. PICK m : m = Script(t)[p]
    OBVIOUS
  <2>2. m.type = "RegionEnd" /\ m.of = b[Len(b)].region
    BY <2>1, TypeOf
  <2>3. p >= 1
    OBVIOUS
  <2> QED BY <1>1, <2>1, <2>2, <2>3, ScriptTypes
<1>4. i = j
  BY <1>1, <1>2, <1>3, TablesAssumption
<1>5. ~ (Offsets(t)[j] <= q)
  BY <1>3, <1>4
<1>6. Fits(b[Len(b)], t)
  BY <1>2, <1>5 DEF Fits
<1>7. \A k \in 1..Len(b) : k \in 1..(Len(b) - 1) \/ k = Len(b)
  BY <1>1, ListSet
<1>8. Read!PartOf(b, t)
  BY <1>1, <1>6, <1>7, PartsFit
<1> QED BY <1>1, <1>8

(* Of its script the first n messages have been sent at most.              *)
Bounded(c, n) ==
  /\ n <= Len(Script(taken[c])) /\ (period < 2 => n <= 2)
  /\ toService[c] = <<"SnapshotReq">> => n = 0
  /\ svc = c => n <= 1
  /\ left[c] # <<>> => n + Len(left[c]) <= Len(Script(taken[c]))

Holding(c) ==
  \E q, n \in Nat :
    /\ q <= n /\ Has(taken[c], q, stage[c], builder[c])
    /\ Ordered(toClient[c], taken[c], q, n) /\ Bounded(c, n)

Success(c) ==
  stage[c] \in {"finished", "done"} =>
    taken[c] \in Tables /\ builder[c] # <<>> /\ Read!PartOf(builder[c], taken[c])

(* In periods of one message nobody comes to a region.                     *)
Short(c) ==
  period < 2 => /\ stage[c] \notin {"RegionBody", "RegionOrFinish", "finished", "done"}
                /\ toService[c] # <<"SyncSignalRep">>

Held(c) == Success(c) /\ Short(c) /\ (~ gone(c) => Holding(c))

HeldInv == FlowInv /\ \A c \in Clients : Held(c)

(* A step that moves nothing of the client d, or lets its worker or its    *)
(* message go.                                                             *)
LEMMA KeptHeld ==
  ASSUME NEW d \in Clients, Held(d), period' = period,
         stage'[d] = stage[d], builder'[d] = builder[d], taken'[d] = taken[d],
         toClient'[d] = toClient[d], toService'[d] \in {toService[d], <<>>},
         left'[d] \in {left[d], <<>>}, svc' = d => svc = d
  PROVE  Held(d)'
<1>1. gone(d)' <=> gone(d)
  BY DEF gone
<1> HIDE DEF gone
<1>2. \A x : <<x>> # <<>>
  OBVIOUS
<1>3. /\ toService'[d] = <<"SnapshotReq">> => toService[d] = <<"SnapshotReq">>
      /\ toService'[d] = <<"SyncSignalRep">> => toService[d] = <<"SyncSignalRep">>
  BY <1>2
<1>4. left'[d] # <<>> => left'[d] = left[d]
  OBVIOUS
<1>5. Success(d)' /\ Short(d)'
  BY <1>3 DEF Held, Success, Short
<1>6. ASSUME ~ gone(d)' PROVE Holding(d)'
  <2>1. PICK q \in Nat, n \in Nat :
          /\ q <= n /\ Has(taken[d], q, stage[d], builder[d])
          /\ Ordered(toClient[d], taken[d], q, n) /\ Bounded(d, n)
    BY <1>1, <1>6 DEF Held, Holding
  <2>2. Bounded(d, n)'
    BY <1>3, <1>4, <2>1 DEF Bounded
  <2>3. Has(taken[d], q, stage[d], builder[d])' /\ Ordered(toClient[d], taken[d], q, n)'
    BY <2>1
  <2> QED BY <2>1, <2>2, <2>3 DEF Holding
<1> QED BY <1>5, <1>6 DEF Held

(* A client that gives up or is stopped.                                   *)
LEMMA LeftHeld ==
  ASSUME NEW d \in Clients, Held(d), period' = period, toService'[d] = toService[d],
         stage'[d] \in {"gaveUp", "failed", "stopped"}
  PROVE  Held(d)'
<1>1. gone(d)'
  BY DEF gone, Pulling
<1>2. Success(d)' /\ Short(d)'
  BY DEF Held, Success, Short
<1> QED BY <1>1, <1>2 DEF Held

LEMMA InitHeld ==
  ASSUME Init, NEW c \in Clients
  PROVE  Held(c)
<1>1. stage[c] = "new" /\ toService[c] = <<>>
  BY DEF Init
<1>2. gone(c)
  BY <1>1 DEF gone, Pulling
<1>3. <<"SyncSignalRep">> # <<>>
  OBVIOUS
<1> QED BY <1>1, <1>2, <1>3 DEF Held, Success, Short

LEMMA StartHeld ==
  ASSUME FlowInv, NEW c \in Clients, start(c)
  PROVE  Held(c)'
<1>1. Lists /\ Sound(c)
  BY DEF FlowInv
<1>2. stage[c] = "new" /\ stage'[c] = "Request"
  BY Updated DEF start, FlowInv, TransferInv, Shapes
<1>3. toService'[c] = <<"SnapshotReq">>
  BY <1>1, Updated DEF start, Lists
<1>4. UNCHANGED <<svc, left, builder, toClient, taken, period>>
  BY DEF start, service
<1>5. toClient[c] = <<>> /\ left[c] = <<>> /\ svc # c /\ builder[c] = <<>> /\ taken[c] = NoTable
  BY <1>1, <1>2 DEF Sound, Turns, Asking, gone, Pulling
<1>6. <<"SyncSignalRep">> # <<"SnapshotReq">>
  OBVIOUS
<1>7. Success(c)' /\ Short(c)'
  BY <1>2, <1>3, <1>6 DEF Success, Short
<1>8. Has(taken'[c], 0, stage'[c], builder'[c])
  BY <1>2, <1>4, <1>5 DEF Has
<1>9. Ordered(toClient'[c], taken'[c], 0, 0)
  BY <1>4, <1>5, OrderedNothing
<1>10. Bounded(c, 0)'
  <2>1. Script(NoTable) = <<Rep(0)>>
    BY DEF Script
  <2>2. Len(Script(NoTable)) = 1
    <3> HIDE DEF Rep
    <3> QED BY <2>1, OneMessage
  <2>3. 0 <= Len(Script(taken'[c]))
    BY <1>4, <1>5, <2>2
  <2>4. period \in Nat
    BY TransferAssumption DEF FlowInv, TransferInv, Threads
  <2> QED BY <1>4, <1>5, <2>3, <2>4 DEF Bounded
<1>11. Holding(c)'
  <2>1. 0 \in Nat /\ 0 <= 0
    OBVIOUS
  <2> QED BY <1>8, <1>9, <1>10, <2>1 DEF Holding
<1> QED BY <1>7, <1>11 DEF Held

LEMMA RequestHeld ==
  ASSUME FlowInv, NEW c \in Clients, Held(c), svc = c, onRequest
  PROVE  Held(c)'
<1>1. Sound(c) /\ feature = "asked" /\ table \in Tables
  BY DEF onRequest, FlowInv, TransferInv, Threads
<1>2. UNCHANGED <<stage, builder, toClient, toService, left, svc, period>>
  BY DEF onRequest, client
<1>3. taken'[c] = table
  BY Updated DEF onRequest, FlowInv, TransferInv, Shapes
<1>4. toService[c] = <<>> /\ left[c] = <<>> /\ taken[c] = NoTable /\ taken[c] \notin Tables
  BY <1>1, TransferAssumption DEF Sound, Asking
<1>5. gone(c)' <=> gone(c)
  BY <1>2 DEF gone
<1> HIDE DEF gone
<1>6. Success(c)' /\ Short(c)'
  BY <1>2, <1>4 DEF Held, Success, Short
<1>7. ASSUME ~ gone(c)' PROVE Holding(c)'
  <2>1. PICK q \in Nat, n \in Nat :
          /\ q <= n /\ Has(taken[c], q, stage[c], builder[c])
          /\ Ordered(toClient[c], taken[c], q, n) /\ Bounded(c, n)
    BY <1>5, <1>7 DEF Held, Holding
  <2>2. n <= 1
    BY <2>1 DEF Bounded
  <2>3. Has(table, q, stage[c], builder[c])
    BY <1>4, <2>1 DEF Has, InRegion
  <2>4. Script(NoTable)[1] = Script(table)[1] /\ Len(Script(table)) \in Nat /\ Len(Script(table)) >= 3
    BY <1>1, ScriptLayout DEF Script
  <2>5. Ordered(toClient[c], table, q, n)
    <3>1. PICK f :
            /\ \A i \in 1..Len(toClient[c]) : toClient[c][i] \notin Notices =>
                 f[i] \in Nat /\ q < f[i] /\ f[i] <= n /\ toClient[c][i] = Script(NoTable)[f[i]]
            /\ \A i, j \in 1..Len(toClient[c]) :
                 i < j /\ toClient[c][i] \notin Notices /\ toClient[c][j] \notin Notices => f[i] < f[j]
      BY <1>4, <2>1 DEF Ordered
    <3>2. \A i \in Nat : q < i /\ i <= n => i = 1
      BY <2>2
    <3>3. \A i \in 1..Len(toClient[c]) : toClient[c][i] \notin Notices =>
            f[i] \in Nat /\ q < f[i] /\ f[i] <= n /\ toClient[c][i] = Script(table)[f[i]]
      BY <2>4, <3>1, <3>2
    <3> QED BY <3>1, <3>3 DEF Ordered
  <2>6. Bounded(c, n)'
    <3>1. n <= Len(Script(table))
      BY <2>2, <2>4
    <3> QED BY <1>2, <1>3, <1>4, <2>1, <2>2, <3>1 DEF Bounded
  <2>7. Has(taken[c], q, stage[c], builder[c])' /\ Ordered(toClient[c], taken[c], q, n)'
    BY <1>2, <1>3, <2>3, <2>5
  <2> QED BY <2>1, <2>6, <2>7 DEF Holding
<1> QED BY <1>6, <1>7 DEF Held

(* One message, that is a notice or message n + 1 of the script.           *)
LEMMA OrderedOne ==
  ASSUME NEW x, NEW l, l = <<>> \/ l = <<x>>, NEW t, NEW q \in Nat, NEW n \in Nat,
         x \in Notices \/ (q < n /\ x = Script(t)[n])
  PROVE  Ordered(l, t, q, n)
<1>1. Len(l) \in {0, 1} /\ \A i \in 1..Len(l) : l[i] = x
  BY AtMostOne
<1> DEFINE f == [i \in 1..Len(l) |-> n]
<1>2. \A i \in 1..Len(l) : f[i] = n
  OBVIOUS
<1> HIDE DEF f
<1>3. \A i \in 1..Len(l) : l[i] \notin Notices =>
        f[i] \in Nat /\ q < f[i] /\ f[i] <= n /\ l[i] = Script(t)[f[i]]
  BY <1>1, <1>2
<1>4. \A i, j \in 1..Len(l) : ~ (i < j)
  BY <1>1
<1> QED BY <1>3, <1>4 DEF Ordered

(* What the client that asks holds and was sent: nothing.                  *)
LEMMA AskingHolds ==
  ASSUME FlowInv, NEW c \in Clients, Held(c), ~ gone(c), toService[c] = <<"SnapshotReq">>
  PROVE  /\ taken[c] = NoTable /\ left[c] = <<>> /\ svc # c
         /\ Has(taken[c], 0, stage[c], builder[c])
<1>1. Sound(c)
  BY DEF FlowInv
<1>2. taken[c] = NoTable /\ left[c] = <<>> /\ svc # c
  BY <1>1 DEF Sound, Asking
<1>3. PICK q \in Nat, n \in Nat :
        /\ q <= n /\ Has(taken[c], q, stage[c], builder[c]) /\ Bounded(c, n)
  BY DEF Held, Holding
<1>4. q = 0
  BY <1>3 DEF Bounded
<1> QED BY <1>2, <1>3, <1>4

LEMMA AcceptHeld ==
  ASSUME FlowInv, NEW c \in Clients, Held(c), onSnapshotReq(c)
  PROVE  Held(c)'
<1>1. toService[c] = <<"SnapshotReq">> /\ toClient[c] = <<>> /\ toService'[c] = <<>>
  BY ReceivedFacts DEF onSnapshotReq
<1>2. Send(c, <<Rep(0)>>) /\ UNCHANGED <<left, stage, builder, taken, period>>
  BY DEF onSnapshotReq, client
<1>3. Lists /\ period \in Nat
  BY TransferAssumption DEF FlowInv, TransferInv, Threads
<1>4. <<Rep(0)>> \in Seq(Msgs)
  <2>1. Rep(0) \in Data
    BY DEF Rep, Msg, Data
  <2>2. Rep(0) \in Msgs
    BY <2>1 DEF Msgs
  <2> HIDE DEF Rep
  <2> QED BY <2>2
<1>5. gone(c)' <=> gone(c)
  BY <1>2 DEF gone
<1>6. ~ gone(c) => toClient'[c] = <<Rep(0)>>
  <2>1. ~ gone(c) => toClient'[c] = toClient[c] \o <<Rep(0)>>
    BY <1>2, <1>3, <1>4, SendUpdates
  <2>2. \A u \in Seq(Msgs) : <<>> \o u = u
    OBVIOUS
  <2> HIDE DEF gone, Rep
  <2> QED BY <1>1, <1>4, <2>1, <2>2
<1> HIDE DEF gone
<1>7. <<"SyncSignalRep">> # <<>> /\ <<"SnapshotReq">> # <<>>
  OBVIOUS
<1>8. Success(c)' /\ Short(c)'
  BY <1>1, <1>2, <1>7 DEF Held, Success, Short
<1>9. ASSUME ~ gone(c)' PROVE Holding(c)'
  <2>1. taken[c] = NoTable /\ left[c] = <<>> /\ Has(taken[c], 0, stage[c], builder[c])
    BY <1>1, <1>5, <1>9, AskingHolds
  <2>2. Script(NoTable) = <<Rep(0)>>
    BY DEF Script
  <2> DEFINE m == Rep(0)
  <2>3. Script(NoTable) = <<m>> /\ toClient'[c] = <<m>>
    BY <1>5, <1>6, <1>9, <2>2
  <2> HIDE DEF m
  <2>4. Len(Script(NoTable)) = 1 /\ Script(NoTable)[1] = m
    BY <2>3, OneMessage
  <2>5. Ordered(<<m>>, NoTable, 0, 1)
    <3>1. 0 \in Nat /\ 1 \in Nat /\ 0 < 1
      OBVIOUS
    <3>2. \A x, l, t, q : l = <<x>> /\ q \in Nat /\ q < 1 /\ x = Script(t)[1] => Ordered(l, t, q, 1)
      BY <3>1, OrderedOne
    <3>3. PICK l : l = <<m>>
      OBVIOUS
    <3>4. Ordered(l, NoTable, 0, 1)
      BY <2>4, <3>1, <3>2, <3>3
    <3> QED BY <3>3, <3>4
  <2>6. Ordered(toClient[c], taken[c], 0, 1)'
    BY <1>2, <2>1, <2>3, <2>5
  <2>7. Bounded(c, 1)'
    BY <1>1, <1>2, <1>7, <2>1, <2>4 DEF Bounded
  <2>8. Has(taken[c], 0, stage[c], builder[c])'
    BY <1>2, <2>1
  <2>9. 0 \in Nat /\ 1 \in Nat /\ 0 <= 1
    OBVIOUS
  <2> QED BY <2>6, <2>7, <2>8, <2>9 DEF Holding
<1> QED BY <1>8, <1>9 DEF Held

LEMMA RefuseHeld ==
  ASSUME FlowInv, NEW c \in Clients, Held(c), refuse(c)
  PROVE  Held(c)'
<1>1. toService[c] = <<"SnapshotReq">> /\ toClient[c] = <<>> /\ toService'[c] = <<>>
  BY ReceivedFacts DEF refuse
<1>2. /\ Send(c, <<Rep(-1)>>) \/ UNCHANGED toClient
      /\ UNCHANGED <<left, stage, builder, taken, period, svc>>
  BY DEF refuse, client, service
<1>3. Lists /\ period \in Nat
  BY TransferAssumption DEF FlowInv, TransferInv, Threads
<1>4. <<Rep(-1)>> \in Seq(Msgs)
  <2>1. Rep(-1) \in Data
    BY DEF Rep, Msg, Data
  <2>2. Rep(-1) \in Msgs
    BY <2>1 DEF Msgs
  <2> HIDE DEF Rep
  <2> QED BY <2>2
<1>5. gone(c)' <=> gone(c)
  BY <1>2 DEF gone
<1>6. ~ gone(c) => toClient'[c] = <<Rep(-1)>> \/ toClient'[c] = <<>>
  <2>1. ~ gone(c) => toClient'[c] = toClient[c] \o <<Rep(-1)>> \/ toClient'[c] = toClient[c]
    BY <1>2, <1>3, <1>4, SendUpdates
  <2>2. \A u \in Seq(Msgs) : <<>> \o u = u
    OBVIOUS
  <2> HIDE DEF gone, Rep
  <2> QED BY <1>1, <1>4, <2>1, <2>2
<1> HIDE DEF gone
<1>7. <<"SyncSignalRep">> # <<>> /\ <<"SnapshotReq">> # <<>>
  OBVIOUS
<1>8. Success(c)' /\ Short(c)'
  BY <1>1, <1>2, <1>7 DEF Held, Success, Short
<1>9. ASSUME ~ gone(c)' PROVE Holding(c)'
  <2>1. /\ taken[c] = NoTable /\ left[c] = <<>> /\ svc # c
        /\ Has(taken[c], 0, stage[c], builder[c])
    BY <1>1, <1>5, <1>9, AskingHolds
  <2>1a. PICK m : m = Rep(-1)
    OBVIOUS
  <2>2. m \in Notices
    BY <2>1a DEF Notices
  <2>3. toClient'[c] = <<m>> \/ toClient'[c] = <<>>
    BY <1>5, <1>6, <1>9, <2>1a
  <2>4. Len(Script(NoTable)) = 1
    <3>1. Script(NoTable) = <<Rep(0)>>
      BY DEF Script
    <3> HIDE DEF Rep
    <3> QED BY <3>1, OneMessage
  <2>5. Ordered(toClient[c], taken[c], 0, 0)'
    <3>1. ASSUME NEW l, l = <<>> \/ l = <<m>>, NEW t, NEW q \in Nat PROVE Ordered(l, t, q, q)
      BY <2>2, <3>1, OrderedOne
    <3>2. 0 \in Nat
      OBVIOUS
    <3> QED BY <2>3, <3>1, <3>2
  <2>6. Bounded(c, 0)'
    BY <1>1, <1>2, <1>7, <2>1, <2>4 DEF Bounded
  <2>7. Has(taken[c], 0, stage[c], builder[c])'
    BY <1>2, <2>1
  <2>8. 0 \in Nat /\ 0 <= 0
    OBVIOUS
  <2> QED BY <2>5, <2>6, <2>7, <2>8 DEF Holding
<1> QED BY <1>8, <1>9 DEF Held

(* What is sent of s goes behind the first x messages.                     *)
LEMMA SentOrdered ==
  ASSUME period \in Nat, NEW s \in Seq(Data), NEW a \in Seq(Msgs), NEW r \in Seq(Data), NEW t,
         NEW x \in Nat, Sends(a, s, r), Leaves(s, r), \A i \in 1..Len(s) : s[i] = Script(t)[x + i]
  PROVE  \E y \in Nat : /\ x <= y /\ y <= x + Len(s) /\ y <= x + period
                        /\ r # <<>> => y + Len(r) = x + Len(s)
                        /\ Ordered(a, t, x, y)
<1>1. PICK n \in Nat : n = Len(s)
  BY ListSet
<1>2. PICK y \in Nat : y = x + (IF period < n THEN period ELSE n)
  OBVIOUS
<1>3. x <= y /\ y <= x + n /\ y <= x + period
  BY <1>2
<1>4. r # <<>> => y + Len(r) = x + n
  <2>1. SUFFICES ASSUME r # <<>> PROVE y + Len(r) = x + n
    OBVIOUS
  <2>2. PICK k \in Nat : k = Len(r)
    BY ListSet
  <2>3. k # 0
    <3>1. \A u \in Seq(Data) : Len(u) = 0 => u = <<>>
      OBVIOUS
    <3> QED BY <2>1, <2>2, <3>1
  <2>4. k = n - period
    BY <1>1, <2>1, <2>2 DEF Leaves
  <2>5. y + k = x + n
    BY <1>2, <2>3, <2>4
  <2> QED BY <2>2, <2>5
<1> DEFINE f == [i \in 1..Len(a) |-> x + i]
<1>5. \A i \in 1..Len(a) : f[i] = x + i
  OBVIOUS
<1> HIDE DEF f
<1>6. Len(a) \in Nat
  BY ListSet
<1>7. ASSUME NEW i \in 1..Len(a), a[i] \notin Notices
      PROVE  f[i] \in Nat /\ x < f[i] /\ f[i] <= y /\ a[i] = Script(t)[f[i]]
  <2>1. a[i] # SyncReq
    BY <1>7 DEF Notices
  <2>2. i <= n /\ i <= period /\ a[i] = s[i]
    BY <1>1, <2>1 DEF Sends
  <2>3. i \in 1..n
    BY <1>6, <2>2
  <2>4. s[i] = Script(t)[x + i]
    BY <1>1, <2>3
  <2>5. x + i \in Nat /\ x < x + i /\ x + i <= y
    BY <1>2, <2>2, <2>3
  <2> QED BY <1>5, <2>2, <2>4, <2>5
<1>8. \A i, j \in 1..Len(a) : i < j => f[i] < f[j]
  BY <1>5, <1>6
<1>9. Ordered(a, t, x, y)
  BY <1>7, <1>8 DEF Ordered
<1>10. y <= x + Len(s) /\ (r # <<>> => y + Len(r) = x + Len(s))
  BY <1>1, <1>3, <1>4
<1> QED BY <1>3, <1>9, <1>10

(* A period is sent, of the messages s after the first x.                  *)
LEMMA SendHeld ==
  ASSUME FlowInv, NEW c \in Clients, Held(c), NEW s \in Seq(Data), s # <<>>, sendItems(c, s),
         NEW x \in Nat, taken[c] \in Tables, x + Len(s) = Len(Script(taken[c])),
         \A i \in 1..Len(s) : s[i] = Script(taken[c])[x + i],
         ~ gone(c) => \A n \in Nat : Bounded(c, n) => n <= x,
         period < 2 => x <= 1,
         period' = period, stage'[c] = stage[c], builder'[c] = builder[c], taken'[c] = taken[c],
         toService'[c] = <<>>, svc' # c
  PROVE  Held(c)'
<1>1. Lists /\ period \in Nat /\ faults \in Nat
  BY TransferAssumption DEF FlowInv, TransferInv, Threads
<1>2. gone(c)' <=> gone(c)
  BY DEF gone
<1>3. <<"SyncSignalRep">> # <<>> /\ <<"SnapshotReq">> # <<>>
  OBVIOUS
<1>4. Success(c)' /\ Short(c)'
  BY <1>3 DEF Held, Success, Short
<1> HIDE DEF gone
<1>5. ASSUME ~ gone(c)' PROVE Holding(c)'
  <2>1. PICK q \in Nat, n \in Nat :
          /\ q <= n /\ Has(taken[c], q, stage[c], builder[c])
          /\ Ordered(toClient[c], taken[c], q, n) /\ Bounded(c, n)
    BY <1>2, <1>5 DEF Held, Holding
  <2>2. n <= x
    BY <1>2, <1>5, <2>1
  <2>3. /\ left' \in [Clients -> Seq(Data)] /\ Leaves(s, left'[c])
        /\ \E a \in Seq(Msgs) : /\ Sends(a, s, left'[c])
                                /\ ~ gone(c) => toClient'[c] = toClient[c] \o a
    BY <1>1, Sendings
  <2>4. PICK a \in Seq(Msgs) : Sends(a, s, left'[c]) /\ toClient'[c] = toClient[c] \o a
    BY <1>2, <1>5, <2>3
  <2>5. PICK r \in Seq(Data) : r = left'[c]
    BY <2>3
  <2>6. PICK y \in Nat : /\ x <= y /\ y <= x + Len(s) /\ y <= x + period
                         /\ r # <<>> => y + Len(r) = x + Len(s)
                         /\ Ordered(a, taken[c], x, y)
    BY <1>1, <2>3, <2>4, <2>5, SentOrdered
  <2>7. toClient[c] \in Seq(Msgs)
    BY <1>1 DEF Lists
  <2>8. Ordered(toClient[c], taken[c], q, x)
    BY <2>1, <2>2, OrderedMore
  <2>9. q <= x /\ q <= y
    BY <2>1, <2>2, <2>6
  <2>10. Ordered(toClient[c] \o a, taken[c], q, y)
    BY <2>6, <2>7, <2>8, <2>9, OrderedConcat
  <2>11. Ordered(toClient[c], taken[c], q, y)'
    BY <2>4, <2>10
  <2>12. period < 2 => y <= 2
    <3>1. period < 2 => x <= 1 /\ period <= 1
      BY <1>1
    <3> QED BY <1>1, <2>6, <3>1
  <2>13. Bounded(c, y)'
    BY <1>3, <2>5, <2>6, <2>12 DEF Bounded
  <2>14. Has(taken[c], q, stage[c], builder[c])'
    BY <2>1
  <2> QED BY <2>9, <2>11, <2>13, <2>14 DEF Holding
<1> QED BY <1>4, <1>5 DEF Held

LEMMA BuiltHeld ==
  ASSUME FlowInv, NEW c \in Clients, Held(c), onBuilt(c)
  PROVE  Held(c)'
<1>1. /\ svc = c /\ feature = "answered" /\ svc' = "loop" /\ sendItems(c, package)
      /\ UNCHANGED <<stage, builder, toService, taken, period>>
  BY DEF onBuilt, client
<1>2. Sound(c) /\ "loop" \notin Clients
  BY TransferAssumption DEF FlowInv
<1>3. toService[c] = <<>> /\ taken[c] \in Tables /\ package = buildSnapshot(taken[c])
  BY <1>1, <1>2 DEF Sound, Asking
<1>4. /\ package \in Seq(Data) /\ Len(Script(taken[c])) = Len(package) + 1
      /\ Len(Script(taken[c])) >= 3
      /\ \A i \in 1..Len(package) : Script(taken[c])[i + 1] = package[i]
  BY <1>3, ScriptLayout
<1>5. package # <<>> /\ 1 + Len(package) = Len(Script(taken[c]))
      /\ \A i \in 1..Len(package) : package[i] = Script(taken[c])[1 + i]
  <2>1. Len(package) \in Nat /\ \A i \in 1..Len(package) : i + 1 = 1 + i
    BY <1>4
  <2>2. Len(package) # 0
    BY <1>4, <2>1
  <2>3. package # <<>>
    BY <2>2, OneMessage
  <2> QED BY <1>4, <2>1, <2>3
<1>6. PICK s \in Seq(Data) : s = package
  BY <1>4
<1>7. PICK x \in Nat : x = 1
  OBVIOUS
<1>8. /\ s # <<>> /\ sendItems(c, s) /\ x + Len(s) = Len(Script(taken[c]))
      /\ \A i \in 1..Len(s) : s[i] = Script(taken[c])[x + i]
  BY <1>1, <1>5, <1>6, <1>7
<1>9. /\ \A n \in Nat : Bounded(c, n) => n <= x
      /\ x <= 1
  BY <1>1, <1>7 DEF Bounded
<1>10. /\ period' = period /\ stage'[c] = stage[c] /\ builder'[c] = builder[c]
       /\ taken'[c] = taken[c] /\ toService'[c] = <<>> /\ svc' # c
  BY <1>1, <1>2, <1>3
<1> HIDE DEF gone
<1> QED BY <1>3, <1>8, <1>9, <1>10, SendHeld

LEMMA SignalHeld ==
  ASSUME FlowInv, NEW c \in Clients, Held(c), onSyncSignal(c)
  PROVE  Held(c)'
<1>1. /\ svc # c /\ toService[c] = <<"SyncSignalRep">> /\ toService'[c] = <<>>
  BY ReceivedFacts DEF onSyncSignal
<1>2. UNCHANGED <<svc, stage, builder, taken, period>>
  BY DEF onSyncSignal, client
<1>3. Lists /\ Sound(c) /\ period \in Nat
  BY TransferAssumption DEF FlowInv, TransferInv, Threads
<1>4. CASE left[c] # <<>>
  <2>1. sendItems(c, left[c])
    BY <1>4 DEF onSyncSignal, workers
  <2>2. taken[c] \in Tables /\ Remainder(left[c], taken[c])
    BY <1>3, <1>4 DEF Sound, Remains
  <2>3. PICK s \in Seq(Data) : s = left[c]
    BY <1>3 DEF Lists
  <2>4. PICK k \in Nat : k = Len(s)
    BY ListSet
  <2>5. PICK N \in Nat : N = Len(Script(taken[c]))
    BY <2>2, ScriptLayout
  <2>6. /\ k + period + 1 <= N
        /\ \A i \in 1..k : s[i] = Script(taken[c])[N - k + i]
    BY <2>2, <2>3, <2>4, <2>5 DEF Remainder
  <2>7. PICK x \in Nat : x = N - k
    <3>1. N - k \in Nat
      BY <1>3, <2>6
    <3> QED BY <3>1
  <2>8. /\ s # <<>> /\ sendItems(c, s) /\ x + Len(s) = Len(Script(taken[c]))
        /\ \A i \in 1..Len(s) : s[i] = Script(taken[c])[x + i]
    <3>1. x + k = N
      BY <2>7
    <3> QED BY <1>4, <2>1, <2>3, <2>4, <2>5, <2>6, <2>7, <3>1
  <2>9. ASSUME NEW n \in Nat, Bounded(c, n) PROVE n <= x
    <3>1. n + k <= N
      BY <1>4, <2>3, <2>4, <2>5, <2>9 DEF Bounded
    <3> QED BY <2>7, <3>1
  <2>10. period >= 2
    BY <1>1, <1>3 DEF Held, Short
  <2>11. ~ (period < 2)
    BY <1>3, <2>10
  <2>12. /\ period' = period /\ stage'[c] = stage[c] /\ builder'[c] = builder[c]
         /\ taken'[c] = taken[c] /\ svc' # c
    BY <1>1, <1>2
  <2> HIDE DEF gone
  <2> QED BY <1>1, <2>2, <2>8, <2>9, <2>11, <2>12, SendHeld
<1>5. CASE left[c] = <<>>
  <2>1. UNCHANGED <<toClient, left>>
    BY <1>5 DEF onSyncSignal, workers
  <2> QED BY <1>1, <1>2, <2>1, KeptHeld
<1> QED BY <1>4, <1>5

LEMMA CallerHeld ==
  ASSUME FlowInv, NEW c \in Clients, Held(c), onCallerPipeReadable(c)
  PROVE  Held(c)'
<1>1. \/ stage[c] = "finished" /\ stage'[c] = "done"
      \/ stage[c] = "gaveUp" /\ stage'[c] = "failed"
  BY Updated DEF onCallerPipeReadable, FlowInv, TransferInv, Shapes
<1>2. UNCHANGED <<builder, toService, taken, period>>
  BY DEF onCallerPipeReadable
<1>3. gone(c)'
  BY <1>1 DEF gone, Pulling
<1>4. Success(c)' /\ Short(c)'
  BY <1>1, <1>2 DEF Held, Success, Short
<1> QED BY <1>3, <1>4 DEF Held

LEMMA BreakHeld ==
  ASSUME FlowInv, NEW c \in Clients, Break(c), NEW d \in Clients, Held(d)
  PROVE  Held(d)'
<1>1. UNCHANGED <<period, svc, left, stage, builder, taken>> /\ ~ gone(c)
  BY DEF Break, service, client
<1>2. Lists /\ Sound(c) /\ toClient[c] \in Seq(Msgs)
  BY DEF FlowInv, Lists
<1>3. PICK down \in Torn(toClient[c]), up \in Torn(toService[c]) :
        /\ toClient' = [toClient EXCEPT ![c] = down]
        /\ toService' = [toService EXCEPT ![c] = up]
  BY DEF Break
<1>4. /\ down \in Seq(Msgs) /\ Len(down) \in Nat /\ Thins(down, toClient[c])
      /\ Len(toClient[c]) \in Nat
  BY <1>2, <1>3, TornThins, ListSet
<1>5. toClient'[c] = down /\ \A e \in Clients \ {c} : toClient'[e] = toClient[e]
  BY <1>2, <1>3, <1>4, ListUpdated DEF Lists
<1>6. toService'[c] = up /\ \A e \in Clients \ {c} : toService'[e] = toService[e]
  BY <1>2, <1>3, Updated DEF Lists
<1>7. up = <<>> \/ up = toService[c]
  <2>1. toService[c] \in {<<>>, <<"SnapshotReq">>, <<"SyncSignalRep">>}
    BY <1>2 DEF Sound, Turns
  <2>2. PICK s : s = toService[c]
    OBVIOUS
  <2>3. s = <<>> \/ s = <<"SnapshotReq">> \/ s = <<"SyncSignalRep">>
    BY <2>1, <2>2
  <2>4. up \in Torn(s)
    BY <1>3, <2>2
  <2> QED BY <2>2, <2>3, <2>4, TornOne
<1>8. CASE d # c
  <2>1. toClient'[d] = toClient[d] /\ toService'[d] = toService[d]
    BY <1>5, <1>6, <1>8
  <2> QED BY <1>1, <2>1, KeptHeld
<1>9. CASE d = c
  <2>1. gone(c)' <=> gone(c)
    BY <1>1 DEF gone
  <2> HIDE DEF gone
  <2>2. \A x : <<x>> # <<>>
    OBVIOUS
  <2>3. /\ toService'[c] = <<"SnapshotReq">> => toService[c] = <<"SnapshotReq">>
        /\ toService'[c] = <<"SyncSignalRep">> => toService[c] = <<"SyncSignalRep">>
    BY <1>6, <1>7, <2>2
  <2>4. Success(c)' /\ Short(c)'
    BY <1>1, <1>9, <2>3 DEF Held, Success, Short
  <2>5. Holding(c)'
    <3>1. PICK q \in Nat, n \in Nat :
            /\ q <= n /\ Has(taken[c], q, stage[c], builder[c])
            /\ Ordered(toClient[c], taken[c], q, n) /\ Bounded(c, n)
      BY <1>1, <1>9 DEF Held, Holding
    <3>2. Ordered(down, taken[c], q, n)
      BY <1>4, <3>1, OrderedThin
    <3>3. Ordered(toClient[c], taken[c], q, n)'
      BY <1>1, <1>5, <3>2
    <3>4. Bounded(c, n)'
      BY <1>1, <2>3, <3>1 DEF Bounded
    <3>5. Has(taken[c], q, stage[c], builder[c])'
      BY <1>1, <3>1
    <3> QED BY <3>1, <3>3, <3>4, <3>5 DEF Holding
  <2> QED BY <1>9, <2>4, <2>5 DEF Held
<1> QED BY <1>8, <1>9

LEMMA NoNotice ==
  /\ Rep(0) \notin Notices
  /\ \A m : m.type \notin {"SyncSignalReq", "SnapshotRep"} => m \notin Notices
<1>1. Rep(0) # Rep(-1)
  <2>1. 0 # -1
    OBVIOUS
  <2> QED BY <2>1, MsgFacts DEF Rep
<1>2. Rep(0) # SyncReq
  BY MsgFacts DEF Rep, SyncReq
<1>3. SyncReq.type = "SyncSignalReq" /\ Rep(-1).type = "SnapshotRep"
  BY MsgFacts DEF SyncReq, Rep
<1> DEFINE z == Rep(-1)
<1> HIDE DEF z, SyncReq, Msg, Rep
<1>4. \A m : m.type \notin {"SyncSignalReq", "SnapshotRep"} => m # SyncReq /\ m # z
  BY <1>3 DEF z
<1>5. Notices = {SyncReq, z}
  BY DEF Notices, z
<1> QED BY <1>1, <1>2, <1>4, <1>5 DEF z

(* The message a client reads stands in the script behind what it has      *)
(* read, unless it is a notice.                                            *)
LEMMA HeadPlace ==
  ASSUME FlowInv, NEW c \in Clients, Held(c), stage[c] \in Pulling, toClient[c] # <<>>
  PROVE  \E q, n \in Nat :
           /\ q <= n /\ Has(taken[c], q, stage[c], builder[c]) /\ Bounded(c, n)
           /\ Ordered(Tail(toClient[c]), taken[c], q, n)
           /\ Head(toClient[c]) \notin Notices =>
                \E p \in Nat :
                  /\ q < p /\ p <= n /\ p >= 1 /\ p <= Len(Script(taken[c]))
                  /\ Head(toClient[c]) = Script(taken[c])[p]
                  /\ Ordered(Tail(toClient[c]), taken[c], p, n)
<1>1. ~ gone(c)
  BY DEF gone
<1>2. PICK q \in Nat, n \in Nat :
        /\ q <= n /\ Has(taken[c], q, stage[c], builder[c])
        /\ Ordered(toClient[c], taken[c], q, n) /\ Bounded(c, n)
  BY <1>1 DEF Held, Holding
<1>3. toClient[c] \in Seq(Msgs)
  BY DEF FlowInv, Lists
<1>4. Ordered(Tail(toClient[c]), taken[c], q, n)
  BY <1>2, <1>3, OrderedTail
<1>5. ASSUME Head(toClient[c]) \notin Notices
      PROVE  \E p \in Nat :
               /\ q < p /\ p <= n /\ p >= 1 /\ p <= Len(Script(taken[c]))
               /\ Head(toClient[c]) = Script(taken[c])[p]
               /\ Ordered(Tail(toClient[c]), taken[c], p, n)
  <2>1. PICK p \in Nat : /\ q < p /\ p <= n /\ Head(toClient[c]) = Script(taken[c])[p]
                         /\ Ordered(Tail(toClient[c]), taken[c], p, n)
    BY <1>2, <1>3, <1>5, OrderedHead
  <2>2. n <= Len(Script(taken[c]))
    BY <1>2 DEF Bounded
  <2>3. PICK N \in Nat : N = Len(Script(taken[c]))
    <3>1. taken[c] \in Tables \/ taken[c] = NoTable
      BY DEF FlowInv, TransferInv, ClientsOK
    <3>2. Len(Script(NoTable)) = 1
      <4>1. Script(NoTable) = <<Rep(0)>>
        BY DEF Script
      <4> HIDE DEF Rep
      <4> QED BY <4>1, OneMessage
    <3>3. \A t \in Tables : Len(Script(t)) \in Nat
      BY ScriptLayout
    <3>4. 1 \in Nat
      OBVIOUS
    <3>5. Len(Script(taken[c])) \in Nat
      BY <3>1, <3>2, <3>3, <3>4
    <3> QED BY <3>5
  <2>4. p <= N /\ p >= 1
    BY <2>1, <2>2, <2>3
  <2> QED BY <2>1, <2>3, <2>4
<1> QED BY <1>2, <1>4, <1>5

(* What has another message in its script is a table.                      *)
LEMMA ScriptOfTable ==
  ASSUME FlowInv, NEW c \in Clients, NEW p \in Nat, p >= 1, p <= Len(Script(taken[c])),
         NEW m, m = Script(taken[c])[p], m.type # "SnapshotRep"
  PROVE  taken[c] \in Tables
<1>1. taken[c] \in Tables \/ taken[c] = NoTable
  BY DEF FlowInv, TransferInv, ClientsOK
<1>2. ASSUME taken[c] = NoTable PROVE FALSE
  <2>1. PICK r : r = Rep(0)
    OBVIOUS
  <2>2. Script(NoTable) = <<r>>
    BY <2>1 DEF Script
  <2>3. Len(Script(NoTable)) = 1 /\ Script(NoTable)[1] = r
    BY <2>2, OneMessage
  <2>4. p = 1
    BY <1>2, <2>3
  <2>5. m = Msg("SnapshotRep", 0)
    BY <1>2, <2>1, <2>3, <2>4 DEF Rep
  <2>6. m.type = "SnapshotRep"
    BY <2>5, TypeOf
  <2> QED BY <2>6
<1> QED BY <1>1, <1>2

(* A client that has read a message and waits for the next.                *)
LEMMA ReadHeld ==
  ASSUME FlowInv, NEW c \in Clients, Held(c), NEW next, NEW why, Take(c, next, why),
         stage[c] \in Pulling, toClient[c] # <<>>, next \in Pulling,
         NEW p \in Nat, NEW n \in Nat, p <= n, Bounded(c, n),
         Ordered(Tail(toClient[c]), taken[c], p, n), Has(taken[c], p, next, builder'[c]),
         toService'[c] = <<>> \/ toService'[c] = <<"SyncSignalRep">>,
         period < 2 => /\ next \notin {"RegionBody", "RegionOrFinish"}
                       /\ toService'[c] # <<"SyncSignalRep">>
  PROVE  Held(c)'
<1>1. /\ stage'[c] = next /\ UNCHANGED <<period, svc, left, taken>>
      /\ toClient'[c] = IF next \in {"finished", "gaveUp"} THEN <<>> ELSE Tail(toClient[c])
  BY TakeFacts
<1>2. next \notin {"finished", "gaveUp", "done"}
  BY DEF Pulling
<1>3. toClient'[c] = Tail(toClient[c])
  BY <1>1, <1>2
<1>4. <<"SnapshotReq">> # <<>> /\ <<"SnapshotReq">> # <<"SyncSignalRep">>
  OBVIOUS
<1>5. Success(c)' /\ Short(c)'
  BY <1>1, <1>2 DEF Success, Short
<1>6. Bounded(c, n)'
  BY <1>1, <1>4 DEF Bounded
<1>7. Ordered(toClient[c], taken[c], p, n)' /\ Has(taken[c], p, stage[c], builder[c])'
  BY <1>1, <1>3
<1>8. Holding(c)'
  BY <1>6, <1>7 DEF Holding
<1> QED BY <1>5, <1>8 DEF Held

(* A client that gives up, and one that finishes.                          *)
LEMMA EndHeld ==
  ASSUME FlowInv, NEW c \in Clients, Held(c), NEW next, NEW why, Take(c, next, why),
         toClient[c] # <<>>, UNCHANGED <<builder, toService>>,
         \/ next = "gaveUp"
         \/ next = "finished" /\ stage[c] = "RegionOrFinish"
  PROVE  Held(c)'
<1>1. stage'[c] = next /\ UNCHANGED <<period, taken>>
  BY TakeFacts
<1>2. CASE next = "gaveUp"
  BY <1>1, <1>2, LeftHeld
<1>3. CASE next = "finished" /\ stage[c] = "RegionOrFinish"
  <2>1. gone(c)' /\ ~ gone(c)
    BY <1>1, <1>3 DEF gone, Pulling
  <2>2. taken[c] \in Tables /\ builder[c] # <<>> /\ Read!PartOf(builder[c], taken[c])
    BY <1>3, <2>1 DEF Held, Holding, Has
  <2>3. Success(c)'
    BY <1>1, <2>2 DEF Success
  <2>4. Short(c)'
    BY <1>1, <1>3 DEF Held, Short
  <2> QED BY <2>1, <2>3, <2>4 DEF Held
<1> QED BY <1>2, <1>3

LEMMA AnswerHeld ==
  ASSUME FlowInv, NEW c \in Clients, Held(c), answerSync(c), toClient[c] # <<>>,
         stage[c] \in {"RegionBody", "RegionOrFinish"}
  PROVE  Held(c)'
<1>1. /\ Take(c, stage[c], "") /\ UNCHANGED builder
      /\ toService' = [toService EXCEPT ![c] = Append(@, "SyncSignalRep")]
  BY DEF answerSync
<1>2. stage[c] \in Pulling
  BY DEF Pulling
<1>3. toService[c] = <<>> /\ toService = [d \in Clients |-> toService[d]]
  BY DEF FlowInv, Sound, Turns, Lists
<1>4. toService'[c] = <<"SyncSignalRep">>
  <2>1. toService'[c] = Append(toService[c], "SyncSignalRep")
    BY <1>1, <1>3, Updated
  <2>2. Append(<<>>, "SyncSignalRep") = <<"SyncSignalRep">>
    OBVIOUS
  <2> QED BY <1>3, <2>1, <2>2
<1>5. PICK q \in Nat, n \in Nat :
        /\ q <= n /\ Has(taken[c], q, stage[c], builder[c]) /\ Bounded(c, n)
        /\ Ordered(Tail(toClient[c]), taken[c], q, n)
  BY <1>2, HeadPlace
<1>6. ~ (period < 2)
  BY DEF Held, Short
<1>7. Has(taken[c], q, stage[c], builder'[c])
  BY <1>1, <1>5
<1> QED BY <1>1, <1>2, <1>4, <1>5, <1>6, <1>7, ReadHeld

(* The beginning of a region is not among the messages of a period of one. *)
LEMMA BeginPlace ==
  ASSUME FlowInv, NEW t \in Tables, NEW p \in Nat, p >= 1, p <= Len(Script(t)), NEW m, m = Script(t)[p],
         m.type = "RegionBegin"
  PROVE  p > 2
<1>1. PICK j \in 1..Len(t) : p = Offsets(t)[j - 1] + 1
  BY ScriptTypes
<1>2. Len(t) \in Nat /\ Layout(t, Offsets(t))
  BY TableList, ScriptLayout
<1> DEFINE off == Offsets(t)
<1>3. /\ off \in [0..Len(t) -> Nat] /\ off[0] = 2
      /\ \A i \in 1..Len(t) : off[i] = off[i - 1] + Len(t[i].items) + 2
  BY <1>2 DEF Layout
<1>4. \A i \in 1..Len(t) : Len(t[i].items) \in Nat
  BY TableList
<1> HIDE DEF off
<1>5. PICK k \in 0..Len(t) : k = j - 1 /\ off[k] \in Nat
  <2>1. j - 1 \in 0..Len(t)
    BY <1>2
  <2> QED BY <1>3, <2>1
<1>6. off[k] >= 2
  <2>1. CASE k = 0
    BY <1>3, <2>1
  <2>2. CASE k # 0
    <3>1. k \in 1..Len(t) /\ k - 1 \in 0..Len(t)
      BY <1>2, <2>2
    <3>2. off[k - 1] \in Nat /\ Len(t[k].items) \in Nat
      BY <1>3, <1>4, <3>1
    <3>3. off[k] = off[k - 1] + Len(t[k].items) + 2
      BY <1>3, <3>1
    <3>4. \A x, y \in Nat : x + y + 2 >= 2
      OBVIOUS
    <3> QED BY <3>2, <3>3, <3>4
  <2> QED BY <2>1, <2>2
<1>7. p = off[k] + 1
  BY <1>1, <1>5 DEF off
<1> QED BY <1>5, <1>6, <1>7

LEMMA PastTwo == \A x, y \in Nat : x > 2 /\ x <= y => ~ (y <= 2)
OBVIOUS

(* What was read before the first region is part of every table.           *)
LEMMA NothingRead == <<>> \in Seq(Blocks) /\ \A t : Read!PartOf(<<>>, t)
<1>1. <<>> \in Seq(Blocks)
  OBVIOUS
<1>2. 1..Len(<<>>) = {}
  OBVIOUS
<1> QED BY <1>1, <1>2 DEF Read!PartOf

(* A client reads the beginning of a region.                               *)
LEMMA BeginHeld ==
  ASSUME FlowInv, NEW c \in Clients, Held(c), stage[c] \in {"RegionBegin", "RegionOrFinish"},
         toClient[c] # <<>>, Head(toClient[c]).type = "RegionBegin",
         Take(c, "RegionBody", ""), addRegion(c, Head(toClient[c]).of), UNCHANGED toService
  PROVE  Held(c)'
<1>1. stage[c] \in Pulling /\ "RegionBody" \in Pulling
  BY DEF Pulling
<1>2. PICK m : m = Head(toClient[c])
  OBVIOUS
<1>3. m.type = "RegionBegin" /\ m \notin Notices
  <2>1. "RegionBegin" \notin {"SyncSignalReq", "SnapshotRep"}
    OBVIOUS
  <2> QED BY <1>2, <2>1, NoNotice
<1>4. PICK q \in Nat, n \in Nat :
        /\ Has(taken[c], q, stage[c], builder[c]) /\ Bounded(c, n)
        /\ \E p \in Nat :
             /\ q < p /\ p <= n /\ p >= 1 /\ p <= Len(Script(taken[c]))
             /\ m = Script(taken[c])[p]
             /\ Ordered(Tail(toClient[c]), taken[c], p, n)
  BY <1>1, <1>2, <1>3, HeadPlace
<1>5. PICK p \in Nat :
        /\ q < p /\ p <= n /\ p >= 1 /\ p <= Len(Script(taken[c]))
        /\ m = Script(taken[c])[p]
        /\ Ordered(Tail(toClient[c]), taken[c], p, n)
  BY <1>4
<1>6. PICK t \in Tables : t = taken[c]
  <2>1. m.type # "SnapshotRep"
    BY <1>3
  <2> QED BY <1>5, <2>1, ScriptOfTable
<1>7. PICK b \in Seq(Blocks) : b = builder[c] /\ Read!PartOf(b, t)
  <2>1. CASE builder[c] = <<>>
    <3> QED BY <2>1, NothingRead
  <2>2. CASE builder[c] # <<>>
    <3>1. builder[c] \in Seq(Blocks) /\ Read!PartOf(builder[c], t)
      BY <1>4, <1>6, <2>2 DEF Has
    <3> QED BY <3>1
  <2> QED BY <2>1, <2>2
<1>8. InRegion(t, p, Append(b, [region |-> m.of, items |-> <<>>]))
  BY <1>3, <1>5, <1>6, <1>7, BeginsRegion
<1>9. builder'[c] = Append(b, [region |-> m.of, items |-> <<>>])
  BY <1>2, <1>7, Updated DEF addRegion, FlowInv, Lists
<1>10. Has(taken[c], p, "RegionBody", builder'[c])
  BY <1>6, <1>8, <1>9 DEF Has
<1>11. ~ (period < 2)
  <2>1. p > 2
    BY <1>3, <1>5, <1>6, BeginPlace
  <2>2. period < 2 => n <= 2
    BY <1>4 DEF Bounded
  <2>3. ~ (n <= 2)
    <3>1. p > 2 /\ p <= n
      BY <1>5, <2>1
    <3> QED BY <3>1, PastTwo
  <2> QED BY <2>2, <2>3
<1>12. toService'[c] = <<>>
  BY DEF FlowInv, Sound, Turns
<1> QED BY <1>1, <1>4, <1>5, <1>10, <1>11, <1>12, ReadHeld

(* ... an item, ...                                                        *)
LEMMA ItemHeld ==
  ASSUME FlowInv, NEW c \in Clients, Held(c), stage[c] = "RegionBody",
         toClient[c] # <<>>, Head(toClient[c]).type = "Item",
         Take(c, "RegionBody", ""), addItem(c, Head(toClient[c]).of), UNCHANGED toService
  PROVE  Held(c)'
<1>1. stage[c] \in Pulling /\ "RegionBody" \in Pulling
  BY DEF Pulling
<1>2. PICK m : m = Head(toClient[c])
  OBVIOUS
<1>3. m.type = "Item" /\ m \notin Notices
  <2>1. "Item" \notin {"SyncSignalReq", "SnapshotRep"}
    OBVIOUS
  <2> QED BY <1>2, <2>1, NoNotice
<1>4. PICK q \in Nat, n \in Nat :
        /\ Has(taken[c], q, stage[c], builder[c]) /\ Bounded(c, n)
        /\ \E p \in Nat :
             /\ q < p /\ p <= n /\ p >= 1 /\ p <= Len(Script(taken[c]))
             /\ m = Script(taken[c])[p]
             /\ Ordered(Tail(toClient[c]), taken[c], p, n)
  BY <1>1, <1>2, <1>3, HeadPlace
<1>5. PICK p \in Nat :
        /\ q < p /\ p <= n /\ p >= 1 /\ p <= Len(Script(taken[c]))
        /\ m = Script(taken[c])[p]
        /\ Ordered(Tail(toClient[c]), taken[c], p, n)
  BY <1>4
<1>6. PICK b : b = builder[c]
  OBVIOUS
<1>7. InRegion(taken[c], q, b)
  BY <1>4, <1>6 DEF Has
<1>8. InRegion(taken[c], p, [b EXCEPT ![Len(b)].items = Append(@, m.of)])
  BY <1>3, <1>5, <1>7, ReadsItem
<1>9. builder'[c] = [b EXCEPT ![Len(b)].items = Append(@, m.of)]
  BY <1>2, <1>6 DEF addItem, FlowInv, Lists
<1>10. Has(taken[c], p, "RegionBody", builder'[c])
  BY <1>8, <1>9 DEF Has
<1>11. ~ (period < 2)
  BY DEF Held, Short
<1>12. toService'[c] = <<>>
  BY DEF FlowInv, Sound, Turns
<1> QED BY <1>1, <1>4, <1>5, <1>10, <1>11, <1>12, ReadHeld

(* The end of a region has its type.                                       *)
LEMMA EndType == \A x : Msg("RegionEnd", x).type = "RegionEnd"
BY DEF Msg

(* ... or the end of one.                                                  *)
LEMMA RegionEndHeld ==
  ASSUME FlowInv, NEW c \in Clients, Held(c), stage[c] = "RegionBody", toClient[c] # <<>>,
         Head(toClient[c]) = Msg("RegionEnd", builder[c][Len(builder[c])].region),
         Take(c, "RegionOrFinish", ""), UNCHANGED <<builder, toService>>
  PROVE  Held(c)'
<1>1. stage[c] \in Pulling /\ "RegionOrFinish" \in Pulling
  BY DEF Pulling
<1>2. PICK m : m = Head(toClient[c])
  OBVIOUS
<1>3. m \notin Notices
  <2>1. m.type = "RegionEnd"
    <3>1. PICK x : x = builder[c][Len(builder[c])].region
      OBVIOUS
    <3>2. m = Msg("RegionEnd", x)
      BY <1>2, <3>1
    <3> QED BY <3>2, EndType
  <2>2. "RegionEnd" \notin {"SyncSignalReq", "SnapshotRep"}
    OBVIOUS
  <2> QED BY <2>1, <2>2, NoNotice
<1>4. PICK q \in Nat, n \in Nat :
        /\ Has(taken[c], q, stage[c], builder[c]) /\ Bounded(c, n)
        /\ \E p \in Nat :
             /\ q < p /\ p <= n /\ p >= 1 /\ p <= Len(Script(taken[c]))
             /\ m = Script(taken[c])[p]
             /\ Ordered(Tail(toClient[c]), taken[c], p, n)
  BY <1>1, <1>2, <1>3, HeadPlace
<1>5. PICK p \in Nat :
        /\ q < p /\ p <= n /\ p >= 1 /\ p <= Len(Script(taken[c]))
        /\ m = Script(taken[c])[p]
        /\ Ordered(Tail(toClient[c]), taken[c], p, n)
  BY <1>4
<1>6. PICK b : b = builder[c]
  OBVIOUS
<1>7. InRegion(taken[c], q, b)
  BY <1>4, <1>6 DEF Has
<1>8. Script(taken[c])[p] = Msg("RegionEnd", b[Len(b)].region)
  BY <1>2, <1>5, <1>6
<1>9. taken[c] \in Tables /\ b \in Seq(Blocks) /\ b # <<>> /\ Read!PartOf(b, taken[c])
  <2> HIDE DEF Msg
  <2> QED BY <1>5, <1>7, <1>8, EndsRegion
<1>10. Has(taken[c], p, "RegionOrFinish", builder'[c])
  BY <1>6, <1>9 DEF Has
<1>11. ~ (period < 2)
  BY DEF Held, Short
<1>12. toService'[c] = <<>>
  BY DEF FlowInv, Sound, Turns
<1> QED BY <1>1, <1>4, <1>5, <1>10, <1>11, <1>12, ReadHeld

LEMMA PullHeld ==
  ASSUME FlowInv, NEW c \in Clients, Held(c), pull(c)
  PROVE  Held(c)'
<1>1. toClient[c] # <<>> /\ stage[c] \in Pulling
  BY DEF pull, onReqReadable, pullSnapshotBegin, pullRegionBegin, pullRegionOrFinish, pullRegionBody,
         Reading, Pulling
<1>2. /\ "SnapshotBegin" \in Pulling /\ "RegionBegin" \in Pulling
      /\ "RegionBody" \in Pulling /\ "RegionOrFinish" \in Pulling
  BY DEF Pulling
<1>3. PICK m : m = Head(toClient[c])
  OBVIOUS
<1>4. toService[c] = <<>>
  BY <1>1 DEF FlowInv, Sound, Turns
<1>5. <<>> # <<"SyncSignalRep">>
  OBVIOUS
<1>6. ASSUME NEW why, Take(c, "gaveUp", why), UNCHANGED <<builder, toService>> PROVE Held(c)'
  BY <1>1, <1>6, EndHeld
<1>7. ASSUME NEW next \in {"SnapshotBegin", "RegionBegin"}, NEW why, Take(c, next, why),
             stage[c] \in {"Request", "SnapshotBegin"}, UNCHANGED <<builder, toService>>
      PROVE  Held(c)'
  <2>1. PICK q \in Nat, n \in Nat :
          /\ q <= n /\ Has(taken[c], q, stage[c], builder[c]) /\ Bounded(c, n)
          /\ Ordered(Tail(toClient[c]), taken[c], q, n)
    BY <1>1, HeadPlace
  <2>2. Has(taken[c], q, next, builder'[c])
    BY <1>7, <2>1 DEF Has
  <2>3. next \in Pulling /\ next \notin {"RegionBody", "RegionOrFinish"}
    BY <1>2, <1>7
  <2> QED BY <1>1, <1>4, <1>5, <1>7, <2>1, <2>2, <2>3, ReadHeld
<1>8. CASE onReqReadable(c)
  <2>1. /\ stage[c] = "Request" /\ UNCHANGED <<builder, toService>>
        /\ \/ Take(c, "SnapshotBegin", "")
           \/ \E why : Take(c, "gaveUp", why)
    BY <1>8 DEF onReqReadable, Reading
  <2> QED BY <1>6, <1>7, <2>1
<1>9. CASE pullSnapshotBegin(c)
  <2>1. /\ stage[c] = "SnapshotBegin" /\ UNCHANGED <<builder, toService>>
        /\ \/ Take(c, "RegionBegin", "")
           \/ Take(c, "gaveUp", "unexpected")
    BY <1>9 DEF pullSnapshotBegin, Reading
  <2> QED BY <1>6, <1>7, <2>1
<1>10. CASE pullRegionBegin(c)
  <2>1. CASE m.type = "RegionBegin"
    <3>1. /\ stage[c] = "RegionBegin" /\ UNCHANGED toService
          /\ Take(c, "RegionBody", "") /\ addRegion(c, Head(toClient[c]).of)
      BY <1>3, <1>10, <2>1 DEF pullRegionBegin, Reading
    <3> QED BY <1>1, <1>3, <2>1, <3>1, BeginHeld
  <2>2. CASE m.type # "RegionBegin"
    BY <1>3, <1>6, <1>10, <2>2 DEF pullRegionBegin
  <2> QED BY <2>1, <2>2
<1>11. CASE pullRegionOrFinish(c)
  <2>1. stage[c] = "RegionOrFinish"
    BY <1>11 DEF pullRegionOrFinish, Reading
  <2>2. CASE /\ m.type = "RegionBegin" /\ Take(c, "RegionBody", "")
             /\ addRegion(c, m.of) /\ UNCHANGED toService
    <3>1. stage[c] \in {"RegionBegin", "RegionOrFinish"}
      BY <2>1
    <3> QED BY <1>1, <1>3, <2>2, <3>1, BeginHeld
  <2>3. CASE Take(c, "finished", "") /\ UNCHANGED <<builder, toService>>
    BY <1>1, <2>1, <2>3, EndHeld
  <2>4. CASE Take(c, "RegionOrFinish", "unexpected") /\ UNCHANGED <<builder, toService>>
    <3>1. PICK q \in Nat, n \in Nat :
            /\ q <= n /\ Has(taken[c], q, stage[c], builder[c]) /\ Bounded(c, n)
            /\ Ordered(Tail(toClient[c]), taken[c], q, n)
      BY <1>1, HeadPlace
    <3>2. Has(taken[c], q, "RegionOrFinish", builder'[c])
      BY <2>1, <2>4, <3>1
    <3>3. ~ (period < 2)
      BY <2>1 DEF Held, Short
    <3>4. toService'[c] = <<>>
      BY <1>4, <2>4
    <3> QED BY <1>1, <1>2, <2>4, <3>1, <3>2, <3>3, <3>4, ReadHeld
  <2>5. CASE answerSync(c)
    BY <1>1, <2>1, <2>5, AnswerHeld
  <2> QED BY <1>3, <1>11, <2>2, <2>3, <2>4, <2>5 DEF pullRegionOrFinish
<1>12. CASE pullRegionBody(c)
  <2>1. stage[c] = "RegionBody"
    BY <1>12 DEF pullRegionBody, Reading
  <2>2. CASE /\ m.type = "Item" /\ Take(c, "RegionBody", "")
             /\ addItem(c, m.of) /\ UNCHANGED toService
    BY <1>1, <1>3, <2>1, <2>2, ItemHeld
  <2>3. CASE /\ m = Msg("RegionEnd", builder[c][Len(builder[c])].region)
             /\ Take(c, "RegionOrFinish", "") /\ UNCHANGED <<builder, toService>>
    <3> HIDE DEF Msg
    <3> QED BY <1>1, <1>3, <2>1, <2>3, RegionEndHeld
  <2>4. CASE Take(c, "gaveUp", "unexpected") /\ UNCHANGED <<builder, toService>>
    BY <1>6, <2>4
  <2>5. CASE answerSync(c)
    BY <1>1, <2>1, <2>5, AnswerHeld
  <2> QED BY <1>3, <1>12, <2>2, <2>3, <2>4, <2>5 DEF pullRegionBody
<1> QED BY <1>8, <1>9, <1>10, <1>11, <1>12 DEF pull

(* What another client's step leaves alone.                                *)
LEMMA OthersHeld ==
  ASSUME FlowInv, NEW c \in Clients, NEW d \in Clients \ {c}, Held(d),
         \/ onSnapshotReq(c) \/ refuse(c) \/ onBuilt(c) \/ onSyncSignal(c)
         \/ start(c) \/ pull(c) \/ onTimeoutTimer(c) \/ onCallerPipeReadable(c) \/ stop(c)
  PROVE  Held(d)'
<1>1. /\ stage = [e \in Clients |-> stage[e]] /\ taken = [e \in Clients |-> taken[e]]
      /\ left = [e \in Clients |-> left[e]] /\ builder = [e \in Clients |-> builder[e]]
      /\ toService = [e \in Clients |-> toService[e]] /\ toClient = [e \in Clients |-> toClient[e]]
  BY DEF FlowInv, TransferInv, Shapes, Lists
<1>2. ASSUME NEW f, f = [e \in Clients |-> f[e]], NEW v PROVE [f EXCEPT ![c] = v][d] = f[d]
  BY <1>2, Updated
<1>3. period' = period /\ taken' = taken
  BY DEF onSnapshotReq, refuse, onBuilt, onSyncSignal, start, pull, onReqReadable, pullSnapshotBegin,
         pullRegionBegin, pullRegionOrFinish, pullRegionBody, answerSync, Take, onTimeoutTimer,
         onCallerPipeReadable, stop
<1>4. svc' = d => svc = d
  BY TransferAssumption DEF onSnapshotReq, refuse, onBuilt, onSyncSignal, start, pull, onReqReadable,
     pullSnapshotBegin, pullRegionBegin, pullRegionOrFinish, pullRegionBody, answerSync, Take,
     onTimeoutTimer, onCallerPipeReadable, stop, service
<1>5. stage'[d] = stage[d]
  <2>1. UNCHANGED stage \/ \E v : stage' = [stage EXCEPT ![c] = v]
    BY DEF onSnapshotReq, refuse, onBuilt, onSyncSignal, start, pull, onReqReadable,
       pullSnapshotBegin, pullRegionBegin, pullRegionOrFinish, pullRegionBody, answerSync, Take,
       onTimeoutTimer, onCallerPipeReadable, stop, client
  <2> QED BY <1>1, <1>2, <2>1
<1>6. builder'[d] = builder[d]
  <2>1. UNCHANGED builder \/ \E v : builder' = [builder EXCEPT ![c] = v]
    BY DEF onSnapshotReq, refuse, onBuilt, onSyncSignal, start, pull, onReqReadable,
       pullSnapshotBegin, pullRegionBegin, pullRegionOrFinish, pullRegionBody, answerSync,
       addRegion, addItem, onTimeoutTimer, onCallerPipeReadable, stop, client
  <2> QED BY <1>1, <1>2, <2>1
<1>7. toService'[d] = toService[d]
  <2>1. UNCHANGED toService \/ \E v : toService' = [toService EXCEPT ![c] = v]
    BY DEF onSnapshotReq, refuse, onBuilt, onSyncSignal, Received, start, pull, onReqReadable,
       pullSnapshotBegin, pullRegionBegin, pullRegionOrFinish, pullRegionBody, answerSync,
       onTimeoutTimer, onCallerPipeReadable, stop
  <2> QED BY <1>1, <1>2, <2>1
<1>8. left'[d] = left[d]
  <2>1. UNCHANGED left \/ \E v : left' = [left EXCEPT ![c] = v]
    BY DEF onSnapshotReq, refuse, onBuilt, onSyncSignal, sendItems, start, pull, onReqReadable,
       pullSnapshotBegin, pullRegionBegin, pullRegionOrFinish, pullRegionBody, answerSync, Take,
       onTimeoutTimer, onCallerPipeReadable, stop, service
  <2> QED BY <1>1, <1>2, <2>1
<1>9. toClient'[d] = toClient[d]
  <2>1. UNCHANGED toClient \/ \E v : toClient' = [toClient EXCEPT ![c] = v]
    BY DEF onSnapshotReq, refuse, onBuilt, onSyncSignal, sendItems, Send, start, pull, onReqReadable,
       pullSnapshotBegin, pullRegionBegin, pullRegionOrFinish, pullRegionBody, answerSync, Take,
       onTimeoutTimer, onCallerPipeReadable, stop, service
  <2> QED BY <1>1, <1>2, <2>1
<1> QED BY <1>3, <1>4, <1>5, <1>6, <1>7, <1>8, <1>9, KeptHeld

LEMMA NextHeld ==
  ASSUME HeldInv, [Next]_vars
  PROVE  HeldInv'
<1>1. FlowInv /\ FlowInv' /\ \A d \in Clients : Held(d)
  BY NextFlow DEF HeldInv
<1> SUFFICES ASSUME NEW d \in Clients PROVE Held(d)'
  BY <1>1 DEF HeldInv
<1>2. Held(d)
  BY <1>1
<1>3. CASE Change \/ Stop \/ Stopped \/ UNCHANGED vars
  <2>1. UNCHANGED <<period, service, client, toClient, toService, taken>>
    BY <1>3 DEF Change, Stop, Stopped, vars
  <2> QED BY <1>2, <2>1, KeptHeld DEF service, client
<1>4. CASE onRequest
  <2>1. CASE svc = d
    BY <1>1, <1>2, <1>4, <2>1, RequestHeld
  <2>2. CASE svc # d
    <3>1. svc \in Clients
      BY <1>1, <1>4 DEF onRequest, FlowInv, TransferInv, Threads
    <3>2. taken'[d] = taken[d]
      BY <1>1, <1>4, <2>2, <3>1, Updated DEF onRequest, FlowInv, TransferInv, Shapes
    <3> QED BY <1>2, <1>4, <3>2, KeptHeld DEF onRequest, client
  <2> QED BY <2>1, <2>2
<1>5. CASE \E S \in SUBSET workers : onTimer(S)
  <2>1. PICK S \in SUBSET workers : onTimer(S)
    BY <1>5
  <2>2. left'[d] \in {left[d], <<>>}
    BY <2>1 DEF onTimer
  <2>3. UNCHANGED <<period, svc, stage, builder, toClient, toService, taken>>
    BY <2>1 DEF onTimer, client
  <2> QED BY <1>2, <2>2, <2>3, KeptHeld
<1>6. CASE onPipeReadable
  <2>1. left'[d] = <<>> /\ toService'[d] = <<>>
    BY <1>6 DEF onPipeReadable
  <2>2. UNCHANGED <<period, stage, builder, toClient, taken>> /\ svc' = "ended"
    BY <1>6 DEF onPipeReadable, client
  <2>3. svc' # d
    BY <2>2, TransferAssumption
  <2> QED BY <1>2, <2>1, <2>2, <2>3, KeptHeld
<1>7. ASSUME NEW c \in Clients,
             \/ onSnapshotReq(c) \/ refuse(c) \/ onBuilt(c) \/ onSyncSignal(c)
             \/ start(c) \/ pull(c) \/ onTimeoutTimer(c) \/ onCallerPipeReadable(c) \/ stop(c)
      PROVE  Held(d)'
  <2>1. CASE d # c
    <3>1. d \in Clients \ {c}
      BY <2>1
    <3> QED BY <1>1, <1>2, <1>7, <3>1, OthersHeld
  <2>2. CASE d = c
    <3>1. CASE onTimeoutTimer(c) \/ stop(c)
      <4>1. stage'[c] \in {"gaveUp", "failed", "stopped"}
        BY <1>1, <3>1, Updated DEF onTimeoutTimer, stop, FlowInv, TransferInv, Shapes
      <4>2. UNCHANGED <<period, toService>>
        BY <3>1 DEF onTimeoutTimer, stop
      <4> QED BY <1>2, <2>2, <4>1, <4>2, LeftHeld
    <3>2. CASE onSnapshotReq(c) \/ refuse(c) \/ onBuilt(c) \/ onSyncSignal(c)
      BY <1>1, <1>2, <2>2, <3>2, AcceptHeld, RefuseHeld, BuiltHeld, SignalHeld
    <3>3. CASE start(c) \/ pull(c) \/ onCallerPipeReadable(c)
      BY <1>1, <1>2, <2>2, <3>3, StartHeld, PullHeld, CallerHeld
    <3> QED BY <1>7, <3>1, <3>2, <3>3
  <2> QED BY <2>1, <2>2
<1>8. ASSUME NEW c \in Clients, Break(c) PROVE Held(d)'
  BY <1>1, <1>2, <1>8, BreakHeld
<1> QED BY <1>3, <1>4, <1>5, <1>6, <1>7, <1>8 DEF Next

(* The inductive invariant of what holds whatever is lost: a client holds  *)
(* parts of the table, and what is on its way keeps the order of the       *)
(* script.                                                                 *)
THEOREM TransferHolds == Spec => []HeldInv
<1>1. Init => HeldInv
  BY InitFlow, InitHeld DEF HeldInv
<1>2. HeldInv /\ [Next]_vars => HeldInv'
  BY NextHeld
<1> QED BY <1>1, <1>2, PTL DEF Spec

(* A client that is told of success was sent a region, in periods of two   *)
(* or more: an empty table, or a period_count of one, never succeeds.      *)
THEOREM TransferSuccess == Spec => []SuccessHasRegions
<1>1. HeldInv => SuccessHasRegions
  <2>1. SUFFICES ASSUME HeldInv, NEW c \in Clients, stage[c] \in {"finished", "done"}
                 PROVE  builder[c] # <<>> /\ period >= 2
    BY DEF SuccessHasRegions
  <2>2. period \in Nat
    BY <2>1, TransferAssumption DEF HeldInv, FlowInv, TransferInv, Threads
  <2>3. builder[c] # <<>> /\ ~ (period < 2)
    BY <2>1 DEF HeldInv, Held, Success, Short
  <2> QED BY <2>2, <2>3
<1> QED BY <1>1, TransferHolds, PTL

-----------------------------------------------------------------------------
(* The abstract specification SnapshotRead.                                *)

End(s) ==
  IF s = "new" THEN "idle"
  ELSE IF s = "done" THEN "done"
  ELSE IF s \in {"failed", "stopped"} THEN "failed"
  ELSE "asked"

Outcomes == [c \in Clients |-> End(stage[c])]

Views == [c \in Clients |-> IF stage[c] = "done" THEN builder[c] ELSE NoTable]

LEMMA ReadVars == Read!vars = <<table, taken, Outcomes, Views, broken>>
BY DEF Read!vars, Outcomes, Views, End

(* Nothing the abstract specification sees happens.                        *)
LEMMA Unseen ==
  ASSUME UNCHANGED <<table, taken, broken>>,
         \A c \in Clients : /\ End(stage'[c]) = End(stage[c])
                            /\ stage[c] = "done" => builder'[c] = builder[c]
  PROVE  UNCHANGED Read!vars
<1>1. \A c \in Clients : stage'[c] = "done" <=> stage[c] = "done"
  BY DEF End
<1>2. Outcomes' = Outcomes
  BY DEF Outcomes
<1>3. Views' = Views
  BY <1>1 DEF Views
<1>4. Read!vars' = Read!vars
  BY <1>2, <1>3 DEF Read!vars, Outcomes, Views, End
<1> QED BY <1>4

(* One client's outcome changes.                                           *)
LEMMA OutcomeOf ==
  ASSUME FlowInv, NEW c \in Clients, NEW s, stage' = [stage EXCEPT ![c] = s]
  PROVE  /\ stage'[c] = s /\ \A d \in Clients \ {c} : stage'[d] = stage[d]
         /\ Outcomes' = [Outcomes EXCEPT ![c] = End(s)]
<1>1. stage'[c] = s /\ \A d \in Clients \ {c} : stage'[d] = stage[d]
  BY Updated DEF FlowInv, TransferInv, Shapes
<1>2. Outcomes' = [d \in Clients |-> IF d = c THEN End(s) ELSE End(stage[d])]
  BY <1>1 DEF Outcomes
<1> QED BY <1>1, <1>2 DEF Outcomes

LEMMA StartAsks ==
  ASSUME FlowInv, NEW c \in Clients, start(c)
  PROVE  Read!Ask(c)
<1>1. stage[c] = "new" /\ stage' = [stage EXCEPT ![c] = "Request"] /\ UNCHANGED <<table, taken, builder, broken>>
  BY DEF start
<1>2. /\ stage'[c] = "Request" /\ \A d \in Clients \ {c} : stage'[d] = stage[d]
      /\ Outcomes' = [Outcomes EXCEPT ![c] = End("Request")]
  BY <1>1, OutcomeOf
<1>3. Outcomes[c] = "idle" /\ Outcomes' = [Outcomes EXCEPT ![c] = "asked"]
  BY <1>1, <1>2 DEF Outcomes, End
<1>4. Views' = Views
  BY <1>1, <1>2 DEF Views
<1> QED BY <1>1, <1>3, <1>4 DEF Read!Ask, Outcomes, Views, End

LEMMA RequestReads ==
  ASSUME FlowInv, onRequest
  PROVE  Read!Next
<1>1. PICK c : c = svc
  OBVIOUS
<1>2. c \in Clients /\ Sound(c) /\ svc = c
  BY <1>1 DEF onRequest, FlowInv, TransferInv, Threads
<1>3. stage[c] # "new" /\ taken[c] = NoTable
  BY <1>2 DEF onRequest, Sound, Asking
<1>4. taken' = [taken EXCEPT ![c] = table] /\ UNCHANGED <<table, stage, builder, broken>>
  BY <1>2 DEF onRequest, client
<1>5. Outcomes' = Outcomes /\ Views' = Views
  BY <1>4 DEF Outcomes, Views
<1>6. Outcomes[c] # "idle"
  BY <1>2, <1>3 DEF Outcomes, End
<1>7. Read!Read(c)
  BY <1>3, <1>4, <1>5, <1>6 DEF Read!Read, Outcomes, Views, End
<1> QED BY <1>2, <1>7 DEF Read!Next

LEMMA CallerTold ==
  ASSUME HeldInv, NEW c \in Clients, onCallerPipeReadable(c)
  PROVE  Read!Done(c) \/ Read!Fail(c)
<1>0. FlowInv
  BY DEF HeldInv
<1>1. UNCHANGED <<table, taken, builder, broken>>
  BY DEF onCallerPipeReadable
<1>2. CASE stage[c] = "finished" /\ stage' = [stage EXCEPT ![c] = "done"]
  <2>1. /\ stage'[c] = "done" /\ \A d \in Clients \ {c} : stage'[d] = stage[d]
        /\ Outcomes' = [Outcomes EXCEPT ![c] = End("done")]
    BY <1>0, <1>2, OutcomeOf
  <2>2. Outcomes[c] = "asked" /\ Outcomes' = [Outcomes EXCEPT ![c] = "done"]
    BY <1>2, <2>1 DEF Outcomes, End
  <2>3. taken[c] # NoTable
    <3>1. taken[c] \in Tables
      BY <1>2 DEF HeldInv, Held, Success
    <3> QED BY <3>1, TransferAssumption
  <2>4. builder[c] = taken[c] \/ (c \in broken /\ Read!PartOf(builder[c], taken[c]))
    <3>1. Sound(c)
      BY <1>0 DEF FlowInv
    <3>2. CASE c \in broken
      BY <1>2, <3>2 DEF HeldInv, Held, Success
    <3>3. CASE c \notin broken
      BY <1>2, <3>1, <3>3 DEF Sound, Endings
    <3> QED BY <3>2, <3>3
  <2>5. Views' = [d \in Clients |-> IF d = c THEN builder[c]
                                    ELSE IF stage[d] = "done" THEN builder[d] ELSE NoTable]
    BY <1>1, <2>1 DEF Views
  <2>6. Views'[c] = builder[c] /\ Views' = [Views EXCEPT ![c] = builder[c]]
    BY <2>5 DEF Views
  <2>7. Views'[c] = Views[c]' /\ UNCHANGED <<table, taken, broken>>
    BY <1>1
  <2>8. Read!Done(c)
    BY <2>2, <2>3, <2>4, <2>6, <2>7 DEF Read!Done, Outcomes, Views, End
  <2> QED BY <2>8
<1>3. CASE stage[c] = "gaveUp" /\ stage' = [stage EXCEPT ![c] = "failed"]
  <2>1. /\ stage'[c] = "failed" /\ \A d \in Clients \ {c} : stage'[d] = stage[d]
        /\ Outcomes' = [Outcomes EXCEPT ![c] = End("failed")]
    BY <1>0, <1>3, OutcomeOf
  <2>2. Outcomes[c] = "asked" /\ Outcomes' = [Outcomes EXCEPT ![c] = "failed"]
    BY <1>3, <2>1 DEF Outcomes, End
  <2>3. Views' = Views
    BY <1>1, <1>3, <2>1 DEF Views
  <2>4. Read!Fail(c)
    BY <1>1, <2>2, <2>3 DEF Read!Fail, Outcomes, Views, End
  <2> QED BY <2>4
<1> QED BY <1>2, <1>3 DEF onCallerPipeReadable

LEMMA StopFails ==
  ASSUME FlowInv, NEW c \in Clients, stop(c)
  PROVE  Read!Fail(c)
<1>1. /\ stage[c] \in Pulling \cup {"finished", "gaveUp"} /\ stage' = [stage EXCEPT ![c] = "stopped"]
      /\ UNCHANGED <<table, taken, builder, broken>>
  BY DEF stop
<1>2. /\ stage'[c] = "stopped" /\ \A d \in Clients \ {c} : stage'[d] = stage[d]
      /\ Outcomes' = [Outcomes EXCEPT ![c] = End("stopped")]
  BY <1>1, OutcomeOf
<1>3. Outcomes[c] = "asked" /\ Outcomes' = [Outcomes EXCEPT ![c] = "failed"]
  BY <1>1, <1>2 DEF Outcomes, End, Pulling
<1>4. Views' = Views
  BY <1>1, <1>2 DEF Views, Pulling
<1> QED BY <1>1, <1>3, <1>4 DEF Read!Fail, Outcomes, Views, End

(* A client that reads, or gives up, has asked and is not told yet.        *)
LEMMA ReadingUnseen ==
  ASSUME FlowInv, NEW c \in Clients, NEW s \in Pulling \cup {"finished", "gaveUp"},
         stage[c] \in Pulling, stage' = [stage EXCEPT ![c] = s],
         \A d \in Clients \ {c} : builder'[d] = builder[d], UNCHANGED <<table, taken, broken>>
  PROVE  UNCHANGED Read!vars
<1>1. stage'[c] = s /\ \A d \in Clients \ {c} : stage'[d] = stage[d]
  BY OutcomeOf
<1>2. End(stage'[c]) = End(stage[c]) /\ stage[c] # "done"
  BY <1>1 DEF End, Pulling
<1> QED BY <1>1, <1>2, Unseen

LEMMA PullUnseen ==
  ASSUME FlowInv, NEW c \in Clients, pull(c) \/ onTimeoutTimer(c)
  PROVE  UNCHANGED Read!vars
<1>1. builder = [d \in Clients |-> builder[d]]
  BY DEF FlowInv, Lists
<1>2. ASSUME NEW r, addRegion(c, r) PROVE \A d \in Clients \ {c} : builder'[d] = builder[d]
  BY <1>1, <1>2, Updated DEF addRegion
<1>3. ASSUME NEW x, addItem(c, x) PROVE \A d \in Clients \ {c} : builder'[d] = builder[d]
  BY <1>1, <1>3, Updated DEF addItem
<1>4. CASE onTimeoutTimer(c)
  <2>1. /\ stage[c] \in Pulling /\ stage' = [stage EXCEPT ![c] = "gaveUp"]
        /\ UNCHANGED <<table, taken, builder, broken>>
    BY <1>4 DEF onTimeoutTimer
  <2> QED BY <2>1, ReadingUnseen
<1>5. CASE pull(c)
  <2>1. \A d \in Clients \ {c} : builder'[d] = builder[d]
    BY <1>2, <1>3, <1>5 DEF pull, onReqReadable, pullSnapshotBegin, pullRegionBegin, pullRegionOrFinish,
       pullRegionBody, answerSync
  <2>2. stage[c] \in Pulling
    BY <1>5 DEF pull, onReqReadable, pullSnapshotBegin, pullRegionBegin, pullRegionOrFinish,
       pullRegionBody, Reading, Pulling
  <2>3. \E next \in Pulling \cup {"finished", "gaveUp"} : \E why : Take(c, next, why)
    BY <1>5, <2>2 DEF pull, onReqReadable, pullSnapshotBegin, pullRegionBegin, pullRegionOrFinish,
       pullRegionBody, answerSync, Pulling
  <2>4. PICK next \in Pulling \cup {"finished", "gaveUp"} : \E why : Take(c, next, why)
    BY <2>3
  <2>5. stage' = [stage EXCEPT ![c] = next] /\ UNCHANGED <<table, taken, broken>>
    BY <2>4 DEF Take
  <2> QED BY <2>1, <2>2, <2>5, ReadingUnseen
<1> QED BY <1>4, <1>5

(* A connection breaks while the client waits.                             *)
LEMMA BreakBreaks ==
  ASSUME FlowInv, NEW c \in Clients, Break(c)
  PROVE  Read!Break(c)
<1>1. stage[c] \in Pulling /\ broken' = broken \cup {c} /\ UNCHANGED <<table, taken, stage, builder>>
  BY DEF Break, gone, client
<1>2. Outcomes[c] = "asked" /\ UNCHANGED <<Outcomes, Views>>
  BY <1>1 DEF Outcomes, Views, End, Pulling
<1> QED BY <1>1, <1>2 DEF Read!Break, Outcomes, Views, End

LEMMA NextReads ==
  ASSUME HeldInv, [Next]_vars
  PROVE  [Read!Next]_(Read!vars)
<1>0. FlowInv
  BY DEF HeldInv
<1>1. ASSUME UNCHANGED <<table, taken, broken, stage, builder>> PROVE UNCHANGED Read!vars
  BY <1>1, Unseen
<1>2. CASE Change
  <2>1. table' \in Tables /\ UNCHANGED <<taken, broken, stage, builder>>
    BY <1>2 DEF Change, client
  <2>2. Outcomes' = Outcomes /\ Views' = Views
    BY <2>1 DEF Outcomes, Views
  <2>3. Read!Change
    BY <2>1, <2>2 DEF Read!Change, Outcomes, Views, End
  <2> QED BY <2>3 DEF Read!Next
<1>3. CASE onRequest
  BY <1>0, <1>3, RequestReads
<1>4. CASE Stop \/ Stopped \/ onPipeReadable \/ UNCHANGED vars
  <2>1. UNCHANGED <<table, taken, broken, stage, builder>>
    BY <1>4 DEF Stop, Stopped, onPipeReadable, vars, client
  <2> QED BY <1>1, <2>1
<1>5. CASE \E S \in SUBSET workers : onTimer(S)
  <2>1. UNCHANGED <<table, taken, broken, stage, builder>>
    BY <1>5 DEF onTimer, client
  <2> QED BY <1>1, <2>1
<1>6. ASSUME NEW c \in Clients,
             onSnapshotReq(c) \/ refuse(c) \/ onBuilt(c) \/ onSyncSignal(c)
      PROVE  UNCHANGED Read!vars
  <2>1. UNCHANGED <<table, taken, broken, stage, builder>>
    BY <1>6 DEF onSnapshotReq, refuse, onBuilt, onSyncSignal, client
  <2> QED BY <1>1, <2>1
<1>7. ASSUME NEW c \in Clients, start(c) \/ onCallerPipeReadable(c) \/ stop(c) \/ Break(c)
      PROVE  Read!Next
  BY <1>0, <1>7, StartAsks, CallerTold, StopFails, BreakBreaks DEF Read!Next
<1>8. ASSUME NEW c \in Clients, pull(c) \/ onTimeoutTimer(c)
      PROVE  UNCHANGED Read!vars
  BY <1>0, <1>8, PullUnseen
<1> QED BY <1>2, <1>3, <1>4, <1>5, <1>6, <1>7, <1>8 DEF Next

LEMMA InitReads == Init => Read!Init
BY DEF Init, Read!Init

(* A transfer implements an atomic read: a client that is told of success  *)
(* holds the table of one moment after it asked or, if its connection      *)
(* broke, parts of it and nothing else, for any tables, periods, losses.   *)
THEOREM TransferAtomicRead == Spec => AtomicRead
<1>1. Spec => []HeldInv
  BY TransferHolds
<1>2. Init /\ []HeldInv /\ [][Next]_vars => Read!Init /\ [][Read!Next]_(Read!vars)
  BY InitReads, NextReads, PTL
<1> QED BY <1>1, <1>2, PTL DEF Spec, AtomicRead, Read!Spec
=============================================================================

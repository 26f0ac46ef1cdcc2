--------------------------------- MODULE Api ---------------------------------
(***************************************************************************)
(* The request and reply interfaces: RegionSessions that register services *)
(* and payloads with RIRegionActor, TrackerSessions that ask               *)
(* RITrackerActor for routes.  A session is a DEALER socket, so requests   *)
(* and replies of one are queues; a call sends, waits up to its timeout    *)
(* for the socket to become readable and takes whatever reply is first.    *)
(* No reply says which request it answers.  The socket connects again by   *)
(* itself, also to a region that was started anew, and the session does    *)
(* not notice.  A session that is closed does not open again here: a       *)
(* client that connects anew is a new session.  The tracker's table is the *)
(* abstract RouteTable, which TrackerTable and RegionSync implement; it    *)
(* changes at any time.                                                    *)
(***************************************************************************)
EXTENDS Lists

CONSTANTS
  RegionSessions,    \* connections of RegionSessions
  TrackerSessions,   \* connections of TrackerSessions
  Regions,           \* the regions the tracker may know
  Services,          \* service names
  Payloads,          \* payload ids
  NoRegion,          \* no route
  NoAnswer,          \* the last call has returned nothing, or not yet
  MaxCalls,          \* bound: requests of all sessions
  MaxBreaks          \* bound: connections that break, restarts of the region

ASSUME ApiAssumption ==
  /\ RegionSessions \cap TrackerSessions = {}
  /\ MaxCalls \in Nat /\ MaxBreaks \in Nat

VARIABLES
  services, payloads, version,   \* RIRegionTable
  known, tsvc, owner,            \* RITrackerTable
  phase,      \* of a session: "new", "idle", "waiting" or "closed"
  requests,   \* on the way to the actor
  replies,    \* and back
  call,       \* the last request that wants a reply
  late,       \* calls of the session that timed out
  answer,     \* the reply the last call returned something from
  seen,       \* the last version a RegionSession returned, and its region's run
  run,        \* history: how often the region was restarted
  since,      \* history: what the table would have answered during the call
  calls,      \* requests so far
  breaks      \* breaks so far

Sessions == RegionSessions \cup TrackerSessions

regionTable == <<services, payloads, version>>
trackerTable == <<known, tsvc, owner>>
wire == <<requests, replies>>
session == <<phase, call, late, answer, seen>>
vars == <<regionTable, trackerTable, wire, session, run, since, calls, breaks>>

Table == INSTANCE RouteTable

(* Replies carry the number of their call and the region's run, which no   *)
(* message does: both are for the properties.  A request without a number  *)
(* wants no reply.                                                         *)
Request(op, arg, id) == [op |-> op, arg |-> arg, rep |-> id # 0, id |-> id]

Init ==
  /\ services = {} /\ payloads = {} /\ version = 0
  /\ Table!Init
  /\ phase = [s \in Sessions |-> "new"]
  /\ requests = [s \in Sessions |-> <<>>]
  /\ replies = [s \in Sessions |-> <<>>]
  /\ call = [s \in Sessions |-> Request("none", <<>>, 0)]
  /\ late = [s \in Sessions |-> 0]
  /\ answer = [s \in Sessions |-> NoAnswer]
  /\ seen = [s \in RegionSessions |-> [run |-> 0, version |-> 0]]
  /\ run = 0
  /\ since = [s \in TrackerSessions |-> {}]
  /\ calls = 0 /\ breaks = 0

(* What the tracker's handlers may answer to a request: to one of several  *)
(* regions of a service, whose turn it is is TrackerTable's                *)
(* robinRouteService; a route without an endpoint (NoRegion) has its       *)
(* target all the same.                                                    *)
Route(x, r) == [target |-> x, region |-> r]

regionRoute(r) == {IF r \in known THEN <<Route(r, r)>> ELSE <<>>}

serviceRoute(n) ==
  LET P == {r \in Regions : n \in tsvc[r]} IN
  {<<Route(n, r)>> : r \in IF P = {} THEN {NoRegion} ELSE P}

payloadRoutes(P) == {[i \in 1..Len(P) |-> Route(P[i], owner[P[i]])]}

routes(q) ==
  CASE q.op = "RegionReq" -> regionRoute(q.arg[1])
    [] q.op = "ServiceRouteReq" -> serviceRoute(q.arg[1])
    [] q.op \in {"PayloadRouteReq", "PayloadsRouteReq"} -> payloadRoutes(q.arg)
    [] OTHER -> {}

(* The calls that wait may be answered from the table as it is now.        *)
UpdateTable ==
  /\ Table!Next
  /\ UNCHANGED <<regionTable, wire, session, run, calls, breaks>>
  /\ since' = [s \in TrackerSessions |->
       IF phase[s] = "waiting" THEN since[s] \cup routes(call[s])' ELSE since[s]]

-----------------------------------------------------------------------------
(* The sessions.                                                           *)

Put(s, q) ==
  /\ calls < MaxCalls
  /\ calls' = calls + 1
  /\ requests' = [requests EXCEPT ![s] = Append(@, q)]
  /\ answer' = [answer EXCEPT ![s] = NoAnswer]

(* A request whose reply the session waits for.                            *)
Call(s, op, arg) ==
  LET id == call[s].id + 1 IN
  /\ phase[s] = IF op = "HandShake" THEN "new" ELSE "idle"
  /\ phase' = [phase EXCEPT ![s] = "waiting"]
  /\ call' = [call EXCEPT ![s] = Request(op, arg, id)]
  /\ Put(s, Request(op, arg, id))
  /\ since' = [t \in TrackerSessions |->
       IF t = s THEN routes(Request(op, arg, id)) ELSE since[t]]
  /\ UNCHANGED <<regionTable, trackerTable, replies, late, seen, run, breaks>>

connect(s) == Call(s, "HandShake", <<>>)

newPayload(s, p) == s \in RegionSessions /\ Call(s, "AddPayload", <<p>>)
rmPayload(s, p) == s \in RegionSessions /\ Call(s, "RmPayload", <<p>>)
newService(s, n) == s \in RegionSessions /\ Call(s, "AddService", <<n>>)
rmService(s, n) == s \in RegionSessions /\ Call(s, "RmService", <<n>>)

getStatistics(s) == s \in TrackerSessions /\ Call(s, "StatisticsReq", <<>>)
getRegion(s, r) == s \in TrackerSessions /\ Call(s, "RegionReq", <<r>>)
getServiceRouteInfo(s, n) == s \in TrackerSessions /\ Call(s, "ServiceRouteReq", <<n>>)
getPayloadRouteInfo(s, p) == s \in TrackerSessions /\ Call(s, "PayloadRouteReq", <<p>>)
getPayloadsRouteInfo(s, P) == s \in TrackerSessions /\ Call(s, "PayloadsRouteReq", P)

(* Mutant of Async: a reply is asked for that nobody waits for.            *)
AsyncWithRep(s, op, x) ==
  /\ s \in RegionSessions
  /\ phase[s] = "idle"
  /\ Put(s, [Request(op, <<x>>, 0) EXCEPT !.rep = TRUE])
  /\ UNCHANGED <<regionTable, trackerTable, replies, phase, call, late, seen, run, since, breaks>>

(* A request without a reply: asyncNewPayload and the others.              *)
Async(s, op, x) ==
  /\ s \in RegionSessions
  /\ phase[s] = "idle"
  /\ Put(s, Request(op, <<x>>, 0))
  /\ UNCHANGED <<regionTable, trackerTable, replies, phase, call, late, seen, run, since, breaks>>

asyncNewPayload(s, p) == Async(s, "AddPayload", p)
asyncRmPayload(s, p) == Async(s, "RmPayload", p)
asyncNewService(s, n) == Async(s, "AddService", n)
asyncRmService(s, n) == Async(s, "RmService", n)

(* The reply the code parses for a request; of another type it returns     *)
(* nothing, like of a route for another target.                            *)
ReplyType(s, op) ==
  CASE op = "HandShake" -> "HandShake"
    [] op = "StatisticsReq" -> "StatisticsRep"
    [] op = "RegionReq" -> "RegionRep"
    [] op = "ServiceRouteReq" -> "ServiceRouteRep"
    [] op = "PayloadRouteReq" -> "PayloadRouteRep"
    [] op = "PayloadsRouteReq" -> "PayloadsRouteRep"
    [] OTHER -> "Result"

accepted(s, m) ==
  /\ m.type = ReplyType(s, call[s].op)
  /\ m.type \in {"ServiceRouteRep", "PayloadRouteRep"} => m.data[1].target = call[s].arg[1]

(* Mutant of Return: the reply stays for the next call as well.            *)
ReturnKeeps(s) ==
  LET m == Head(replies[s]) IN
  /\ phase[s] = "waiting"
  /\ replies[s] # <<>>
  /\ phase' = [phase EXCEPT
       ![s] = IF call[s].op = "HandShake" /\ ~ accepted(s, m) THEN "closed" ELSE "idle"]
  /\ answer' = [answer EXCEPT ![s] = IF accepted(s, m) THEN m ELSE NoAnswer]
  /\ seen' = [r \in RegionSessions |->
       IF r = s /\ accepted(s, m)
         THEN [run |-> m.data.run, version |-> m.data.version] ELSE seen[r]]
  /\ UNCHANGED <<regionTable, trackerTable, wire, call, late, run, since, calls, breaks>>

(* The first reply is taken and the call returns; a session whose          *)
(* handshake failed is destroyed.                                          *)
Return(s) ==
  LET m == Head(replies[s]) IN
  /\ phase[s] = "waiting"
  /\ replies[s] # <<>>
  /\ phase' = [phase EXCEPT
       ![s] = IF call[s].op = "HandShake" /\ ~ accepted(s, m) THEN "closed" ELSE "idle"]
  /\ answer' = [answer EXCEPT ![s] = IF accepted(s, m) THEN m ELSE NoAnswer]
  /\ seen' = [r \in RegionSessions |->
       IF r = s /\ accepted(s, m)
         THEN [run |-> m.data.run, version |-> m.data.version] ELSE seen[r]]
  /\ replies' = [replies EXCEPT ![s] = Tail(@)]
  /\ UNCHANGED <<regionTable, trackerTable, requests, call, late, run, since, calls, breaks>>

(* Nothing became readable in m_timeout.                                   *)
TimeOut(s) ==
  /\ phase[s] = "waiting"
  /\ replies[s] = <<>>
  /\ phase' = [phase EXCEPT ![s] = IF call[s].op = "HandShake" THEN "closed" ELSE "idle"]
  /\ late' = [late EXCEPT ![s] = @ + 1]
  /\ UNCHANGED <<regionTable, trackerTable, wire, call, answer, seen, run, since, calls, breaks>>

(* The socket is destroyed; what has left it already arrives.              *)
disconnect(s) ==
  /\ phase[s] = "idle"
  /\ phase' = [phase EXCEPT ![s] = "closed"]
  /\ \E k \in 0..Len(requests[s]) :
       requests' = [requests EXCEPT ![s] = SubSeq(@, 1, k)]
  /\ replies' = [replies EXCEPT ![s] = <<>>]
  /\ answer' = [answer EXCEPT ![s] = NoAnswer]
  /\ UNCHANGED <<regionTable, trackerTable, call, late, seen, run, since, calls, breaks>>

(* The connection breaks and is made again: a run of what is on the way is *)
(* lost in either direction, later messages arrive.                        *)
Break(s) ==
  /\ breaks < MaxBreaks
  /\ breaks' = breaks + 1
  /\ \E up \in Torn(requests[s]), down \in Torn(replies[s]) :
       /\ requests' = [requests EXCEPT ![s] = up]
       /\ replies' = [replies EXCEPT ![s] = down]
  /\ UNCHANGED <<regionTable, trackerTable, session, run, since, calls>>

-----------------------------------------------------------------------------
(* The actors.  A reply to a session that is closed is dropped by ROUTER.  *)

Answer(s, type, data) ==
  LET q == Head(requests[s]) IN
  /\ requests' = [requests EXCEPT ![s] = Tail(@)]
  /\ replies' = [replies EXCEPT ![s] =
       IF phase[s] = "closed" \/ ~ q.rep THEN @
       ELSE Append(@, [type |-> type, id |-> q.id, data |-> data])]
  /\ UNCHANGED <<session, since, calls, breaks>>

Asked(s, op) == requests[s] # <<>> /\ Head(requests[s]).op = op

Result(s, err) ==
  /\ Answer(s, "Result", [result |-> err, version |-> version', run |-> run])
  /\ UNCHANGED run

(* The region's handlers: a change of the table and the result with the    *)
(* version after it, or an error and no change.                            *)
(* Mutant of addService: the name goes into the payloads.                  *)
addServiceAsPayload(s) ==
  LET n == Head(requests[s]).arg[1] IN
  /\ Asked(s, "AddService")
  /\ payloads' = payloads \cup {n}
  /\ version' = version + 1
  /\ Result(s, 0)
  /\ UNCHANGED <<services, trackerTable>>

addService(s) ==
  LET n == Head(requests[s]).arg[1] IN
  /\ Asked(s, "AddService")
  /\ services' = services \cup {n}
  /\ version' = IF n \in services THEN version ELSE version + 1
  /\ Result(s, IF n \in services THEN -1 ELSE 0)
  /\ UNCHANGED <<payloads, trackerTable>>

(* rmService of the actor.                                                 *)
rmServiceReq(s) ==
  LET n == Head(requests[s]).arg[1] IN
  /\ Asked(s, "RmService")
  /\ services' = services \ {n}
  /\ version' = IF n \in services THEN version + 1 ELSE version
  /\ Result(s, IF n \in services THEN 0 ELSE -1)
  /\ UNCHANGED <<payloads, trackerTable>>

(* Mutant of addPayload: the version is told as if the payload were new.   *)
addPayloadGuess(s) ==
  LET p == Head(requests[s]).arg[1] IN
  /\ Asked(s, "AddPayload")
  /\ payloads' = payloads \cup {p}
  /\ version' = IF p \in payloads THEN version ELSE version + 1
  /\ Answer(s, "Result", [result |-> 0, version |-> version + 1, run |-> run])
  /\ UNCHANGED <<services, trackerTable, run>>

addPayload(s) ==
  LET p == Head(requests[s]).arg[1] IN
  /\ Asked(s, "AddPayload")
  /\ payloads' = payloads \cup {p}
  /\ version' = IF p \in payloads THEN version ELSE version + 1
  /\ Result(s, IF p \in payloads THEN -1 ELSE 0)
  /\ UNCHANGED <<services, trackerTable>>

(* rmPayload of the actor.                                                 *)
rmPayloadReq(s) ==
  LET p == Head(requests[s]).arg[1] IN
  /\ Asked(s, "RmPayload")
  /\ payloads' = payloads \ {p}
  /\ version' = IF p \in payloads THEN version + 1 ELSE version
  /\ Result(s, IF p \in payloads THEN 0 ELSE -1)
  /\ UNCHANGED <<services, trackerTable>>

handshake(s) ==
  /\ s \in RegionSessions
  /\ Asked(s, "HandShake")
  /\ Answer(s, "HandShake", [result |-> 0, version |-> version, run |-> run])
  /\ UNCHANGED <<regionTable, trackerTable, run>>

(* The region dies and is started anew, with an empty table and version 0. *)
(* What had reached it is lost, and so are the replies that had not left;  *)
(* the sessions' sockets connect to it again.                              *)
Restart ==
  /\ breaks < MaxBreaks
  /\ breaks' = breaks + 1
  /\ run' = run + 1
  /\ services' = {} /\ payloads' = {} /\ version' = 0
  /\ \E k, n \in [RegionSessions -> 0..calls] :
       /\ \A s \in RegionSessions : k[s] <= Len(requests[s]) /\ n[s] <= Len(replies[s])
       /\ requests' = [s \in Sessions |->
            IF s \in RegionSessions THEN SubSeq(requests[s], k[s] + 1, Len(requests[s]))
                                   ELSE requests[s]]
       /\ replies' = [s \in Sessions |->
            IF s \in RegionSessions THEN SubSeq(replies[s], 1, n[s]) ELSE replies[s]]
  /\ UNCHANGED <<trackerTable, session, since, calls>>

(* The tracker's handlers.                                                 *)
Tell(s, op, type, data) ==
  /\ s \in TrackerSessions
  /\ Asked(s, op)
  /\ \E d \in data : Answer(s, type, d)
  /\ UNCHANGED <<regionTable, trackerTable, run>>

onHandShake(s) == Tell(s, "HandShake", "HandShake", {<<>>})

onStaticsReq(s) ==
  Tell(s, "StatisticsReq", "StatisticsRep",
       {<<known, UNION {tsvc[r] : r \in Regions},
          Cardinality({p \in Payloads : owner[p] # NoRegion})>>})

onRegionReq(s) ==
  Tell(s, "RegionReq", "RegionRep", regionRoute(Head(requests[s]).arg[1]))

onServiceRouteReq(s) ==
  Tell(s, "ServiceRouteReq", "ServiceRouteRep", serviceRoute(Head(requests[s]).arg[1]))

onPayloadRouteReq(s) ==
  Tell(s, "PayloadRouteReq", "PayloadRouteRep", payloadRoutes(Head(requests[s]).arg))

onPayloadsRouteReq(s) ==
  Tell(s, "PayloadsRouteReq", "PayloadsRouteRep", payloadRoutes(Head(requests[s]).arg))

-----------------------------------------------------------------------------
Next ==
  \/ UpdateTable \/ Restart
  \/ \E s \in Sessions :
       connect(s) \/ Return(s) \/ TimeOut(s) \/ disconnect(s) \/ Break(s)
  \/ \E s \in Sessions :
       \/ addService(s) \/ rmServiceReq(s) \/ addPayload(s) \/ rmPayloadReq(s) \/ handshake(s)
       \/ onHandShake(s) \/ onStaticsReq(s) \/ onRegionReq(s)
       \/ onServiceRouteReq(s) \/ onPayloadRouteReq(s) \/ onPayloadsRouteReq(s)
  \/ \E s \in Sessions, p \in Payloads :
       \/ newPayload(s, p) \/ rmPayload(s, p)
       \/ asyncNewPayload(s, p) \/ asyncRmPayload(s, p) \/ getPayloadRouteInfo(s, p)
  \/ \E s \in Sessions, n \in Services :
       \/ newService(s, n) \/ rmService(s, n)
       \/ asyncNewService(s, n) \/ asyncRmService(s, n) \/ getServiceRouteInfo(s, n)
  \/ \E s \in Sessions :
       \/ getStatistics(s)
       \/ \E r \in Regions : getRegion(s, r)
       \/ \E P \in SetToSeqs(Payloads) : getPayloadsRouteInfo(s, P)

Spec == Init /\ [][Next]_vars

-----------------------------------------------------------------------------
(* Properties.                                                             *)

(* The actors and the sessions are where the code can be.                  *)
TypeOK ==
  /\ services \subseteq Services /\ payloads \subseteq Payloads
  /\ version \in 0..MaxCalls
  /\ \A s \in Sessions :
       /\ phase[s] \in {"new", "idle", "waiting", "closed"}
       /\ Len(requests[s]) + Len(replies[s]) <= calls
       /\ late[s] \in 0..MaxCalls
  /\ calls \in 0..MaxCalls /\ breaks \in 0..MaxBreaks

(* What a call returns is the answer to it or to one of the calls before   *)
(* it, and it lags behind by no more calls than have timed out: as long as *)
(* none has, every call returns its own answer, whatever asynchronous      *)
(* requests went before it and whatever broke; after one that has, all     *)
(* that follow may return the answer to the call before.                   *)
LateByTimeouts ==
  \A s \in Sessions : answer[s] # NoAnswer =>
    /\ answer[s].id \in 1..call[s].id
    /\ call[s].id - answer[s].id <= late[s]

(* As long as no call of a session timed out, a call for routes returns    *)
(* what the table said at one moment between the call and its return, for  *)
(* all the payloads of one call together: never a route that was gone when *)
(* it was made, whatever broke and however the table changes meanwhile.    *)
RoutesFresh ==
  \A s \in TrackerSessions :
    answer[s] # NoAnswer /\ late[s] = 0
      /\ call[s].op \in {"RegionReq", "ServiceRouteReq", "PayloadRouteReq", "PayloadsRouteReq"}
      => answer[s].data \in since[s]

(* A synchronous call is a barrier: when it returns and none has timed     *)
(* out, everything the session sent before has been done, or was lost with *)
(* its connection.                                                         *)
Barrier ==
  \A s \in Sessions :
    answer[s] # NoAnswer /\ late[s] = 0 => requests[s] = <<>> /\ replies[s] = <<>>

(* a was a moment of the region no later than b.                           *)
Before(a, b) == a.run < b.run \/ (a.run = b.run /\ a.version <= b.version)

(* The versions a session is told never go back, late answers included,    *)
(* unless the region was restarted between them, and then no answer of the *)
(* earlier region follows; and none is told that the region has not        *)
(* reached.                                                                *)
VersionsGrow ==
  [][\A s \in RegionSessions :
       /\ Before(seen[s], seen'[s])
       /\ Before(seen'[s], [run |-> run', version |-> version'])]_vars
=============================================================================

--------------------------------- MODULE Bus ---------------------------------
(***************************************************************************)
(* The bus: BusSender sends a message for a set of payloads and may wait   *)
(* for replies (BusMsgReply), the broker's worker splits it by what the    *)
(* tracker knows, the region's BusProcesser hands it to one of the workers *)
(* that reported ready, or keeps it.  The broker of the repository is not  *)
(* finished (nothing connects its halves and the header is not sent on),   *)
(* so of it only do_work is taken from the code, for one BusWorker; what   *)
(* carries a message to the region and the answers back is external and    *)
(* may delay and reorder.                                                  *)
(* BusReceiver::reply never sends (m_last_msg_id stays 0), so a reply is   *)
(* one of another worker; it makes its worker ready like a READY, and a    *)
(* worker sends one of the two when it is done with a message.  A message  *)
(* is named by its msg id.                                                 *)
(***************************************************************************)
EXTENDS Lists

CONSTANTS
  Payloads,       \* payload ids
  Workers,        \* workers that connect to the region, by identity
  Hwm,            \* RegionCtx.bus_hwm
  MaxMessages,    \* bound: messages sent
  MaxFaults       \* bound: workers that die, sends that fail

ASSUME BusAssumption ==
  /\ IsFiniteSet(Payloads)
  /\ Hwm \in Nat \ {0, 1}
  /\ MaxMessages \in Nat /\ MaxFaults \in Nat

VARIABLES
  last,        \* the last msg id
  wants,       \* the payloads of a message
  waiting,     \* wait_reply runs for the last message
  count,       \* BusMsgReply::m_count
  fails,       \* BusMsgReply::m_fails
  replys,      \* the payloads of BusMsgReply::m_replys
  toBroker,    \* messages on the way to the broker, and whether it reports failures
  toRegion,    \* and on to the region, with the payloads routed to it
  answers,     \* Failures and ReplyMessages on the way to the sender
  late,        \* payloads whose routes the broker's worker did not get in time
  msgs,        \* BusProcesser::m_msgs
  pool,        \* BusProcesser::m_workers
  worker,      \* "away", "ready" (waits for a message) or "busy"
  reports,     \* what a worker has sent and the region has not read
  inbox,       \* what it was handed
  deaths,      \* history: how often a worker died or lost its connection
  lost,        \* messages dropped by the mark or lost with a worker
  faults       \* faults so far

sender == <<last, wants, waiting, count, fails, replys>>
carrier == <<toBroker, toRegion, answers, late>>
processer == <<msgs, pool>>
workers == <<worker, reports, inbox>>
vars == <<sender, carrier, processer, workers, deaths, lost, faults>>

Init ==
  /\ last = 0 /\ wants = <<>>
  /\ waiting = FALSE /\ count = 0 /\ fails = {} /\ replys = {}
  /\ toBroker = <<>> /\ toRegion = {} /\ answers = {} /\ late = <<>>
  /\ msgs = <<>> /\ pool = <<>>
  /\ worker = [w \in Workers |-> "away"]
  /\ reports = [w \in Workers |-> <<>>]
  /\ inbox = [w \in Workers |-> <<>>]
  /\ deaths = [w \in Workers |-> 0]
  /\ lost = {} /\ faults = 0

Fault == faults < MaxFaults /\ faults' = faults + 1

-----------------------------------------------------------------------------
(* BusSender.                                                              *)

(* do_send with a new msg id, failure when a reply is waited for.          *)
do_send(P, failure) ==
  /\ ~ waiting
  /\ last < MaxMessages
  /\ last' = last + 1
  /\ wants' = Append(wants, P)
  /\ toBroker' = Append(toBroker, [id |-> last + 1, failure |-> failure])
  /\ UNCHANGED <<toRegion, answers, late, processer, workers, deaths, lost, faults>>

send(P) ==
  /\ do_send(P, FALSE)
  /\ UNCHANGED <<waiting, count, fails, replys>>

sendWaitReply(P) ==
  /\ do_send(P, TRUE)
  /\ waiting' = TRUE
  /\ count' = 0 /\ fails' = {} /\ replys' = {}

isCompleted == count = Cardinality(wants[last])

(* Mutant of mine: the msg id is not compared.                             *)
mineAny(a) == a.payloads \cap wants[last]

(* What of an answer is about the message waited for.                      *)
mine(a) == IF a.id = last THEN a.payloads \cap wants[last] ELSE {}

(* addFailure or addReply.                                                 *)
receive(a) ==
  /\ waiting /\ ~ isCompleted
  /\ answers' = answers \ {a}
  /\ count' = count + Cardinality(mine(a))
  /\ IF a.type = "Failure"
       THEN fails' = fails \cup mine(a) /\ UNCHANGED replys
       ELSE replys' = replys \cup mine(a) /\ UNCHANGED fails
  /\ UNCHANGED <<last, wants, waiting, toBroker, toRegion, late, processer, workers, deaths, lost, faults>>

(* wait_reply returns, completed or after its timeout; the BusMsgReply is  *)
(* the caller's from now on.                                               *)
wait_reply ==
  /\ waiting
  /\ waiting' = FALSE
  /\ count' = 0 /\ fails' = {} /\ replys' = {}
  /\ UNCHANGED <<last, wants, carrier, processer, workers, deaths, lost, faults>>

-----------------------------------------------------------------------------
(* The broker's worker and the carrier.                                    *)

(* do_work with the first answer the TrackerSession reads: it is about the *)
(* payloads P of the last request that is still without one (module Api),  *)
(* and the tracker has no route for F.                                     *)
do_work(F) ==
  LET m == Head(toBroker)
      asked == Append(late, wants[m.id])
      P == Head(asked)
  IN
  /\ toBroker # <<>>
  /\ F \subseteq P
  /\ late' = Tail(asked)
  /\ toBroker' = Tail(toBroker)
  /\ answers' = answers \cup
       (IF m.failure /\ F # {}
          THEN {[type |-> "Failure", id |-> m.id, payloads |-> F]} ELSE {})
  /\ toRegion' = toRegion \cup
       (IF P # F THEN {[id |-> m.id, payloads |-> P \ F]} ELSE {})
  /\ UNCHANGED <<sender, processer, workers, deaths, lost, faults>>

(* The tracker does not answer in time: the message goes nowhere.          *)
getPayloadsRouteInfo ==
  /\ toBroker # <<>>
  /\ Fault
  /\ late' = Append(late, wants[Head(toBroker).id])
  /\ toBroker' = Tail(toBroker)
  /\ UNCHANGED <<sender, toRegion, answers, processer, workers, deaths, lost>>

-----------------------------------------------------------------------------
(* BusProcesser.                                                           *)

connected(w) == worker[w] # "away"

(* The message is kept; above the high water mark the oldest is dropped.   *)
keep(m) ==
  IF Len(msgs) >= Hwm
    THEN msgs' = Append(Tail(msgs), m) /\ lost' = lost \cup {Head(msgs)}
    ELSE msgs' = Append(msgs, m) /\ UNCHANGED lost

(* Mutant of onBusReadable: a worker that was handed a message stays in    *)
(* the pool.                                                               *)
onBusReadableNoPop(m) ==
  LET live == {i \in 1..Len(pool) : connected(pool[i])} IN
  /\ live # {}
  /\ inbox' = [inbox EXCEPT ![pool[CHOOSE i \in live : TRUE]] = Append(@, m)]
  /\ toRegion' = toRegion \ {m}
  /\ UNCHANGED <<sender, toBroker, answers, late, processer, worker, reports, deaths, lost, faults>>

(* Mutant of onBusReadable: the message handed over is kept as well.       *)
onBusReadableKeeps(m) ==
  LET live == {i \in 1..Len(pool) : connected(pool[i])} IN
  /\ toRegion' = toRegion \ {m}
  /\ keep(m)
  /\ inbox' = [w \in Workers |->
       IF live # {} /\ w = pool[CHOOSE i \in live : TRUE] THEN Append(inbox[w], m) ELSE inbox[w]]
  /\ pool' = IF live = {} THEN pool ELSE Tail(pool)
  /\ UNCHANGED <<sender, toBroker, answers, late, worker, reports, deaths, faults>>

(* sendto_worker pops the workers it cannot route to and hands the message *)
(* to the first it can; with none left, or when that send fails, the       *)
(* message is kept.                                                        *)
onBusReadable(m) ==
  LET live == {i \in 1..Len(pool) : connected(pool[i])}
      first == CHOOSE i \in live : \A j \in live : i <= j
      from(i) == SubSeq(pool, i, Len(pool))
  IN
  /\ toRegion' = toRegion \ {m}
  /\ \/ /\ live # {}
        /\ inbox' = [inbox EXCEPT ![pool[first]] = Append(@, m)]
        /\ pool' = from(first + 1)
        /\ UNCHANGED <<msgs, lost, faults>>
     \/ /\ live # {} /\ Fault
        /\ pool' = from(first)
        /\ keep(m)
        /\ UNCHANGED inbox
     \/ /\ live = {}
        /\ pool' = <<>>
        /\ keep(m)
        /\ UNCHANGED <<inbox, faults>>
  /\ UNCHANGED <<sender, toBroker, answers, late, worker, reports, deaths>>

(* Mutant of push_worker: a worker is pushed whether or not it is listed.  *)
push_workerTwice(w) == pool' = Append(pool, w)

push_worker(w) == pool' = Append(Without(pool, {w}), w)

(* READY, or a reply, which is forwarded and makes the worker ready, too.  *)
onWorkerReadable(w) ==
  LET m == Head(reports[w]) IN
  /\ reports[w] # <<>>
  /\ reports' = [reports EXCEPT ![w] = Tail(@)]
  /\ push_worker(w)
  /\ answers' = IF m.type = "READY" THEN answers ELSE answers \cup {m}
  /\ UNCHANGED <<sender, toBroker, toRegion, late, msgs, worker, inbox, deaths, lost, faults>>

-----------------------------------------------------------------------------
(* The workers.                                                            *)

Report(w, m) == reports' = [reports EXCEPT ![w] = Append(@, m)]

(* BusReceiver::connect or reconnect, then wait: READY is sent.            *)
wait(w) ==
  /\ worker[w] \in {"away", "busy"}
  /\ worker' = [worker EXCEPT ![w] = "ready"]
  /\ Report(w, [type |-> "READY", id |-> 0, payloads |-> {}])
  /\ inbox' = [inbox EXCEPT ![w] = IF worker[w] = "busy" THEN Tail(@) ELSE @]
  /\ UNCHANGED <<sender, carrier, processer, deaths, lost, faults>>

(* do_wait takes the message; it counts as the worker's until it is done.  *)
do_wait(w) ==
  /\ worker[w] = "ready"
  /\ inbox[w] # <<>>
  /\ worker' = [worker EXCEPT ![w] = "busy"]
  /\ UNCHANGED <<sender, carrier, processer, reports, inbox, deaths, lost, faults>>

(* Another worker's reply, for some of the message's payloads.             *)
reply(w, P) ==
  /\ worker[w] = "busy"
  /\ P # {} /\ P \subseteq Head(inbox[w]).payloads
  /\ Report(w, [type |-> "Reply", id |-> Head(inbox[w]).id, payloads |-> P])
  /\ worker' = [worker EXCEPT ![w] = "ready"]
  /\ inbox' = [inbox EXCEPT ![w] = Tail(@)]
  /\ UNCHANGED <<sender, carrier, processer, deaths, lost, faults>>

(* The worker dies or loses its connection, and what it had with it.       *)
vanish(w) ==
  /\ connected(w)
  /\ Fault
  /\ worker' = [worker EXCEPT ![w] = "away"]
  /\ deaths' = [deaths EXCEPT ![w] = @ + 1]
  /\ lost' = lost \cup ToSet(inbox[w])
  /\ inbox' = [inbox EXCEPT ![w] = <<>>]
  /\ \E k \in 0..Len(reports[w]) :
       reports' = [reports EXCEPT ![w] = SubSeq(@, 1, k)]
  /\ UNCHANGED <<sender, carrier, processer>>

Next ==
  \/ \E P \in SUBSET Payloads \ {{}} : send(P) \/ sendWaitReply(P)
  \/ \E a \in answers : receive(a)
  \/ wait_reply
  \/ getPayloadsRouteInfo
  \/ \E F \in SUBSET Payloads : do_work(F)
  \/ \E m \in toRegion : onBusReadable(m)
  \/ \E w \in Workers :
       \/ onWorkerReadable(w) \/ wait(w) \/ do_wait(w) \/ vanish(w)
       \/ \E P \in SUBSET Payloads : reply(w, P)

Spec == Init /\ [][Next]_vars

-----------------------------------------------------------------------------
(* Properties.                                                             *)

(* Everything is what the code can hold; the pool lists a worker once.     *)
TypeOK ==
  /\ last \in 0..MaxMessages
  /\ wants \in Seq(SUBSET Payloads \ {{}}) /\ Len(wants) = last
  /\ fails \cup replys \subseteq Payloads
  /\ \A m \in toRegion \cup ToSet(msgs) \cup lost :
       m.id \in 1..last /\ m.payloads \subseteq Payloads
  /\ Len(msgs) <= Hwm
  /\ pool \in Seq(Workers) /\ IsInjective(pool)
  /\ \A w \in Workers : worker[w] \in {"away", "ready", "busy"}
  /\ faults \in 0..MaxFaults

(* A reply that is complete has something for every payload of the message *)
(* and for none twice, though answers to earlier messages, whose waiting   *)
(* ended with its timeout, keep coming in between, and though a late route *)
(* makes the broker send a message where an earlier one was to go.         *)
CompletedExact ==
  last > 0 /\ waiting =>
    /\ count = Cardinality(fails \cup replys)
    /\ isCompleted => fails \cup replys = wants[last]
    /\ fails \cap replys = {}

(* A message is in one place: kept, handed to one worker, or gone.         *)
InOnePlace ==
  LET held == {h \in Workers \X (1..MaxMessages) : h[2] <= Len(inbox[h[1]])} IN
  /\ IsInjective(msgs)
  /\ \A m \in ToSet(msgs) : m \notin lost \cup toRegion
  /\ \A h \in held :
       LET m == inbox[h[1]][h[2]] IN
       /\ m \notin ToSet(msgs) \cup toRegion \cup lost
       /\ \A g \in held : inbox[g[1]][g[2]] = m => g = h

(* A worker has one message at a time, whatever fails around it: it is     *)
(* handed one only after it reported, and reports once for each.  A READY  *)
(* of before it died that is still read after it came back counts as one   *)
(* more, once for each time it died.                                       *)
OneAtATime == \A w \in Workers : Len(inbox[w]) <= 1 + deaths[w]

(* bus.proto: a sender that asks for it is told of the payloads its        *)
(* message could not be brought to.  So when everything on the way has     *)
(* been read, what the region keeps of the message must be among the       *)
(* failures the sender has.                                                *)
UnloadedReported ==
  LET onTheWay ==
        \/ toBroker # <<>> \/ toRegion # {} \/ answers # {}
        \/ \E w \in Workers : reports[w] # <<>> \/ inbox[w] # <<>>
  IN  waiting /\ ~ onTheWay =>
        \A m \in ToSet(msgs) : m.id = last => m.payloads \subseteq fails
=============================================================================

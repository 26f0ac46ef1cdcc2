------------------------------- MODULE BusProofs -------------------------------
(***************************************************************************)
(* The bus for any payloads, workers, mark, messages and faults.  A        *)
(* message is at one place from send to its answer; which one, who holds   *)
(* it and which of its payloads were routed is what Track says, with three *)
(* functions of the msg id that no variable records.  From that follow     *)
(* that a message is in one place and what a complete reply holds; a       *)
(* worker has one token, and one more for each time it died (Tokens): a    *)
(* report under way, its place in the pool, or a message.                  *)
(***************************************************************************)
EXTENDS Bus, OperatorLemmas

Posts == [id : Nat, failure : BOOLEAN]
Messages == [id : Nat, payloads : SUBSET Payloads]
Reports == [type : {"READY", "Reply"}, id : Nat, payloads : SUBSET Payloads]
Answers == [type : {"Failure", "Reply"}, id : Nat, payloads : SUBSET Payloads]

SenderTyped ==
  /\ last \in Nat
  /\ wants \in Seq(SUBSET Payloads \ {{}}) /\ Len(wants) = last
  /\ waiting \in BOOLEAN /\ count \in Nat
  /\ fails \subseteq Payloads /\ replys \subseteq Payloads

CarrierTyped ==
  /\ toBroker \in Seq(Posts) /\ toRegion \subseteq Messages
  /\ answers \subseteq Answers /\ late \in Seq(SUBSET Payloads)

WorkersTyped ==
  /\ msgs \in Seq(Messages) /\ pool \in Seq(Workers) /\ lost \subseteq Messages
  /\ worker \in [Workers -> {"away", "ready", "busy"}]
  /\ reports \in [Workers -> Seq(Reports)]
  /\ inbox \in [Workers -> Seq(Messages)]

Limits ==
  /\ last <= MaxMessages /\ faults \in 0..MaxFaults
  /\ Len(msgs) <= Hwm
  /\ \A i, j \in 1..Len(pool) : pool[i] = pool[j] => i = j

(* Ids are those of messages that were sent; a READY has none.             *)
Bounded ==
  /\ \A m \in ToSet(toBroker) : m.id \in 1..last
  /\ \A m \in toRegion : m.id \in 1..last
  /\ \A m \in ToSet(msgs) : m.id \in 1..last
  /\ \A m \in lost : m.id \in 1..last
  /\ \A m \in answers : m.id \in 1..last
  /\ \A w \in Workers : \A m \in ToSet(inbox[w]) : m.id \in 1..last
  /\ \A w \in Workers : \A m \in ToSet(reports[w]) :
       IF m.type = "READY" THEN m.id = 0 ELSE m.id \in 1..last

(* No list has two entries of one msg id (0 is the id of READY).           *)
Single(l) == \A i, j \in 1..Len(l) : l[i].id # 0 /\ l[i].id = l[j].id => i = j

Singles ==
  /\ Single(toBroker) /\ Single(msgs)
  /\ \A w \in Workers : Single(inbox[w]) /\ Single(reports[w])
  /\ \A m, n \in toRegion : m.id = n.id => m = n
  /\ \A m, n \in answers : m.type = n.type /\ m.id = n.id => m = n
  /\ \A w \in Workers : worker[w] = "busy" => inbox[w] # <<>>

(* Where a message is, which worker holds it, and that what is under way   *)
(* of it is for the payloads that were routed.                             *)
Located(place, holder) ==
  /\ \A m \in ToSet(toBroker) : place[m.id] = "broker"
  /\ \A m \in toRegion : place[m.id] = "region"
  /\ \A m \in ToSet(msgs) : place[m.id] = "kept"
  /\ \A m \in lost : place[m.id] = "lost"
  /\ \A w \in Workers : \A m \in ToSet(inbox[w]) :
       place[m.id] = "handed" /\ holder[m.id] = w
  /\ \A w \in Workers : \A m \in ToSet(reports[w]) :
       m.type = "Reply" => place[m.id] = "reported" /\ holder[m.id] = w
  /\ \A a \in answers :
       IF a.type = "Reply" THEN place[a.id] = "answered" ELSE place[a.id] # "broker"

Routed(routed) ==
  /\ \A m \in toRegion : m.payloads \subseteq routed[m.id]
  /\ \A m \in ToSet(msgs) : m.payloads \subseteq routed[m.id]
  /\ \A w \in Workers : \A m \in ToSet(inbox[w]) : m.payloads \subseteq routed[m.id]
  /\ \A w \in Workers : \A m \in ToSet(reports[w]) :
       m.type = "Reply" => m.payloads \subseteq routed[m.id]
  /\ \A a \in answers :
       IF a.type = "Reply" THEN a.payloads \subseteq routed[a.id]
                           ELSE a.payloads \cap routed[a.id] = {}

(* What was counted of the message waited for.                             *)
Counted(place, routed) ==
  waiting =>
    /\ last > 0
    /\ fails \cup replys \subseteq wants[last]
    /\ count = Cardinality(fails \cup replys)
    /\ fails \cap routed[last] = {} /\ replys \subseteq routed[last]
    /\ place[last] = "broker" => fails = {}
    /\ replys # {} => place[last] = "received"
    /\ fails # {} => \A a \in answers : a.type = "Failure" => a.id # last

Stages == {"none", "broker", "region", "kept", "lost", "handed", "reported", "answered",
           "received"}

Track(place, holder, routed) ==
  Located(place, holder) /\ Routed(routed) /\ Counted(place, routed)

Tracked ==
  \E place \in [Nat -> Stages], holder \in [Nat -> Workers \cup {"none"}],
     routed \in [Nat -> SUBSET Payloads] : Track(place, holder, routed)

Typed == SenderTyped /\ CarrierTyped /\ WorkersTyped /\ Limits /\ Bounded

BusInv == Typed /\ Singles /\ Tracked

-----------------------------------------------------------------------------
(* Lists of which no two entries have one msg id.                          *)

LEMMA SingleEmpty == Single(<<>>)
<1>1. Len(<<>>) = 0
  OBVIOUS
<1>2. QED BY <1>1 DEF Single

LEMMA SingleAppend ==
  ASSUME NEW T, NEW l \in Seq(T), NEW x \in T, Single(l),
         x.id # 0 => \A y \in ToSet(l) : y.id # x.id
  PROVE  Single(Append(l, x))
<1> DEFINE a == Append(l, x)
<1>1. /\ a \in Seq(T) /\ Len(a) = Len(l) + 1 /\ Len(l) \in Nat
      /\ \A i \in 1..Len(l) : a[i] = l[i] /\ l[i] \in ToSet(l)
      /\ a[Len(l) + 1] = x
  BY AppendList, ListSet
<1> HIDE DEF a
<1>2. SUFFICES ASSUME NEW i \in 1..Len(a), NEW j \in 1..Len(a), a[i].id # 0, a[i].id = a[j].id
               PROVE  i = j
  BY DEF Single, a
<1>3. i \in 1..Len(l) \/ i = Len(l) + 1
  BY <1>1
<1>4. j \in 1..Len(l) \/ j = Len(l) + 1
  BY <1>1
<1>5. CASE i \in 1..Len(l) /\ j \in 1..Len(l)
  BY <1>1, <1>2, <1>5 DEF Single
<1>6. CASE i \in 1..Len(l) /\ j = Len(l) + 1
  BY <1>1, <1>2, <1>6
<1>7. CASE j \in 1..Len(l) /\ i = Len(l) + 1
  BY <1>1, <1>2, <1>7
<1>8. QED BY <1>3, <1>4, <1>5, <1>6, <1>7

LEMMA SingleTail ==
  ASSUME NEW T, NEW l \in Seq(T), l # <<>>, Single(l)
  PROVE  /\ Single(Tail(l))
         /\ Head(l).id # 0 => \A y \in ToSet(Tail(l)) : y.id # Head(l).id
<1> DEFINE t == Tail(l)
           h == Head(l)
<1>1. /\ t \in Seq(T) /\ Len(l) \in Nat /\ Len(t) = Len(l) - 1 /\ 1 \in 1..Len(l)
      /\ h = l[1] /\ \A i \in 1..Len(t) : i + 1 \in 1..Len(l) /\ t[i] = l[i + 1]
  BY TailList
<1>2. \A y \in ToSet(t) : \E i \in 1..Len(t) : y = t[i]
  BY <1>1, ListSet
<1> HIDE DEF t, h
<1>3. Single(t)
  <2>1. SUFFICES ASSUME NEW i \in 1..Len(t), NEW j \in 1..Len(t), t[i].id # 0, t[i].id = t[j].id
                 PROVE  i = j
    BY DEF Single
  <2>2. i + 1 = j + 1
    BY <1>1, <2>1 DEF Single
  <2> QED BY <1>1, <2>2
<1>4. ASSUME h.id # 0, NEW y \in ToSet(t) PROVE y.id # h.id
  <2>1. PICK i \in 1..Len(t) : y = t[i]
    BY <1>2
  <2>2. i + 1 \in 1..Len(l) /\ i + 1 # 1
    BY <1>1
  <2> QED BY <1>1, <1>4, <2>1, <2>2 DEF Single
<1>5. QED BY <1>3, <1>4 DEF t, h

LEMMA SinglePart ==
  ASSUME NEW T, NEW l \in Seq(T), NEW k \in 0..Len(l), Single(l)
  PROVE  Single(SubSeq(l, 1, k))
<1> DEFINE t == SubSeq(l, 1, k)
<1>1. /\ Len(l) \in Nat /\ Len(t) \in Nat
      /\ \A i \in 1..Len(t) : i + 1 - 1 \in 1..Len(l) /\ t[i] = l[i + 1 - 1]
  BY PartList
<1>2. \A i \in 1..Len(t) : i \in 1..Len(l) /\ t[i] = l[i]
  BY <1>1
<1> HIDE DEF t
<1>3. Single(t)
  BY <1>2 DEF Single
<1>4. QED BY <1>3 DEF t

-----------------------------------------------------------------------------
(* Messages that are at another place than the one that moves stay there.  *)

LEMMA Parts ==
  ASSUME BusInv
  PROVE  /\ SenderTyped /\ CarrierTyped /\ WorkersTyped /\ Limits /\ Bounded /\ Singles
         /\ \E place \in [Nat -> Stages], holder \in [Nat -> Workers \cup {"none"}],
               routed \in [Nat -> SUBSET Payloads] :
              Located(place, holder) /\ Routed(routed) /\ Counted(place, routed)
BY DEF BusInv, Typed, Tracked, Track

-----------------------------------------------------------------------------
(* The sender.                                                             *)

LEMMA SendInv ==
  ASSUME BusInv, NEW P \in SUBSET Payloads \ {{}}, NEW b \in BOOLEAN, do_send(P, b),
         \/ UNCHANGED <<waiting, count, fails, replys>>
         \/ waiting' = TRUE /\ count' = 0 /\ fails' = {} /\ replys' = {}
  PROVE  BusInv'
<1> DEFINE x == [id |-> last + 1, failure |-> b]
<1>1. /\ last \in Nat /\ last' = last + 1 /\ x \in Posts /\ x.id = last + 1
      /\ wants \in Seq(SUBSET Payloads \ {{}}) /\ Len(wants) = last
      /\ toBroker \in Seq(Posts) /\ toBroker' = Append(toBroker, x)
  BY DEF BusInv, Typed, SenderTyped, CarrierTyped, do_send, Posts
<1>0. SenderTyped /\ CarrierTyped /\ WorkersTyped /\ Limits /\ Bounded /\ Singles
  BY Parts
<1> HIDE DEF x
<1>2. /\ toBroker' \in Seq(Posts)
      /\ ToSet(toBroker') = ToSet(toBroker) \cup {x}
  BY <1>1, AppendList
<1>3. /\ wants' \in Seq(SUBSET Payloads \ {{}}) /\ Len(wants') = last'
  BY <1>1 DEF do_send
<1>4. /\ UNCHANGED <<toRegion, answers, late, msgs, pool, worker, reports, inbox, lost, faults>>
      /\ ~ waiting /\ last < MaxMessages
  BY DEF do_send, processer, workers
<1>11. \/ waiting' = FALSE /\ count' = count /\ fails' = fails /\ replys' = replys
       \/ waiting' = TRUE /\ count' = 0 /\ fails' = {} /\ replys' = {}
  BY <1>0, <1>4 DEF SenderTyped
<1>5. SenderTyped'
  <2>1. waiting' \in BOOLEAN
    BY <1>11
  <2>2. count' \in Nat /\ fails' \subseteq Payloads /\ replys' \subseteq Payloads
    BY <1>0, <1>11 DEF SenderTyped
  <2> QED BY <1>1, <1>3, <2>1, <2>2 DEF SenderTyped
<1>6. CarrierTyped' /\ WorkersTyped'
  BY <1>2, <1>4 DEF BusInv, Typed, CarrierTyped, WorkersTyped
<1>7. Limits'
  BY <1>1, <1>4, BusAssumption DEF BusInv, Typed, Limits
<1>8. 1..last \subseteq 1..last' /\ last + 1 \in 1..last' /\ last + 1 \notin 1..last
  BY <1>1
<1>9. Bounded'
  BY <1>0, <1>1, <1>2, <1>4, <1>8 DEF Bounded
<1>10. Singles'
  <2>1. \A y \in ToSet(toBroker) : y.id # x.id
    BY <1>1, <1>8 DEF BusInv, Typed, Bounded
  <2>2. Single(toBroker')
    BY <1>1, <2>1, SingleAppend DEF BusInv, Singles
  <2> QED BY <1>4, <2>2 DEF BusInv, Singles
<1>12. Tracked'
  <2>1. PICK place \in [Nat -> Stages], holder \in [Nat -> Workers \cup {"none"}],
             routed \in [Nat -> SUBSET Payloads] :
          Located(place, holder) /\ Routed(routed) /\ Counted(place, routed)
    BY Parts
  <2>2. PICK here \in [Nat -> Stages] :
          here[last + 1] = "broker" /\ \A i \in Nat : i # last + 1 => here[i] = place[i]
    <3> DEFINE f == [place EXCEPT ![last + 1] = "broker"]
    <3>1. "broker" \in Stages
      BY DEF Stages
    <3>2. f \in [Nat -> Stages] /\ f[last + 1] = "broker" /\ \A i \in Nat : i # last + 1 => f[i] = place[i]
      BY <1>1, <3>1
    <3> HIDE DEF f
    <3> QED BY <3>2
  <2>3. \A i \in 1..last : here[i] = place[i]
    BY <1>1, <2>2
  <2>4. Located(here, holder)'
    <3>1. \A m \in ToSet(toBroker') : here[m.id] = "broker"
      BY <1>0, <1>1, <1>2, <2>1, <2>2, <2>3 DEF Located, Bounded
    <3>2. /\ \A m \in toRegion : here[m.id] = "region"
          /\ \A m \in ToSet(msgs) : here[m.id] = "kept"
          /\ \A m \in lost : here[m.id] = "lost"
      BY <1>0, <2>1, <2>3 DEF Located, Bounded
    <3>3. \A w \in Workers : \A m \in ToSet(inbox[w]) : here[m.id] = "handed" /\ holder[m.id] = w
      BY <1>0, <2>1, <2>3 DEF Located, Bounded
    <3>4. \A w \in Workers : \A m \in ToSet(reports[w]) :
            m.type = "Reply" => here[m.id] = "reported" /\ holder[m.id] = w
      BY <1>0, <2>1, <2>3 DEF Located, Bounded
    <3>5. \A a \in answers :
            IF a.type = "Reply" THEN here[a.id] = "answered" ELSE here[a.id] # "broker"
      BY <1>0, <2>1, <2>3 DEF Located, Bounded
    <3> QED BY <1>4, <3>1, <3>2, <3>3, <3>4, <3>5 DEF Located
  <2>5. Routed(routed)'
    BY <1>4, <2>1 DEF Routed
  <2>6. Counted(here, routed)'
    <3>1. CASE waiting' = FALSE
      BY <3>1 DEF Counted
    <3>2. CASE waiting' = TRUE /\ count' = 0 /\ fails' = {} /\ replys' = {}
      <4>1. {} \cup {} = {}
        OBVIOUS
      <4> QED BY <1>1, <3>2, <4>1, FS_EmptySet DEF Counted
    <3> QED BY <1>4, <1>11, <3>1, <3>2
  <2>7. Track(here, holder, routed)'
    BY <2>4, <2>5, <2>6 DEF Track
  <2> QED BY <2>7 DEF Tracked
<1>13. QED BY <1>5, <1>6, <1>7, <1>9, <1>10, <1>12 DEF BusInv, Typed

(* Two functions of the msg id that differ for no other message than i.    *)
Besides(here, place, i) == \A k \in Nat : k # i => here[k] = place[k]

LEMMA Elsewhere ==
  ASSUME SenderTyped, Bounded, NEW place, NEW holder, Located(place, holder),
         NEW i \in Nat, NEW s, place[i] = s,
         NEW here, Besides(here, place, i)
  PROVE  /\ \A m \in ToSet(toBroker) : s # "broker" => here[m.id] = "broker"
         /\ \A m \in toRegion : s # "region" => here[m.id] = "region"
         /\ \A m \in ToSet(msgs) : s # "kept" => here[m.id] = "kept"
         /\ \A m \in lost : s # "lost" => here[m.id] = "lost"
         /\ \A w \in Workers : \A m \in ToSet(inbox[w]) : s # "handed" => here[m.id] = "handed"
         /\ \A w \in Workers : \A m \in ToSet(reports[w]) :
              m.type = "Reply" /\ s # "reported" => here[m.id] = "reported"
         /\ \A a \in answers : a.type = "Reply" /\ s # "answered" => here[a.id] = "answered"
         /\ \A a \in answers : a.type # "Reply" /\ here[i] # "broker" => here[a.id] # "broker"
<1>1. last \in Nat
  BY DEF SenderTyped
<1>2. /\ \A m \in ToSet(toBroker) : m.id \in Nat
      /\ \A m \in toRegion : m.id \in Nat
      /\ \A m \in ToSet(msgs) : m.id \in Nat
      /\ \A m \in lost : m.id \in Nat
      /\ \A m \in answers : m.id \in Nat
      /\ \A w \in Workers : \A m \in ToSet(inbox[w]) : m.id \in Nat
      /\ \A w \in Workers : \A m \in ToSet(reports[w]) : m.id \in Nat
  BY <1>1 DEF Bounded
<1>3. \A m \in ToSet(toBroker) : s # "broker" => here[m.id] = "broker"
  BY <1>2 DEF Located, Besides
<1>4. \A m \in toRegion : s # "region" => here[m.id] = "region"
  BY <1>2 DEF Located, Besides
<1>5. \A m \in ToSet(msgs) : s # "kept" => here[m.id] = "kept"
  BY <1>2 DEF Located, Besides
<1>6. \A m \in lost : s # "lost" => here[m.id] = "lost"
  BY <1>2 DEF Located, Besides
<1>7. \A w \in Workers : \A m \in ToSet(inbox[w]) : s # "handed" => here[m.id] = "handed"
  BY <1>2 DEF Located, Besides
<1>8. \A w \in Workers : \A m \in ToSet(reports[w]) :
        m.type = "Reply" /\ s # "reported" => here[m.id] = "reported"
  BY <1>2 DEF Located, Besides
<1>9. \A a \in answers : a.type = "Reply" /\ s # "answered" => here[a.id] = "answered"
  BY <1>2 DEF Located, Besides
<1>10. \A a \in answers : a.type # "Reply" /\ here[i] # "broker" => here[a.id] # "broker"
  BY <1>2 DEF Located, Besides
<1>11. QED BY <1>3, <1>4, <1>5, <1>6, <1>7, <1>8, <1>9, <1>10

LEMMA WaitReplyInv ==
  ASSUME BusInv, wait_reply
  PROVE  BusInv'
<1>1. /\ SenderTyped /\ CarrierTyped /\ WorkersTyped /\ Limits /\ Bounded /\ Singles
  BY Parts
<1>2. /\ waiting' = FALSE /\ count' = 0 /\ fails' = {} /\ replys' = {}
      /\ UNCHANGED <<last, wants, toBroker, toRegion, answers, late, msgs, pool,
                     worker, reports, inbox, lost, faults>>
  BY DEF wait_reply, carrier, processer, workers
<1>3. SenderTyped'
  BY <1>1, <1>2 DEF SenderTyped
<1>4. CarrierTyped' /\ WorkersTyped' /\ Limits' /\ Bounded' /\ Singles'
  BY <1>1, <1>2 DEF CarrierTyped, WorkersTyped, Limits, Bounded, Singles
<1>5. Tracked'
  <2>1. PICK place \in [Nat -> Stages], holder \in [Nat -> Workers \cup {"none"}],
             routed \in [Nat -> SUBSET Payloads] :
          Located(place, holder) /\ Routed(routed) /\ Counted(place, routed)
    BY Parts
  <2>2. Located(place, holder)' /\ Routed(routed)'
    BY <1>2, <2>1 DEF Located, Routed
  <2>3. Counted(place, routed)'
    BY <1>2 DEF Counted
  <2>4. Track(place, holder, routed)'
    BY <2>2, <2>3 DEF Track
  <2> QED BY <2>4 DEF Tracked
<1>6. QED BY <1>3, <1>4, <1>5 DEF BusInv, Typed

(* A reply or a failure that is read is counted once.                      *)
LEMMA ReceiveInv ==
  ASSUME BusInv, NEW a \in answers, receive(a)
  PROVE  BusInv'
<1>1. /\ SenderTyped /\ CarrierTyped /\ WorkersTyped /\ Limits /\ Bounded /\ Singles
  BY Parts
<1>2. /\ waiting /\ answers' = answers \ {a}
      /\ count' = count + Cardinality(mine(a))
      /\ a.type = "Failure" => fails' = fails \cup mine(a) /\ replys' = replys
      /\ a.type # "Failure" => replys' = replys \cup mine(a) /\ fails' = fails
      /\ UNCHANGED <<last, wants, waiting, toBroker, toRegion, late, msgs, pool,
                     worker, reports, inbox, lost, faults>>
  BY DEF receive, processer, workers
<1>3. a \in Answers /\ a.type \in {"Failure", "Reply"} /\ a.id \in 1..last /\ last \in Nat
      /\ a.id \in Nat
  BY <1>1 DEF CarrierTyped, Answers, Bounded, SenderTyped
<1>4. /\ mine(a) \subseteq Payloads /\ IsFiniteSet(mine(a)) /\ Cardinality(mine(a)) \in Nat
      /\ a.id = last => mine(a) = a.payloads \cap wants[last]
      /\ a.id # last => mine(a) = {}
  <2>1. mine(a) \subseteq Payloads
    BY <1>3 DEF mine, Answers
  <2>2. IsFiniteSet(mine(a))
    BY <2>1, BusAssumption, FS_Subset
  <2> QED BY <2>1, <2>2, FS_CardinalityType DEF mine
<1>5. SenderTyped'
  <2>1. count' \in Nat
    BY <1>1, <1>2, <1>4 DEF SenderTyped
  <2>2. fails' \subseteq Payloads /\ replys' \subseteq Payloads
    BY <1>1, <1>2, <1>3, <1>4 DEF SenderTyped
  <2> QED BY <1>1, <1>2, <2>1, <2>2 DEF SenderTyped
<1>6. CarrierTyped' /\ WorkersTyped' /\ Limits' /\ Bounded' /\ Singles'
  BY <1>1, <1>2 DEF CarrierTyped, WorkersTyped, Limits, Bounded, Singles
<1>7. Tracked'
  <2>1. PICK place \in [Nat -> Stages], holder \in [Nat -> Workers \cup {"none"}],
             routed \in [Nat -> SUBSET Payloads] :
          Located(place, holder) /\ Routed(routed) /\ Counted(place, routed)
    BY Parts
  <2> DEFINE f == [place EXCEPT ![a.id] = IF a.type = "Reply" THEN "received" ELSE @]
  <2>2. PICK here \in [Nat -> Stages] :
          /\ here[a.id] = IF a.type = "Reply" THEN "received" ELSE place[a.id]
          /\ \A k \in Nat : k # a.id => here[k] = place[k]
    <3>1. f \in [Nat -> Stages]
      BY <1>3 DEF Stages
    <3>2. /\ f[a.id] = IF a.type = "Reply" THEN "received" ELSE place[a.id]
          /\ \A k \in Nat : k # a.id => f[k] = place[k]
      BY <1>3
    <3> HIDE DEF f
    <3> QED BY <3>1, <3>2
  <2> HIDE DEF f
  <2>3. IF a.type = "Reply" THEN place[a.id] = "answered" ELSE place[a.id] # "broker"
    BY <2>1 DEF Located
  <2>4. here[a.id] # "broker"
    BY <1>3, <2>2, <2>3
  <2>5. Located(here, holder)'
    <3>1. CASE a.type # "Reply"
      <4>1. \A k \in Nat : here[k] = place[k]
        BY <2>2, <3>1
      <4>2. here = place
        BY <2>1, <2>2, <4>1
      <4> QED BY <1>2, <2>1, <4>2 DEF Located
    <3>2. CASE a.type = "Reply"
      <4> DEFINE s == place[a.id]
      <4>1. s = "answered"
        BY <2>3, <3>2
      <4> HIDE DEF s
      <4>2. /\ \A m \in ToSet(toBroker) : s # "broker" => here[m.id] = "broker"
            /\ \A m \in toRegion : s # "region" => here[m.id] = "region"
            /\ \A m \in ToSet(msgs) : s # "kept" => here[m.id] = "kept"
            /\ \A m \in lost : s # "lost" => here[m.id] = "lost"
            /\ \A w \in Workers : \A m \in ToSet(inbox[w]) : s # "handed" => here[m.id] = "handed"
            /\ \A w \in Workers : \A m \in ToSet(reports[w]) :
                 m.type = "Reply" /\ s # "reported" => here[m.id] = "reported"
            /\ \A b \in answers : b.type # "Reply" /\ here[a.id] # "broker" => here[b.id] # "broker"
        <5>1. /\ SenderTyped /\ Bounded /\ Located(place, holder) /\ a.id \in Nat
              /\ place[a.id] = s /\ Besides(here, place, a.id)
          BY <1>1, <1>3, <2>1, <2>2 DEF s, Besides
        <5> QED BY <5>1, Elsewhere
      <4>3. \A b \in answers' : b.type = "Reply" => here[b.id] = "answered"
        <5>1. ASSUME NEW b \in answers', b.type = "Reply" PROVE b.id # a.id /\ b.id \in Nat
          BY <1>1, <1>2, <1>3, <3>2, <5>1 DEF Singles, Bounded
        <5> QED BY <1>2, <2>1, <2>2, <5>1 DEF Located
      <4>4. \A b \in answers' : b.type # "Reply" => here[b.id] # "broker"
        BY <1>2, <2>4, <4>2
      <4> QED BY <1>2, <2>1, <4>1, <4>2, <4>3, <4>4 DEF Located
    <3> QED BY <3>1, <3>2
  <2>6. Routed(routed)'
    BY <1>2, <2>1 DEF Routed
  <2>7. Counted(here, routed)'
    <3>1. /\ last > 0
          /\ fails \cup replys \subseteq wants[last]
          /\ count = Cardinality(fails \cup replys)
          /\ fails \cap routed[last] = {} /\ replys \subseteq routed[last]
          /\ place[last] = "broker" => fails = {}
          /\ replys # {} => place[last] = "received"
          /\ fails # {} => \A b \in answers : b.type = "Failure" => b.id # last
      BY <1>2, <2>1 DEF Counted
    <3>2. CASE a.id # last
      <4>1. count' = count /\ fails' = fails /\ replys' = replys
        <5>1. mine(a) = {} /\ Cardinality(mine(a)) = 0
          BY <1>4, <3>2, FS_EmptySet
        <5>2. count' = count
          BY <1>1, <1>2, <5>1 DEF SenderTyped
        <5> QED BY <1>2, <1>3, <5>1, <5>2
      <4>2. here[last] = place[last]
        BY <1>3, <2>2, <3>2
      <4> QED BY <1>2, <3>1, <4>1, <4>2 DEF Counted
    <3>3. CASE a.id = last
      <4>1. CASE a.type = "Failure"
        <5>1. fails = {}
          BY <3>1, <3>3, <4>1
        <5>2. fails' = mine(a) /\ replys' = replys
          BY <1>2, <4>1, <5>1
        <5>3. mine(a) \cap routed[last] = {} /\ mine(a) \subseteq wants[last]
          BY <1>4, <2>1, <3>3, <4>1 DEF Routed
        <5>4. mine(a) \cap replys = {}
          BY <3>1, <5>3
        <5>5. IsFiniteSet(replys)
          BY <1>1, BusAssumption, FS_Subset DEF SenderTyped
        <5>6. count' = Cardinality(mine(a) \cup replys)
          <6>1. fails \cup replys = replys
            BY <5>1
          <6>2. count = Cardinality(replys) /\ Cardinality(replys) \in Nat
            BY <3>1, <5>5, <6>1, FS_CardinalityType
          <6>3. Cardinality(mine(a) \cup replys)
                  = Cardinality(mine(a)) + Cardinality(replys) - Cardinality(mine(a) \cap replys)
            BY <1>4, <5>5, FS_Union
          <6>4. Cardinality(mine(a) \cap replys) = 0
            BY <5>4, FS_EmptySet
          <6> QED BY <1>2, <1>4, <6>2, <6>3, <6>4
        <5>7. here[last] = place[last] /\ place[last] # "broker"
          BY <2>2, <2>3, <3>3, <4>1
        <5>8. \A b \in answers' : b.type = "Failure" => b.id # last
          BY <1>1, <1>2, <3>3, <4>1 DEF Singles
        <5> QED BY <1>2, <3>1, <5>2, <5>3, <5>6, <5>7, <5>8 DEF Counted
      <4>2. CASE a.type = "Reply"
        <5>1. replys = {}
          BY <2>3, <3>1, <3>3, <4>2
        <5>2. replys' = mine(a) /\ fails' = fails
          BY <1>2, <4>2, <5>1
        <5>3. mine(a) \subseteq routed[last] /\ mine(a) \subseteq wants[last]
          BY <1>4, <2>1, <3>3, <4>2 DEF Routed
        <5>4. fails \cap mine(a) = {}
          BY <3>1, <5>3
        <5>5. IsFiniteSet(fails)
          BY <1>1, BusAssumption, FS_Subset DEF SenderTyped
        <5>6. count' = Cardinality(fails \cup mine(a))
          <6>1. fails \cup replys = fails
            BY <5>1
          <6>2. count = Cardinality(fails) /\ Cardinality(fails) \in Nat
            BY <3>1, <5>5, <6>1, FS_CardinalityType
          <6>3. Cardinality(fails \cup mine(a))
                  = Cardinality(fails) + Cardinality(mine(a)) - Cardinality(fails \cap mine(a))
            BY <1>4, <5>5, FS_Union
          <6>4. Cardinality(fails \cap mine(a)) = 0
            BY <5>4, FS_EmptySet
          <6> QED BY <1>2, <1>4, <6>2, <6>3, <6>4
        <5>7. here[last] = "received"
          BY <2>2, <3>3, <4>2
        <5>8. fails # {} => \A b \in answers' : b.type = "Failure" => b.id # last
          BY <1>2, <3>1
        <5> QED BY <1>2, <3>1, <5>2, <5>3, <5>6, <5>7, <5>8 DEF Counted
      <4> QED BY <1>3, <4>1, <4>2
    <3> QED BY <3>2, <3>3
  <2>8. Track(here, holder, routed)'
    BY <2>5, <2>6, <2>7 DEF Track
  <2> QED BY <2>8 DEF Tracked
<1>8. QED BY <1>5, <1>6, <1>7 DEF BusInv, Typed

-----------------------------------------------------------------------------
(* The broker.                                                             *)

LEMMA RouteInfoInv ==
  ASSUME BusInv, getPayloadsRouteInfo
  PROVE  BusInv'
<1>1. /\ SenderTyped /\ CarrierTyped /\ WorkersTyped /\ Limits /\ Bounded /\ Singles
  BY Parts
<1> DEFINE m == Head(toBroker)
           P == wants[m.id]
<1>2. /\ toBroker # <<>> /\ faults < MaxFaults /\ faults' = faults + 1
      /\ late' = Append(late, P) /\ toBroker' = Tail(toBroker)
      /\ UNCHANGED <<last, wants, waiting, count, fails, replys, toRegion, answers, msgs, pool,
                     worker, reports, inbox, lost>>
  BY DEF getPayloadsRouteInfo, Fault, sender, processer, workers
<1>3. /\ toBroker \in Seq(Posts) /\ late \in Seq(SUBSET Payloads)
      /\ wants \in Seq(SUBSET Payloads \ {{}}) /\ Len(wants) = last
  BY <1>1 DEF CarrierTyped, SenderTyped
<1>4. /\ toBroker' \in Seq(Posts) /\ m \in ToSet(toBroker)
      /\ ToSet(toBroker') \subseteq ToSet(toBroker)
  BY <1>2, <1>3, TailList
<1>5. P \in SUBSET Payloads
  <2>1. m.id \in 1..last
    BY <1>1, <1>4 DEF Bounded
  <2> HIDE DEF m
  <2> QED BY <1>3, <2>1
<1>6. Single(toBroker')
  BY <1>1, <1>2, <1>3, SingleTail DEF Singles
<1> HIDE DEF m, P
<1>7. late' \in Seq(SUBSET Payloads)
  BY <1>2, <1>3, <1>5, AppendList
<1>8. SenderTyped' /\ CarrierTyped' /\ WorkersTyped'
  BY <1>1, <1>2, <1>4, <1>7 DEF SenderTyped, CarrierTyped, WorkersTyped
<1>9. Limits'
  BY <1>1, <1>2, BusAssumption DEF Limits
<1>10. Bounded' /\ Singles'
  BY <1>1, <1>2, <1>4, <1>6 DEF Bounded, Singles
<1>11. Tracked'
  <2>1. PICK place \in [Nat -> Stages], holder \in [Nat -> Workers \cup {"none"}],
             routed \in [Nat -> SUBSET Payloads] :
          Located(place, holder) /\ Routed(routed) /\ Counted(place, routed)
    BY Parts
  <2>2. Located(place, holder)' /\ Routed(routed)'
    BY <1>2, <1>4, <2>1 DEF Located, Routed
  <2>3. Counted(place, routed)'
    BY <1>2, <2>1 DEF Counted
  <2>4. Track(place, holder, routed)'
    BY <2>2, <2>3 DEF Track
  <2> QED BY <2>4 DEF Tracked
<1>12. QED BY <1>8, <1>9, <1>10, <1>11 DEF BusInv, Typed

LEMMA DoWorkInv ==
  ASSUME BusInv, NEW F \in SUBSET Payloads, do_work(F)
  PROVE  BusInv'
<1>1. /\ SenderTyped /\ CarrierTyped /\ WorkersTyped /\ Limits /\ Bounded /\ Singles
  BY Parts
<1> DEFINE m == Head(toBroker)
           asked == Append(late, wants[m.id])
           P == Head(asked)
           x == [type |-> "Failure", id |-> m.id, payloads |-> F]
           y == [id |-> m.id, payloads |-> P \ F]
<1>2. /\ toBroker # <<>> /\ late' = Tail(asked) /\ toBroker' = Tail(toBroker)
      /\ answers' = answers \/ answers' = answers \cup {x}
      /\ toRegion' = toRegion \/ toRegion' = toRegion \cup {y}
      /\ UNCHANGED <<last, wants, waiting, count, fails, replys, msgs, pool,
                     worker, reports, inbox, lost, faults>>
  BY DEF do_work, sender, processer, workers
<1>3. /\ toBroker \in Seq(Posts) /\ late \in Seq(SUBSET Payloads)
      /\ wants \in Seq(SUBSET Payloads \ {{}}) /\ Len(wants) = last /\ last \in Nat
  BY <1>1 DEF CarrierTyped, SenderTyped
<1>4. /\ toBroker' \in Seq(Posts) /\ m \in ToSet(toBroker)
      /\ ToSet(toBroker') \subseteq ToSet(toBroker)
  BY <1>2, <1>3, TailList
<1>5. m.id \in 1..last /\ m.id # 0 /\ m.id \in Nat
  BY <1>1, <1>3, <1>4 DEF Bounded
<1>6. Single(toBroker') /\ \A n \in ToSet(toBroker') : n.id # m.id
  BY <1>1, <1>2, <1>3, <1>5, SingleTail DEF Singles
<1> HIDE DEF m
<1>7. asked \in Seq(SUBSET Payloads) /\ asked # <<>>
  <2>1. wants[m.id] \in SUBSET Payloads
    BY <1>3, <1>5
  <2>2. asked \in Seq(SUBSET Payloads) /\ Len(asked) = Len(late) + 1 /\ Len(late) \in Nat
    BY <1>3, <2>1, AppendList, ListSet
  <2> QED BY <2>2
<1> HIDE DEF asked
<1>8. P \in SUBSET Payloads /\ late' \in Seq(SUBSET Payloads)
  BY <1>2, <1>7, TailList
<1>9. /\ x \in Answers /\ x.id = m.id /\ x.type = "Failure" /\ x.payloads = F
      /\ y \in Messages /\ y.id = m.id /\ y.payloads = P \ F
  BY <1>5, <1>8 DEF Answers, Messages
<1> HIDE DEF x, y, P
<1>10. CarrierTyped' /\ SenderTyped' /\ WorkersTyped' /\ Limits'
  BY <1>1, <1>2, <1>4, <1>8, <1>9 DEF CarrierTyped, SenderTyped, WorkersTyped, Limits
<1>11. Bounded'
  BY <1>1, <1>2, <1>4, <1>5, <1>9 DEF Bounded
<1>12. PICK place \in [Nat -> Stages], holder \in [Nat -> Workers \cup {"none"}],
            routed \in [Nat -> SUBSET Payloads] :
         Located(place, holder) /\ Routed(routed) /\ Counted(place, routed)
  BY Parts
<1>13. place[m.id] = "broker"
  BY <1>4, <1>12 DEF Located
<1>14. /\ \A n \in toRegion : n.id # m.id /\ n.id \in Nat
       /\ \A n \in ToSet(msgs) : n.id # m.id /\ n.id \in Nat
       /\ \A w \in Workers : \A n \in ToSet(inbox[w]) : n.id # m.id /\ n.id \in Nat
       /\ \A w \in Workers : \A n \in ToSet(reports[w]) :
            n.type = "Reply" => n.id # m.id /\ n.id \in Nat
       /\ \A n \in answers : n.id # m.id /\ n.id \in Nat
  BY <1>1, <1>3, <1>12, <1>13 DEF Located, Bounded
<1>15. Singles'
  <2>1. \A n, o \in toRegion' : n.id = o.id => n = o
    BY <1>1, <1>2, <1>9, <1>14 DEF Singles
  <2>2. \A n, o \in answers' : n.type = o.type /\ n.id = o.id => n = o
    BY <1>1, <1>2, <1>9, <1>14 DEF Singles
  <2> QED BY <1>1, <1>2, <1>6, <2>1, <2>2 DEF Singles
<1>16. Tracked'
  <2> DEFINE f == [place EXCEPT ![m.id] = "region"]
             g == [routed EXCEPT ![m.id] = P \ F]
  <2>1. PICK here \in [Nat -> Stages] :
          here[m.id] = "region" /\ \A k \in Nat : k # m.id => here[k] = place[k]
    <3>1. "region" \in Stages
      BY DEF Stages
    <3>2. f \in [Nat -> Stages] /\ f[m.id] = "region" /\ \A k \in Nat : k # m.id => f[k] = place[k]
      BY <1>5, <3>1
    <3> HIDE DEF f
    <3> QED BY <3>2
  <2>2. PICK now \in [Nat -> SUBSET Payloads] :
          now[m.id] = P \ F /\ \A k \in Nat : k # m.id => now[k] = routed[k]
    <3>1. P \ F \in SUBSET Payloads
      BY <1>8
    <3>2. /\ g \in [Nat -> SUBSET Payloads] /\ g[m.id] = P \ F
          /\ \A k \in Nat : k # m.id => g[k] = routed[k]
      BY <1>5, <3>1
    <3> HIDE DEF g
    <3> QED BY <3>2
  <2> HIDE DEF f, g
  <2>3. Located(here, holder)'
    <3> DEFINE s == place[m.id]
    <3>1. s = "broker"
      BY <1>13
    <3> HIDE DEF s
    <3>2. /\ \A n \in toRegion : s # "region" => here[n.id] = "region"
          /\ \A n \in ToSet(msgs) : s # "kept" => here[n.id] = "kept"
          /\ \A n \in lost : s # "lost" => here[n.id] = "lost"
          /\ \A w \in Workers : \A n \in ToSet(inbox[w]) : s # "handed" => here[n.id] = "handed"
          /\ \A w \in Workers : \A n \in ToSet(reports[w]) :
               n.type = "Reply" /\ s # "reported" => here[n.id] = "reported"
          /\ \A a \in answers : a.type = "Reply" /\ s # "answered" => here[a.id] = "answered"
          /\ \A a \in answers : a.type # "Reply" /\ here[m.id] # "broker" => here[a.id] # "broker"
      <4>1. /\ SenderTyped /\ Bounded /\ Located(place, holder) /\ m.id \in Nat
            /\ place[m.id] = s /\ Besides(here, place, m.id)
        BY <1>1, <1>5, <1>12, <2>1 DEF s, Besides
      <4> QED BY <4>1, Elsewhere
    <3>3. \A n \in ToSet(toBroker') : here[n.id] = "broker"
      <4>1. \A n \in ToSet(toBroker') : n.id # m.id /\ n.id \in Nat
        BY <1>1, <1>3, <1>4, <1>6 DEF Bounded
      <4> QED BY <1>4, <1>12, <2>1, <4>1 DEF Located
    <3>4. \A n \in toRegion' : here[n.id] = "region"
      BY <1>2, <1>9, <2>1, <3>1, <3>2
    <3>5. \A a \in answers' :
            IF a.type = "Reply" THEN here[a.id] = "answered" ELSE here[a.id] # "broker"
      BY <1>2, <1>9, <2>1, <3>1, <3>2
    <3> QED BY <1>2, <1>12, <3>1, <3>2, <3>3, <3>4, <3>5 DEF Located
  <2>4. Routed(now)'
    <3>1. /\ \A n \in toRegion : n.payloads \subseteq now[n.id]
          /\ \A n \in ToSet(msgs) : n.payloads \subseteq now[n.id]
      BY <1>12, <1>14, <2>2 DEF Routed
    <3>2. /\ \A w \in Workers : \A n \in ToSet(inbox[w]) : n.payloads \subseteq now[n.id]
          /\ \A w \in Workers : \A n \in ToSet(reports[w]) :
               n.type = "Reply" => n.payloads \subseteq now[n.id]
      BY <1>12, <1>14, <2>2 DEF Routed
    <3>3. \A a \in answers :
            IF a.type = "Reply" THEN a.payloads \subseteq now[a.id] ELSE a.payloads \cap now[a.id] = {}
      BY <1>12, <1>14, <2>2 DEF Routed
    <3>4. x.payloads \cap now[x.id] = {} /\ y.payloads \subseteq now[y.id]
      BY <1>9, <2>2
    <3>5. \A n \in toRegion' : n.payloads \subseteq now[n.id]
      BY <1>2, <3>1, <3>4
    <3>6. \A a \in answers' :
            IF a.type = "Reply" THEN a.payloads \subseteq now[a.id] ELSE a.payloads \cap now[a.id] = {}
      BY <1>2, <1>9, <3>3, <3>4
    <3> QED BY <1>2, <3>1, <3>2, <3>5, <3>6 DEF Routed
  <2>5. Counted(here, now)'
    <3>1. SUFFICES ASSUME waiting PROVE Counted(here, now)'
      BY <1>2 DEF Counted
    <3>2. /\ last > 0
          /\ fails \cup replys \subseteq wants[last]
          /\ count = Cardinality(fails \cup replys)
          /\ fails \cap routed[last] = {} /\ replys \subseteq routed[last]
          /\ place[last] = "broker" => fails = {}
          /\ replys # {} => place[last] = "received"
          /\ fails # {} => \A b \in answers : b.type = "Failure" => b.id # last
      BY <1>12, <3>1 DEF Counted
    <3>3. CASE m.id = last
      <4>1. fails = {} /\ replys = {}
        BY <1>13, <3>2, <3>3
      <4> QED BY <1>2, <3>2, <4>1 DEF Counted
    <3>4. CASE m.id # last
      <4>1. here[last] = place[last] /\ now[last] = routed[last]
        BY <1>3, <2>1, <2>2, <3>4
      <4>2. fails # {} => \A b \in answers' : b.type = "Failure" => b.id # last
        BY <1>2, <1>9, <3>2, <3>4
      <4> QED BY <1>2, <3>2, <4>1, <4>2 DEF Counted
    <3> QED BY <3>3, <3>4
  <2>6. Track(here, holder, now)'
    BY <2>3, <2>4, <2>5 DEF Track
  <2> QED BY <2>6 DEF Tracked
<1>17. QED BY <1>10, <1>11, <1>15, <1>16 DEF BusInv, Typed

-----------------------------------------------------------------------------
(* The workers.                                                            *)

LEMMA WaitInv ==
  ASSUME BusInv, NEW w \in Workers, wait(w)
  PROVE  BusInv'
<1>1. /\ SenderTyped /\ CarrierTyped /\ WorkersTyped /\ Limits /\ Bounded /\ Singles
  BY Parts
<1> DEFINE x == [type |-> "READY", id |-> 0, payloads |-> {}]
<1>2. /\ worker' = [worker EXCEPT ![w] = "ready"]
      /\ reports' = [reports EXCEPT ![w] = Append(@, x)]
      /\ inbox' = [inbox EXCEPT ![w] = IF worker[w] = "busy" THEN Tail(@) ELSE @]
      /\ UNCHANGED <<last, wants, waiting, count, fails, replys, toBroker, toRegion, answers, late,
                     msgs, pool, lost, faults>>
  BY DEF wait, Report, sender, carrier, processer
<1>3. x \in Reports /\ x.id = 0 /\ x.type = "READY"
  BY DEF Reports
<1> HIDE DEF x
<1>4. /\ worker \in [Workers -> {"away", "ready", "busy"}]
      /\ reports \in [Workers -> Seq(Reports)] /\ inbox \in [Workers -> Seq(Messages)]
      /\ reports[w] \in Seq(Reports) /\ inbox[w] \in Seq(Messages)
      /\ Single(reports[w]) /\ Single(inbox[w])
      /\ worker[w] = "busy" => inbox[w] # <<>>
  BY <1>1 DEF WorkersTyped, Singles
<1>5. /\ \A v \in Workers : v # w => inbox'[v] = inbox[v] /\ reports'[v] = reports[v] /\ worker'[v] = worker[v]
      /\ reports'[w] = Append(reports[w], x) /\ worker'[w] = "ready"
      /\ inbox'[w] = IF worker[w] = "busy" THEN Tail(inbox[w]) ELSE inbox[w]
  BY <1>2, <1>4
<1>6. /\ reports'[w] \in Seq(Reports) /\ ToSet(reports'[w]) = ToSet(reports[w]) \cup {x}
      /\ Single(reports'[w])
  BY <1>3, <1>4, <1>5, AppendList, SingleAppend
<1>7. inbox'[w] \in Seq(Messages) /\ ToSet(inbox'[w]) \subseteq ToSet(inbox[w]) /\ Single(inbox'[w])
  <2>1. CASE worker[w] = "busy"
    BY <1>4, <1>5, <2>1, TailList, SingleTail
  <2>2. CASE worker[w] # "busy"
    BY <1>4, <1>5, <2>2
  <2> QED BY <2>1, <2>2
<1>8. /\ worker' \in [Workers -> {"away", "ready", "busy"}]
      /\ reports' \in [Workers -> Seq(Reports)] /\ inbox' \in [Workers -> Seq(Messages)]
  BY <1>2, <1>4, <1>5, <1>6, <1>7
<1>9. SenderTyped' /\ CarrierTyped' /\ WorkersTyped' /\ Limits'
  BY <1>1, <1>2, <1>8 DEF SenderTyped, CarrierTyped, WorkersTyped, Limits
<1>10. /\ \A v \in Workers : ToSet(inbox'[v]) \subseteq ToSet(inbox[v])
       /\ \A v \in Workers : \A n \in ToSet(reports'[v]) : n \in ToSet(reports[v]) \/ n = x
  BY <1>5, <1>6, <1>7
<1>11. Bounded'
  <2>1. \A v \in Workers : \A n \in ToSet(inbox'[v]) : n.id \in 1..last
    BY <1>1, <1>10 DEF Bounded
  <2>2. \A v \in Workers : \A n \in ToSet(reports'[v]) :
          IF n.type = "READY" THEN n.id = 0 ELSE n.id \in 1..last
    BY <1>1, <1>3, <1>10 DEF Bounded
  <2> QED BY <1>1, <1>2, <2>1, <2>2 DEF Bounded
<1>12. Singles'
  <2>1. \A v \in Workers : Single(inbox'[v]) /\ Single(reports'[v])
    BY <1>1, <1>5, <1>6, <1>7 DEF Singles
  <2>2. \A v \in Workers : worker'[v] = "busy" => inbox'[v] # <<>>
    BY <1>1, <1>5 DEF Singles
  <2> QED BY <1>1, <1>2, <2>1, <2>2 DEF Singles
<1>13. Tracked'
  <2>1. PICK place \in [Nat -> Stages], holder \in [Nat -> Workers \cup {"none"}],
             routed \in [Nat -> SUBSET Payloads] :
          Located(place, holder) /\ Routed(routed) /\ Counted(place, routed)
    BY Parts
  <2>2. /\ \A v \in Workers : \A n \in ToSet(inbox'[v]) : place[n.id] = "handed" /\ holder[n.id] = v
        /\ \A v \in Workers : \A n \in ToSet(reports'[v]) :
             n.type = "Reply" => place[n.id] = "reported" /\ holder[n.id] = v
    BY <1>3, <1>10, <2>1 DEF Located
  <2>3. Located(place, holder)'
    BY <1>2, <2>1, <2>2 DEF Located
  <2>4. /\ \A v \in Workers : \A n \in ToSet(inbox'[v]) : n.payloads \subseteq routed[n.id]
        /\ \A v \in Workers : \A n \in ToSet(reports'[v]) :
             n.type = "Reply" => n.payloads \subseteq routed[n.id]
    BY <1>3, <1>10, <2>1 DEF Routed
  <2>5. Routed(routed)'
    BY <1>2, <2>1, <2>4 DEF Routed
  <2>6. Counted(place, routed)'
    BY <1>2, <2>1 DEF Counted
  <2>7. Track(place, holder, routed)'
    BY <2>3, <2>5, <2>6 DEF Track
  <2> QED BY <2>7 DEF Tracked
<1>14. QED BY <1>9, <1>11, <1>12, <1>13 DEF BusInv, Typed

LEMMA DoWaitInv ==
  ASSUME BusInv, NEW w \in Workers, do_wait(w)
  PROVE  BusInv'
<1>1. /\ SenderTyped /\ CarrierTyped /\ WorkersTyped /\ Limits /\ Bounded /\ Singles
  BY Parts
<1>2. /\ inbox[w] # <<>> /\ worker' = [worker EXCEPT ![w] = "busy"]
      /\ UNCHANGED <<last, wants, waiting, count, fails, replys, toBroker, toRegion, answers, late,
                     msgs, pool, reports, inbox, lost, faults>>
  BY DEF do_wait, sender, carrier, processer
<1>3. /\ worker' \in [Workers -> {"away", "ready", "busy"}]
      /\ \A v \in Workers : v # w => worker'[v] = worker[v]
  BY <1>1, <1>2 DEF WorkersTyped
<1>4. SenderTyped' /\ CarrierTyped' /\ WorkersTyped' /\ Limits' /\ Bounded'
  BY <1>1, <1>2, <1>3 DEF SenderTyped, CarrierTyped, WorkersTyped, Limits, Bounded
<1>5. Singles'
  BY <1>1, <1>2, <1>3 DEF Singles
<1>6. Tracked'
  <2>1. PICK place \in [Nat -> Stages], holder \in [Nat -> Workers \cup {"none"}],
             routed \in [Nat -> SUBSET Payloads] :
          Located(place, holder) /\ Routed(routed) /\ Counted(place, routed)
    BY Parts
  <2>2. Located(place, holder)' /\ Routed(routed)' /\ Counted(place, routed)'
    BY <1>2, <2>1 DEF Located, Routed, Counted
  <2>3. Track(place, holder, routed)'
    BY <2>2 DEF Track
  <2> QED BY <2>3 DEF Tracked
<1>7. QED BY <1>4, <1>5, <1>6 DEF BusInv, Typed

LEMMA ReplyInv ==
  ASSUME BusInv, NEW w \in Workers, NEW P \in SUBSET Payloads, reply(w, P)
  PROVE  BusInv'
<1>1. /\ SenderTyped /\ CarrierTyped /\ WorkersTyped /\ Limits /\ Bounded /\ Singles
  BY Parts
<1> DEFINE m == Head(inbox[w])
           x == [type |-> "Reply", id |-> m.id, payloads |-> P]
<1>2. /\ worker[w] = "busy" /\ P \subseteq m.payloads
      /\ worker' = [worker EXCEPT ![w] = "ready"]
      /\ reports' = [reports EXCEPT ![w] = Append(@, x)]
      /\ inbox' = [inbox EXCEPT ![w] = Tail(@)]
      /\ UNCHANGED <<last, wants, waiting, count, fails, replys, toBroker, toRegion, answers, late,
                     msgs, pool, lost, faults>>
  BY DEF reply, Report, sender, carrier, processer
<1>3. /\ worker \in [Workers -> {"away", "ready", "busy"}]
      /\ reports \in [Workers -> Seq(Reports)] /\ inbox \in [Workers -> Seq(Messages)]
      /\ reports[w] \in Seq(Reports) /\ inbox[w] \in Seq(Messages)
      /\ Single(reports[w]) /\ Single(inbox[w])
      /\ inbox[w] # <<>> /\ last \in Nat
  BY <1>1, <1>2 DEF WorkersTyped, Singles, SenderTyped
<1>4. /\ m \in ToSet(inbox[w]) /\ Tail(inbox[w]) \in Seq(Messages)
      /\ ToSet(Tail(inbox[w])) \subseteq ToSet(inbox[w])
  BY <1>3, TailList
<1>5. m.id \in 1..last /\ m.id \in Nat /\ m.id # 0
  BY <1>1, <1>3, <1>4 DEF Bounded
<1>6. Single(Tail(inbox[w])) /\ \A n \in ToSet(Tail(inbox[w])) : n.id # m.id
  BY <1>3, <1>5, SingleTail
<1>7. x \in Reports /\ x.id = m.id /\ x.type = "Reply" /\ x.payloads = P
  BY <1>5 DEF Reports
<1> HIDE DEF x, m
<1>8. /\ \A v \in Workers : v # w => inbox'[v] = inbox[v] /\ reports'[v] = reports[v] /\ worker'[v] = worker[v]
      /\ reports'[w] = Append(reports[w], x) /\ worker'[w] = "ready"
      /\ inbox'[w] = Tail(inbox[w])
  BY <1>2, <1>3
<1>9. reports'[w] \in Seq(Reports) /\ ToSet(reports'[w]) = ToSet(reports[w]) \cup {x}
  BY <1>3, <1>7, <1>8, AppendList
<1>10. /\ worker' \in [Workers -> {"away", "ready", "busy"}]
       /\ reports' \in [Workers -> Seq(Reports)] /\ inbox' \in [Workers -> Seq(Messages)]
  BY <1>2, <1>3, <1>4, <1>8, <1>9
<1>11. SenderTyped' /\ CarrierTyped' /\ WorkersTyped' /\ Limits'
  BY <1>1, <1>2, <1>10 DEF SenderTyped, CarrierTyped, WorkersTyped, Limits
<1>12. /\ \A v \in Workers : ToSet(inbox'[v]) \subseteq ToSet(inbox[v])
       /\ \A v \in Workers : \A n \in ToSet(reports'[v]) : n \in ToSet(reports[v]) \/ (v = w /\ n = x)
  BY <1>4, <1>8, <1>9
<1>13. Bounded'
  <2>1. \A v \in Workers : \A n \in ToSet(inbox'[v]) : n.id \in 1..last
    BY <1>1, <1>12 DEF Bounded
  <2>2. \A v \in Workers : \A n \in ToSet(reports'[v]) :
          IF n.type = "READY" THEN n.id = 0 ELSE n.id \in 1..last
    BY <1>1, <1>5, <1>7, <1>12 DEF Bounded
  <2> QED BY <1>1, <1>2, <2>1, <2>2 DEF Bounded
<1>14. PICK place \in [Nat -> Stages], holder \in [Nat -> Workers \cup {"none"}],
            routed \in [Nat -> SUBSET Payloads] :
         Located(place, holder) /\ Routed(routed) /\ Counted(place, routed)
  BY Parts
<1>15. place[m.id] = "handed" /\ holder[m.id] = w
  BY <1>4, <1>14 DEF Located
<1>16. Singles'
  <2>1. \A n \in ToSet(reports[w]) : n.id # x.id
    <3>1. \A n \in ToSet(reports[w]) : n.type = "READY" \/ n.type = "Reply"
      <4>1. ToSet(reports[w]) \subseteq Reports
        BY <1>3, ListSet
      <4> QED BY <4>1 DEF Reports
    <3> QED BY <1>1, <1>5, <1>7, <1>14, <1>15, <3>1 DEF Located, Bounded
  <2>2. Single(reports'[w])
    BY <1>3, <1>7, <1>8, <2>1, SingleAppend
  <2>3. \A v \in Workers : Single(inbox'[v]) /\ Single(reports'[v])
    BY <1>1, <1>6, <1>8, <2>2 DEF Singles
  <2>4. \A v \in Workers : worker'[v] = "busy" => inbox'[v] # <<>>
    BY <1>1, <1>8 DEF Singles
  <2> QED BY <1>1, <1>2, <2>3, <2>4 DEF Singles
<1>17. Tracked'
  <2> DEFINE f == [place EXCEPT ![m.id] = "reported"]
  <2>1. PICK here \in [Nat -> Stages] :
          here[m.id] = "reported" /\ \A k \in Nat : k # m.id => here[k] = place[k]
    <3>1. "reported" \in Stages
      BY DEF Stages
    <3>2. f \in [Nat -> Stages] /\ f[m.id] = "reported" /\ \A k \in Nat : k # m.id => f[k] = place[k]
      BY <1>5, <3>1
    <3> HIDE DEF f
    <3> QED BY <3>2
  <2> HIDE DEF f
  <2>2. Located(here, holder)'
    <3> DEFINE s == place[m.id]
    <3>1. s = "handed"
      BY <1>15
    <3> HIDE DEF s
    <3>2. /\ \A n \in ToSet(toBroker) : s # "broker" => here[n.id] = "broker"
          /\ \A n \in toRegion : s # "region" => here[n.id] = "region"
          /\ \A n \in ToSet(msgs) : s # "kept" => here[n.id] = "kept"
          /\ \A n \in lost : s # "lost" => here[n.id] = "lost"
          /\ \A v \in Workers : \A n \in ToSet(inbox[v]) : s # "handed" => here[n.id] = "handed"
          /\ \A v \in Workers : \A n \in ToSet(reports[v]) :
               n.type = "Reply" /\ s # "reported" => here[n.id] = "reported"
          /\ \A a \in answers : a.type = "Reply" /\ s # "answered" => here[a.id] = "answered"
          /\ \A a \in answers : a.type # "Reply" /\ here[m.id] # "broker" => here[a.id] # "broker"
      <4>1. /\ SenderTyped /\ Bounded /\ Located(place, holder) /\ m.id \in Nat
            /\ place[m.id] = s /\ Besides(here, place, m.id)
        BY <1>1, <1>5, <1>14, <2>1 DEF s, Besides
      <4> QED BY <4>1, Elsewhere
    <3>3. \A v \in Workers : \A n \in ToSet(inbox'[v]) : here[n.id] = "handed" /\ holder[n.id] = v
      <4>1. ASSUME NEW v \in Workers, NEW n \in ToSet(inbox'[v])
            PROVE  n.id # m.id /\ n.id \in Nat /\ place[n.id] = "handed" /\ holder[n.id] = v
        <5>1. n \in ToSet(inbox[v])
          BY <1>12
        <5>2. place[n.id] = "handed" /\ holder[n.id] = v /\ n.id \in Nat
          BY <1>1, <1>3, <1>14, <5>1 DEF Located, Bounded
        <5>3. n.id # m.id
          BY <1>6, <1>8, <1>15, <5>2
        <5> QED BY <5>2, <5>3
      <4> QED BY <2>1, <4>1
    <3>4. \A v \in Workers : \A n \in ToSet(reports'[v]) :
            n.type = "Reply" => here[n.id] = "reported" /\ holder[n.id] = v
      <4>1. \A v \in Workers : \A n \in ToSet(reports[v]) :
              n.type = "Reply" => here[n.id] = "reported" /\ holder[n.id] = v
        BY <1>14, <3>1, <3>2 DEF Located
      <4> QED BY <1>7, <1>12, <1>15, <2>1, <4>1
    <3> QED BY <1>2, <2>1, <3>1, <3>2, <3>3, <3>4 DEF Located
  <2>3. Routed(routed)'
    <3>1. m.payloads \subseteq routed[m.id]
      BY <1>4, <1>14 DEF Routed
    <3>2. x.payloads \subseteq routed[x.id]
      BY <1>2, <1>7, <3>1
    <3>3. \A v \in Workers : \A n \in ToSet(inbox'[v]) : n.payloads \subseteq routed[n.id]
      BY <1>12, <1>14 DEF Routed
    <3>4. \A v \in Workers : \A n \in ToSet(reports'[v]) :
            n.type = "Reply" => n.payloads \subseteq routed[n.id]
      BY <1>12, <1>14, <3>2 DEF Routed
    <3> QED BY <1>2, <1>14, <3>3, <3>4 DEF Routed
  <2>4. Counted(here, routed)'
    <3>1. m.id = last \/ here[last] = place[last]
      BY <1>3, <2>1
    <3>2. /\ here[last] = "broker" => place[last] = "broker"
          /\ place[last] = "received" => here[last] = "received"
      BY <1>15, <2>1, <3>1
    <3> QED BY <1>2, <1>14, <3>2 DEF Counted
  <2>5. Track(here, holder, routed)'
    BY <2>2, <2>3, <2>4 DEF Track
  <2> QED BY <2>5 DEF Tracked
<1>18. QED BY <1>11, <1>13, <1>16, <1>17 DEF BusInv, Typed

LEMMA VanishInv ==
  ASSUME BusInv, NEW w \in Workers, vanish(w)
  PROVE  BusInv'
<1>1. /\ SenderTyped /\ CarrierTyped /\ WorkersTyped /\ Limits /\ Bounded /\ Singles
  BY Parts
<1> DEFINE gone == ToSet(inbox[w])
<1>2. PICK k \in 0..Len(reports[w]) :
        /\ faults < MaxFaults /\ faults' = faults + 1
        /\ worker' = [worker EXCEPT ![w] = "away"]
        /\ lost' = lost \cup gone
        /\ inbox' = [inbox EXCEPT ![w] = <<>>]
        /\ reports' = [reports EXCEPT ![w] = SubSeq(@, 1, k)]
        /\ UNCHANGED <<last, wants, waiting, count, fails, replys, toBroker, toRegion, answers, late,
                       msgs, pool>>
  BY DEF vanish, Fault, sender, carrier, processer
<1>3. /\ worker \in [Workers -> {"away", "ready", "busy"}]
      /\ reports \in [Workers -> Seq(Reports)] /\ inbox \in [Workers -> Seq(Messages)]
      /\ reports[w] \in Seq(Reports) /\ inbox[w] \in Seq(Messages)
      /\ Single(reports[w]) /\ last \in Nat
  BY <1>1 DEF WorkersTyped, Singles, SenderTyped
<1>4. gone \subseteq Messages /\ Len(reports[w]) \in Nat
  BY <1>3, ListSet
<1> HIDE DEF gone
<1>5. /\ \A v \in Workers : v # w => inbox'[v] = inbox[v] /\ reports'[v] = reports[v] /\ worker'[v] = worker[v]
      /\ reports'[w] = SubSeq(reports[w], 1, k) /\ worker'[w] = "away"
      /\ inbox'[w] = <<>>
  BY <1>2, <1>3
<1>6. /\ reports'[w] \in Seq(Reports) /\ ToSet(reports'[w]) \subseteq ToSet(reports[w])
      /\ Single(reports'[w])
  <2>1. 1 \in 1..(Len(reports[w]) + 1) /\ k \in 0..Len(reports[w]) /\ k >= 1 - 1
    BY <1>4
  <2>2. SubSeq(reports[w], 1, k) \in Seq(Reports) /\ ToSet(SubSeq(reports[w], 1, k)) \subseteq ToSet(reports[w])
    BY <1>3, <2>1, PartList
  <2>3. Single(SubSeq(reports[w], 1, k))
    BY <1>3, <2>1, SinglePart
  <2> QED BY <1>5, <2>2, <2>3
<1>7. ToSet(<<>>) = {} /\ <<>> \in Seq(Messages)
  BY DEF ToSet
<1>8. /\ worker' \in [Workers -> {"away", "ready", "busy"}]
      /\ reports' \in [Workers -> Seq(Reports)] /\ inbox' \in [Workers -> Seq(Messages)]
  BY <1>2, <1>3, <1>5, <1>6, <1>7
<1>9. SenderTyped' /\ CarrierTyped' /\ WorkersTyped'
  BY <1>1, <1>2, <1>4, <1>8 DEF SenderTyped, CarrierTyped, WorkersTyped
<1>10. Limits'
  BY <1>1, <1>2, BusAssumption DEF Limits
<1>11. /\ \A v \in Workers : \A n \in ToSet(inbox'[v]) : v # w /\ n \in ToSet(inbox[v])
       /\ \A v \in Workers : ToSet(reports'[v]) \subseteq ToSet(reports[v])
  BY <1>5, <1>6, <1>7
<1>12. \A n \in gone : n.id \in 1..last /\ n.id \in Nat
  BY <1>1, <1>3 DEF Bounded, gone
<1>13. Bounded'
  <2>1. \A v \in Workers : \A n \in ToSet(inbox'[v]) : n.id \in 1..last
    BY <1>1, <1>11 DEF Bounded
  <2>2. \A v \in Workers : \A n \in ToSet(reports'[v]) :
          IF n.type = "READY" THEN n.id = 0 ELSE n.id \in 1..last
    BY <1>1, <1>11 DEF Bounded
  <2>3. \A n \in lost' : n.id \in 1..last
    BY <1>1, <1>2, <1>12 DEF Bounded
  <2> QED BY <1>1, <1>2, <2>1, <2>2, <2>3 DEF Bounded
<1>14. Singles'
  <2>1. \A v \in Workers : Single(inbox'[v]) /\ Single(reports'[v])
    BY <1>1, <1>5, <1>6, SingleEmpty DEF Singles
  <2>2. \A v \in Workers : worker'[v] = "busy" => inbox'[v] # <<>>
    BY <1>1, <1>5 DEF Singles
  <2> QED BY <1>1, <1>2, <2>1, <2>2 DEF Singles
<1>15. Tracked'
  <2>1. PICK place \in [Nat -> Stages], holder \in [Nat -> Workers \cup {"none"}],
             routed \in [Nat -> SUBSET Payloads] :
          Located(place, holder) /\ Routed(routed) /\ Counted(place, routed)
    BY Parts
  <2> DEFINE f == [i \in Nat |-> IF \E n \in gone : n.id = i THEN "lost" ELSE place[i]]
  <2>2. PICK here \in [Nat -> Stages] :
          \A i \in Nat : here[i] = IF \E n \in gone : n.id = i THEN "lost" ELSE place[i]
    <3>1. "lost" \in Stages
      BY DEF Stages
    <3>2. f \in [Nat -> Stages]
      BY <3>1
    <3>3. \A i \in Nat : f[i] = IF \E n \in gone : n.id = i THEN "lost" ELSE place[i]
      OBVIOUS
    <3> HIDE DEF f
    <3> QED BY <3>2, <3>3
  <2> HIDE DEF f
  <2>3. \A n \in gone : place[n.id] = "handed" /\ holder[n.id] = w
    BY <2>1 DEF Located, gone
  <2>4. \A i \in Nat : place[i] # "handed" \/ holder[i] # w => here[i] = place[i]
    BY <2>2, <2>3
  <2>5. /\ \A n \in ToSet(toBroker) : n.id \in Nat
        /\ \A n \in toRegion : n.id \in Nat
        /\ \A n \in ToSet(msgs) : n.id \in Nat
        /\ \A n \in lost : n.id \in Nat
        /\ \A n \in answers : n.id \in Nat
        /\ \A v \in Workers : \A n \in ToSet(inbox[v]) : n.id \in Nat
        /\ \A v \in Workers : \A n \in ToSet(reports[v]) : n.id \in Nat
    BY <1>1, <1>3 DEF Bounded
  <2>6. Located(here, holder)'
    <3>1. /\ \A n \in ToSet(toBroker) : here[n.id] = "broker"
          /\ \A n \in toRegion : here[n.id] = "region"
          /\ \A n \in ToSet(msgs) : here[n.id] = "kept"
      BY <2>1, <2>4, <2>5 DEF Located
    <3>2. \A n \in lost' : here[n.id] = "lost"
      <4>1. \A n \in lost : here[n.id] = "lost"
        BY <2>1, <2>4, <2>5 DEF Located
      <4>2. \A n \in gone : here[n.id] = "lost"
        BY <1>12, <2>2
      <4> QED BY <1>2, <4>1, <4>2
    <3>3. \A v \in Workers : \A n \in ToSet(inbox'[v]) : here[n.id] = "handed" /\ holder[n.id] = v
      <4>1. \A v \in Workers : \A n \in ToSet(inbox[v]) :
              place[n.id] = "handed" /\ holder[n.id] = v
        BY <2>1 DEF Located
      <4>2. \A v \in Workers : \A n \in ToSet(inbox[v]) : n.id \in Nat
        BY <2>5
      <4>3. ASSUME NEW v \in Workers, NEW n \in ToSet(inbox'[v])
            PROVE  here[n.id] = "handed" /\ holder[n.id] = v
        <5>1. n \in ToSet(inbox[v]) /\ v # w
          BY <1>11
        <5>2. place[n.id] = "handed" /\ holder[n.id] = v /\ n.id \in Nat
          BY <4>1, <4>2, <4>3, <5>1
        <5>3. here[n.id] = place[n.id]
          BY <2>4, <5>1, <5>2
        <5> QED BY <5>2, <5>3
      <4> QED BY <4>3
    <3>4. \A v \in Workers : \A n \in ToSet(reports'[v]) :
            n.type = "Reply" => here[n.id] = "reported" /\ holder[n.id] = v
      <4>1. \A v \in Workers : \A n \in ToSet(reports[v]) :
              n.type = "Reply" => place[n.id] = "reported" /\ holder[n.id] = v
        BY <2>1 DEF Located
      <4>2. \A v \in Workers : \A n \in ToSet(reports[v]) : n.id \in Nat
        BY <2>5
      <4>3. ASSUME NEW v \in Workers, NEW n \in ToSet(reports'[v]), n.type = "Reply"
            PROVE  here[n.id] = "reported" /\ holder[n.id] = v
        <5>1. n \in ToSet(reports[v])
          BY <1>11
        <5>2. place[n.id] = "reported" /\ holder[n.id] = v /\ n.id \in Nat
          BY <4>1, <4>2, <4>3, <5>1
        <5>3. here[n.id] = place[n.id]
          BY <2>4, <5>1, <5>2
        <5> QED BY <5>2, <5>3
      <4> QED BY <4>3
    <3>5. \A a \in answers :
            IF a.type = "Reply" THEN here[a.id] = "answered" ELSE here[a.id] # "broker"
      <4>1. \A a \in answers : a.type = "Reply" => here[a.id] = "answered"
        BY <2>1, <2>4, <2>5 DEF Located
      <4>2. \A a \in answers : a.type # "Reply" => here[a.id] # "broker"
        <5>1. \A i \in Nat : here[i] = "broker" => place[i] = "broker"
          BY <2>2
        <5> QED BY <2>1, <2>5, <5>1 DEF Located
      <4> QED BY <4>1, <4>2
    <3> QED BY <1>2, <3>1, <3>2, <3>3, <3>4, <3>5 DEF Located
  <2>7. Routed(routed)'
    <3>1. \A v \in Workers : \A n \in ToSet(inbox'[v]) : n.payloads \subseteq routed[n.id]
      BY <1>11, <2>1 DEF Routed
    <3>2. \A v \in Workers : \A n \in ToSet(reports'[v]) :
            n.type = "Reply" => n.payloads \subseteq routed[n.id]
      BY <1>11, <2>1 DEF Routed
    <3> QED BY <1>2, <2>1, <3>1, <3>2 DEF Routed
  <2>8. Counted(here, routed)'
    <3>1. /\ here[last] = "broker" => place[last] = "broker"
          /\ place[last] = "received" => here[last] = "received"
      BY <1>3, <2>2, <2>3
    <3> QED BY <1>2, <2>1, <3>1 DEF Counted
  <2>9. Track(here, holder, routed)'
    BY <2>6, <2>7, <2>8 DEF Track
  <2> QED BY <2>9 DEF Tracked
<1>16. QED BY <1>9, <1>10, <1>13, <1>14, <1>15 DEF BusInv, Typed

-----------------------------------------------------------------------------
(* The region.                                                             *)

(* A worker that is pushed is in the pool once.                            *)
LEMMA PushedOnce ==
  ASSUME NEW p \in Seq(Workers), \A i, j \in 1..Len(p) : p[i] = p[j] => i = j, NEW w \in Workers
  PROVE  LET q == Append(Without(p, {w}), w) IN
         /\ q \in Seq(Workers) /\ \A i, j \in 1..Len(q) : q[i] = q[j] => i = j
         /\ ToSet(q) = ToSet(p) \cup {w}
<1> DEFINE r == Without(p, {w})
           q == Append(r, w)
           key == [v \in Workers |-> v]
<1>1. r \in Seq(Workers) /\ ToSet(r) = ToSet(p) \ {w}
  BY WithoutList
<1>2. /\ Len(r) \in Nat /\ \A i \in 1..Len(r) : r[i] \in ToSet(r) /\ r[i] \in Workers
  BY <1>1, ListSet
<1>3. \A i, j \in 1..Len(r) : r[i] = r[j] => i = j
  <2>1. \A i \in 1..Len(p) : key[p[i]] = p[i]
    OBVIOUS
  <2>2. \A i, h \in 1..Len(p) : key[p[i]] = key[p[h]] => i = h
    BY <2>1
  <2>3. \A j \in 1..Len(r) : key[r[j]] = r[j]
    BY <1>2
  <2> HIDE DEF key
  <2>4. \A j, k \in 1..Len(r) : key[r[j]] = key[r[k]] => j = k
    BY <2>2, WithoutDistinct
  <2> QED BY <2>3, <2>4
<1> HIDE DEF r
<1>4. /\ q \in Seq(Workers) /\ Len(q) = Len(r) + 1 /\ ToSet(q) = ToSet(r) \cup {w}
      /\ \A i \in 1..Len(r) : q[i] = r[i]
  BY <1>1, AppendList
<1>5. q[Len(r) + 1] = w
  BY <1>1, AppendList
<1> HIDE DEF q
<1>6. ASSUME NEW i \in 1..Len(q), NEW j \in 1..Len(q), q[i] = q[j] PROVE i = j
  <2>1. \A n \in 1..Len(r) : q[n] # w
    BY <1>1, <1>2, <1>4
  <2>2. \A n \in 1..Len(q) : n \in 1..Len(r) \/ n = Len(r) + 1
    BY <1>2, <1>4
  <2>3. CASE i \in 1..Len(r) /\ j \in 1..Len(r)
    BY <1>3, <1>4, <1>6, <2>3
  <2>4. CASE i = Len(r) + 1 \/ j = Len(r) + 1
    BY <1>5, <1>6, <2>1, <2>2, <2>4
  <2> QED BY <2>2, <2>3, <2>4
<1>7. ToSet(q) = ToSet(p) \cup {w}
  BY <1>1, <1>4
<1>8. QED BY <1>4, <1>6, <1>7 DEF q, r

LEMMA PartDistinct ==
  ASSUME NEW p \in Seq(Workers), \A i, j \in 1..Len(p) : p[i] = p[j] => i = j,
         NEW m \in 1..(Len(p) + 1)
  PROVE  LET q == SubSeq(p, m, Len(p)) IN
         /\ q \in Seq(Workers) /\ \A i, j \in 1..Len(q) : q[i] = q[j] => i = j
         /\ ToSet(q) \subseteq ToSet(p)
<1> DEFINE q == SubSeq(p, m, Len(p))
<1>1. Len(p) \in Nat /\ Len(p) \in 0..Len(p) /\ Len(p) >= m - 1
  OBVIOUS
<1>2. /\ q \in Seq(Workers) /\ Len(q) = Len(p) - m + 1
      /\ \A i \in 1..Len(q) : i + m - 1 \in 1..Len(p) /\ q[i] = p[i + m - 1]
      /\ ToSet(q) \subseteq ToSet(p)
  BY <1>1, PartList
<1> HIDE DEF q
<1>3. ASSUME NEW i \in 1..Len(q), NEW j \in 1..Len(q), q[i] = q[j] PROVE i = j
  <2>1. i + m - 1 \in 1..Len(p) /\ j + m - 1 \in 1..Len(p) /\ q[i] = p[i + m - 1] /\ q[j] = p[j + m - 1]
    BY <1>2
  <2>2. PICK f \in 1..Len(p), h \in 1..Len(p) : f = i + m - 1 /\ h = j + m - 1
    BY <2>1
  <2>3. p[f] = p[h]
    BY <1>3, <2>1, <2>2
  <2>4. f = h
    BY <2>3
  <2>5. i \in Nat /\ j \in Nat /\ m \in Nat
    BY <1>1, <1>2
  <2> QED BY <2>2, <2>4, <2>5
<1>4. QED BY <1>2, <1>3 DEF q

LEMMA WorkerReadableInv ==
  ASSUME BusInv, NEW w \in Workers, onWorkerReadable(w)
  PROVE  BusInv'
<1>1. /\ SenderTyped /\ CarrierTyped /\ WorkersTyped /\ Limits /\ Bounded /\ Singles
  BY Parts
<1> DEFINE x == Head(reports[w])
<1>2. /\ reports[w] # <<>>
      /\ reports' = [reports EXCEPT ![w] = Tail(@)]
      /\ pool' = Append(Without(pool, {w}), w)
      /\ answers' = IF x.type = "READY" THEN answers ELSE answers \cup {x}
      /\ UNCHANGED <<last, wants, waiting, count, fails, replys, toBroker, toRegion, late,
                     msgs, worker, inbox, lost, faults>>
  BY DEF onWorkerReadable, push_worker, sender
<1>3. /\ reports \in [Workers -> Seq(Reports)] /\ reports[w] \in Seq(Reports)
      /\ Single(reports[w]) /\ last \in Nat /\ pool \in Seq(Workers)
      /\ \A i, j \in 1..Len(pool) : pool[i] = pool[j] => i = j
  BY <1>1, <1>2 DEF WorkersTyped, Singles, SenderTyped, Limits
<1>4. /\ x \in ToSet(reports[w]) /\ x \in Reports /\ Tail(reports[w]) \in Seq(Reports)
      /\ ToSet(Tail(reports[w])) \subseteq ToSet(reports[w])
  BY <1>2, <1>3, TailList
<1>5. Single(Tail(reports[w])) /\ (x.id # 0 => \A n \in ToSet(Tail(reports[w])) : n.id # x.id)
  BY <1>2, <1>3, SingleTail
<1>6. /\ x.type # "READY" => x.type = "Reply" /\ x \in Answers /\ x.id \in 1..last /\ x.id \in Nat /\ x.id # 0
  BY <1>1, <1>3, <1>4 DEF Reports, Answers, Bounded
<1> HIDE DEF x
<1>7. /\ \A v \in Workers : v # w => reports'[v] = reports[v]
      /\ reports'[w] = Tail(reports[w])
  BY <1>2, <1>3
<1>8. reports' \in [Workers -> Seq(Reports)]
  BY <1>2, <1>3, <1>4
<1>9. pool' \in Seq(Workers) /\ \A i, j \in 1..Len(pool') : pool'[i] = pool'[j] => i = j
  BY <1>2, <1>3, PushedOnce
<1>10. answers' \subseteq answers \cup {x} /\ (x.type = "READY" => answers' = answers)
       /\ (x.type # "READY" => answers' = answers \cup {x})
  BY <1>2
<1>11. SenderTyped' /\ CarrierTyped' /\ WorkersTyped' /\ Limits'
  <2>1. answers' \subseteq Answers
    BY <1>1, <1>6, <1>10 DEF CarrierTyped
  <2> QED BY <1>1, <1>2, <1>8, <1>9, <2>1 DEF SenderTyped, CarrierTyped, WorkersTyped, Limits
<1>12. \A v \in Workers : ToSet(reports'[v]) \subseteq ToSet(reports[v])
  BY <1>4, <1>7
<1>13. Bounded'
  <2>1. \A v \in Workers : \A n \in ToSet(reports'[v]) :
          IF n.type = "READY" THEN n.id = 0 ELSE n.id \in 1..last
    BY <1>1, <1>12 DEF Bounded
  <2>2. \A n \in answers' : n.id \in 1..last
    BY <1>1, <1>6, <1>10 DEF Bounded
  <2> QED BY <1>1, <1>2, <2>1, <2>2 DEF Bounded
<1>14. PICK place \in [Nat -> Stages], holder \in [Nat -> Workers \cup {"none"}],
            routed \in [Nat -> SUBSET Payloads] :
         Located(place, holder) /\ Routed(routed) /\ Counted(place, routed)
  BY Parts
<1>15. x.type # "READY" => place[x.id] = "reported" /\ holder[x.id] = w
  BY <1>4, <1>6, <1>14 DEF Located
<1>16. Singles'
  <2>1. \A v \in Workers : Single(inbox'[v]) /\ Single(reports'[v])
    BY <1>1, <1>2, <1>5, <1>7 DEF Singles
  <2>2. \A n, o \in answers' : n.type = o.type /\ n.id = o.id => n = o
    <3>1. \A n \in answers : x.type # "READY" /\ n.type = "Reply" => n.id # x.id
      BY <1>14, <1>15 DEF Located
    <3> QED BY <1>1, <1>6, <1>10, <3>1 DEF Singles
  <2> QED BY <1>1, <1>2, <2>1, <2>2 DEF Singles
<1>17. Routed(routed)'
  <2>1. x.type # "READY" => x.payloads \subseteq routed[x.id]
    BY <1>4, <1>6, <1>14 DEF Routed
  <2>2. \A a \in answers' :
          IF a.type = "Reply" THEN a.payloads \subseteq routed[a.id] ELSE a.payloads \cap routed[a.id] = {}
    BY <1>6, <1>10, <1>14, <2>1 DEF Routed
  <2>3. \A v \in Workers : \A n \in ToSet(reports'[v]) :
          n.type = "Reply" => n.payloads \subseteq routed[n.id]
    BY <1>12, <1>14 DEF Routed
  <2> QED BY <1>2, <1>14, <2>2, <2>3 DEF Routed
<1>18. Tracked'
  <2>1. CASE x.type = "READY"
    <3>1. answers' = answers
      BY <1>10, <2>1
    <3>2. \A v \in Workers : \A n \in ToSet(reports'[v]) :
            n.type = "Reply" => place[n.id] = "reported" /\ holder[n.id] = v
      BY <1>12, <1>14 DEF Located
    <3>3. Located(place, holder)'
      BY <1>2, <1>14, <3>1, <3>2 DEF Located
    <3>4. Counted(place, routed)'
      BY <1>2, <1>14, <3>1 DEF Counted
    <3>5. Track(place, holder, routed)'
      BY <1>17, <3>3, <3>4 DEF Track
    <3> QED BY <3>5 DEF Tracked
  <2>2. CASE x.type # "READY"
    <3> DEFINE f == [place EXCEPT ![x.id] = "answered"]
    <3>1. PICK here \in [Nat -> Stages] :
            here[x.id] = "answered" /\ \A k \in Nat : k # x.id => here[k] = place[k]
      <4>1. "answered" \in Stages
        BY DEF Stages
      <4>2. f \in [Nat -> Stages] /\ f[x.id] = "answered" /\ \A k \in Nat : k # x.id => f[k] = place[k]
        BY <1>6, <2>2, <4>1
      <4> HIDE DEF f
      <4> QED BY <4>2
    <3> HIDE DEF f
    <3>2. Located(here, holder)'
      <4> DEFINE s == place[x.id]
      <4>1. s = "reported"
        BY <1>15, <2>2
      <4> HIDE DEF s
      <4>2. /\ \A n \in ToSet(toBroker) : s # "broker" => here[n.id] = "broker"
            /\ \A n \in toRegion : s # "region" => here[n.id] = "region"
            /\ \A n \in ToSet(msgs) : s # "kept" => here[n.id] = "kept"
            /\ \A n \in lost : s # "lost" => here[n.id] = "lost"
            /\ \A v \in Workers : \A n \in ToSet(inbox[v]) : s # "handed" => here[n.id] = "handed"
            /\ \A a \in answers : a.type = "Reply" /\ s # "answered" => here[a.id] = "answered"
            /\ \A a \in answers : a.type # "Reply" /\ here[x.id] # "broker" => here[a.id] # "broker"
        <5>1. /\ SenderTyped /\ Bounded /\ Located(place, holder) /\ x.id \in Nat
              /\ place[x.id] = s /\ Besides(here, place, x.id)
          BY <1>1, <1>6, <1>14, <2>2, <3>1 DEF s, Besides
        <5> QED BY <5>1, Elsewhere
      <4>3. \A v \in Workers : \A n \in ToSet(reports'[v]) :
              n.type = "Reply" => here[n.id] = "reported" /\ holder[n.id] = v
        <5>1. ASSUME NEW v \in Workers, NEW n \in ToSet(reports'[v]), n.type = "Reply"
              PROVE  n.id # x.id /\ n.id \in Nat /\ place[n.id] = "reported" /\ holder[n.id] = v
          <6>1. n \in ToSet(reports[v])
            BY <1>12
          <6>2. place[n.id] = "reported" /\ holder[n.id] = v /\ n.id \in Nat
            BY <1>1, <1>3, <1>14, <5>1, <6>1 DEF Located, Bounded
          <6>3. n.id # x.id
            BY <1>5, <1>6, <1>7, <1>15, <2>2, <6>2
          <6> QED BY <6>2, <6>3
        <5> QED BY <3>1, <5>1
      <4>4. \A a \in answers' :
              IF a.type = "Reply" THEN here[a.id] = "answered" ELSE here[a.id] # "broker"
        BY <1>6, <1>10, <2>2, <3>1, <4>1, <4>2
      <4>5. \A v \in Workers : \A n \in ToSet(inbox[v]) : holder[n.id] = v
        BY <1>14 DEF Located
      <4> QED BY <1>2, <4>1, <4>2, <4>3, <4>4, <4>5 DEF Located
    <3>3. Counted(here, routed)'
      <4>1. x.id = last \/ here[last] = place[last]
        BY <1>3, <3>1
      <4>2. /\ here[last] = "broker" => place[last] = "broker"
            /\ place[last] = "received" => here[last] = "received"
        BY <1>15, <2>2, <3>1, <4>1
      <4>3. \A a \in answers' : a.type = "Failure" => a \in answers
        BY <1>6, <1>10, <2>2
      <4> QED BY <1>2, <1>14, <4>2, <4>3 DEF Counted
    <3>4. Track(here, holder, routed)'
      BY <1>17, <3>2, <3>3 DEF Track
    <3> QED BY <3>4 DEF Tracked
  <2> QED BY <2>1, <2>2
<1>19. QED BY <1>11, <1>13, <1>16, <1>18 DEF BusInv, Typed

(* What onBusReadable comes to: the message is handed to a worker, or kept. *)
PoolKept ==
  /\ pool' \in Seq(Workers) /\ \A i, j \in 1..Len(pool') : pool'[i] = pool'[j] => i = j
  /\ ToSet(pool') \subseteq ToSet(pool)

Hand(m, w) ==
  /\ PoolKept
  /\ toRegion' = toRegion \ {m} /\ inbox' = [inbox EXCEPT ![w] = Append(@, m)]
  /\ UNCHANGED <<sender, toBroker, answers, late, msgs, worker, reports, deaths, lost, faults>>

Keep(m) ==
  /\ PoolKept
  /\ toRegion' = toRegion \ {m} /\ keep(m)
  /\ faults' \in 0..MaxFaults
  /\ UNCHANGED <<sender, toBroker, answers, late, worker, reports, inbox, deaths>>

LEMMA HandInv ==
  ASSUME BusInv, NEW m \in toRegion, NEW w \in Workers, Hand(m, w)
  PROVE  BusInv'
<1>1. /\ SenderTyped /\ CarrierTyped /\ WorkersTyped /\ Limits /\ Bounded /\ Singles
  BY Parts
<1>2. /\ pool' \in Seq(Workers) /\ \A i, j \in 1..Len(pool') : pool'[i] = pool'[j] => i = j
      /\ toRegion' = toRegion \ {m} /\ inbox' = [inbox EXCEPT ![w] = Append(@, m)]
      /\ UNCHANGED <<last, wants, waiting, count, fails, replys, toBroker, answers, late, msgs,
                     worker, reports, lost, faults>>
  BY DEF Hand, PoolKept, sender
<1>3. /\ inbox \in [Workers -> Seq(Messages)] /\ inbox[w] \in Seq(Messages)
      /\ Single(inbox[w]) /\ last \in Nat /\ m \in Messages /\ m.id \in 1..last /\ m.id \in Nat
  BY <1>1 DEF WorkersTyped, CarrierTyped, Singles, SenderTyped, Bounded
<1>4. /\ \A v \in Workers : v # w => inbox'[v] = inbox[v]
      /\ inbox'[w] = Append(inbox[w], m)
  BY <1>2, <1>3
<1>5. inbox'[w] \in Seq(Messages) /\ ToSet(inbox'[w]) = ToSet(inbox[w]) \cup {m}
  BY <1>3, <1>4, AppendList
<1>6. inbox' \in [Workers -> Seq(Messages)]
  BY <1>2, <1>3, <1>4, <1>5
<1>7. SenderTyped' /\ CarrierTyped' /\ WorkersTyped' /\ Limits'
  BY <1>1, <1>2, <1>6 DEF SenderTyped, CarrierTyped, WorkersTyped, Limits
<1>8. \A v \in Workers : \A n \in ToSet(inbox'[v]) : n \in ToSet(inbox[v]) \/ (v = w /\ n = m)
  BY <1>4, <1>5
<1>9. Bounded'
  <2>1. \A v \in Workers : \A n \in ToSet(inbox'[v]) : n.id \in 1..last
    BY <1>1, <1>3, <1>8 DEF Bounded
  <2> QED BY <1>1, <1>2, <2>1 DEF Bounded
<1>10. PICK place \in [Nat -> Stages], holder \in [Nat -> Workers \cup {"none"}],
            routed \in [Nat -> SUBSET Payloads] :
         Located(place, holder) /\ Routed(routed) /\ Counted(place, routed)
  BY Parts
<1>11. place[m.id] = "region"
  BY <1>10 DEF Located
<1>12. \A v \in Workers : \A n \in ToSet(inbox[v]) :
         n.id # m.id /\ n.id \in Nat /\ place[n.id] = "handed" /\ holder[n.id] = v
  BY <1>1, <1>3, <1>10, <1>11 DEF Located, Bounded
<1>13. Singles'
  <2>1. Single(inbox'[w])
    BY <1>3, <1>4, <1>12, SingleAppend
  <2>2. \A v \in Workers : Single(inbox'[v]) /\ Single(reports'[v])
    BY <1>1, <1>2, <1>4, <2>1 DEF Singles
  <2>3. Len(inbox'[w]) = Len(inbox[w]) + 1 /\ Len(inbox[w]) \in Nat
    BY <1>3, <1>4, AppendList, ListSet
  <2>4. inbox'[w] # <<>>
    BY <2>3
  <2>5. \A v \in Workers : worker'[v] = "busy" => inbox'[v] # <<>>
    BY <1>1, <1>2, <1>4, <2>4 DEF Singles
  <2> QED BY <1>1, <1>2, <2>2, <2>5 DEF Singles
<1>14. Tracked'
  <2> DEFINE f == [place EXCEPT ![m.id] = "handed"]
             g == [holder EXCEPT ![m.id] = w]
  <2>1. PICK here \in [Nat -> Stages] :
          here[m.id] = "handed" /\ \A k \in Nat : k # m.id => here[k] = place[k]
    <3>1. "handed" \in Stages
      BY DEF Stages
    <3>2. f \in [Nat -> Stages] /\ f[m.id] = "handed" /\ \A k \in Nat : k # m.id => f[k] = place[k]
      BY <1>3, <3>1
    <3> HIDE DEF f
    <3> QED BY <3>2
  <2>2. PICK now \in [Nat -> Workers \cup {"none"}] :
          now[m.id] = w /\ \A k \in Nat : k # m.id => now[k] = holder[k]
    <3>1. /\ g \in [Nat -> Workers \cup {"none"}] /\ g[m.id] = w
          /\ \A k \in Nat : k # m.id => g[k] = holder[k]
      BY <1>3
    <3> HIDE DEF g
    <3> QED BY <3>1
  <2> HIDE DEF f, g
  <2>3. Located(here, now)'
    <3> DEFINE s == place[m.id]
    <3>1. s = "region"
      BY <1>11
    <3> HIDE DEF s
    <3>2. /\ \A n \in ToSet(toBroker) : s # "broker" => here[n.id] = "broker"
          /\ \A n \in toRegion : s # "region" => here[n.id] = "region"
          /\ \A n \in ToSet(msgs) : s # "kept" => here[n.id] = "kept"
          /\ \A n \in lost : s # "lost" => here[n.id] = "lost"
          /\ \A v \in Workers : \A n \in ToSet(inbox[v]) : s # "handed" => here[n.id] = "handed"
          /\ \A v \in Workers : \A n \in ToSet(reports[v]) :
               n.type = "Reply" /\ s # "reported" => here[n.id] = "reported"
          /\ \A a \in answers : a.type = "Reply" /\ s # "answered" => here[a.id] = "answered"
          /\ \A a \in answers : a.type # "Reply" /\ here[m.id] # "broker" => here[a.id] # "broker"
      <4>1. /\ SenderTyped /\ Bounded /\ Located(place, holder) /\ m.id \in Nat
            /\ place[m.id] = s /\ Besides(here, place, m.id)
        BY <1>1, <1>3, <1>10, <2>1 DEF s, Besides
      <4> QED BY <4>1, Elsewhere
    <3>3. \A n \in toRegion' : here[n.id] = "region"
      <4>1. \A n \in toRegion' : n.id # m.id /\ n.id \in Nat /\ n \in toRegion
        BY <1>1, <1>2, <1>3 DEF Singles, Bounded
      <4> QED BY <1>10, <2>1, <4>1 DEF Located
    <3>4. \A v \in Workers : \A n \in ToSet(inbox'[v]) : here[n.id] = "handed" /\ now[n.id] = v
      <4>1. ASSUME NEW v \in Workers, NEW n \in ToSet(inbox'[v])
            PROVE  here[n.id] = "handed" /\ now[n.id] = v
        <5>1. CASE n \in ToSet(inbox[v])
          BY <1>12, <2>1, <2>2, <5>1
        <5>2. CASE v = w /\ n = m
          BY <2>1, <2>2, <5>2
        <5> QED BY <1>8, <5>1, <5>2
      <4> QED BY <4>1
    <3>5. \A v \in Workers : \A n \in ToSet(reports[v]) : n.type = "Reply" => now[n.id] = v
      <4>1. \A v \in Workers : \A n \in ToSet(reports[v]) :
              n.type = "Reply" => n.id \in Nat /\ n.id # m.id /\ holder[n.id] = v
        BY <1>1, <1>3, <1>10, <1>11 DEF Located, Bounded
      <4> QED BY <2>2, <4>1
    <3> QED BY <1>2, <2>1, <3>1, <3>2, <3>3, <3>4, <3>5 DEF Located
  <2>4. Routed(routed)'
    <3>1. \A v \in Workers : \A n \in ToSet(inbox'[v]) : n.payloads \subseteq routed[n.id]
      BY <1>8, <1>10 DEF Routed
    <3> QED BY <1>2, <1>10, <3>1 DEF Routed
  <2>5. Counted(here, routed)'
    <3>1. m.id = last \/ here[last] = place[last]
      BY <1>3, <2>1
    <3>2. /\ here[last] = "broker" => place[last] = "broker"
          /\ place[last] = "received" => here[last] = "received"
      BY <1>11, <2>1, <3>1
    <3> QED BY <1>2, <1>10, <3>2 DEF Counted
  <2>6. Track(here, now, routed)'
    BY <2>3, <2>4, <2>5 DEF Track
  <2> QED BY <2>6 DEF Tracked
<1>15. QED BY <1>7, <1>9, <1>13, <1>14 DEF BusInv, Typed

(* A list that holds what it held, and m, or m in place of its head.       *)
LEMMA KeptList ==
  ASSUME BusInv, NEW m \in Messages, m.id # 0, \A n \in ToSet(msgs) : n.id # m.id, keep(m)
  PROVE  /\ msgs' \in Seq(Messages) /\ Len(msgs') <= Hwm /\ Single(msgs')
         /\ m \in ToSet(msgs') /\ ToSet(msgs') \subseteq ToSet(msgs) \cup {m}
         /\ \/ lost' = lost /\ ToSet(msgs) \subseteq ToSet(msgs')
            \/ \E h \in ToSet(msgs) :
                 /\ lost' = lost \cup {h} /\ ToSet(msgs) \subseteq ToSet(msgs') \cup {h}
                 /\ h.id # 0 => \A n \in ToSet(msgs') : n.id # h.id
<1>1. /\ msgs \in Seq(Messages) /\ Single(msgs) /\ Len(msgs) <= Hwm /\ Len(msgs) \in Nat
      /\ Hwm \in Nat /\ Hwm > 1
  BY Parts, ListSet, BusAssumption DEF WorkersTyped, Singles, Limits
<1>2. CASE Len(msgs) >= Hwm
  <2> DEFINE t == Tail(msgs)
             h == Head(msgs)
  <2>1. msgs' = Append(t, m) /\ lost' = lost \cup {h}
    BY <1>2 DEF keep
  <2>2. msgs # <<>>
    BY <1>1, <1>2
  <2>3. /\ t \in Seq(Messages) /\ Len(t) = Len(msgs) - 1 /\ h \in ToSet(msgs)
        /\ ToSet(msgs) = {h} \cup ToSet(t)
    BY <1>1, <2>2, TailList
  <2>4. Single(t) /\ (h.id # 0 => \A n \in ToSet(t) : n.id # h.id)
    BY <1>1, <2>2, SingleTail
  <2> HIDE DEF t, h
  <2>5. msgs' \in Seq(Messages) /\ Len(msgs') = Len(t) + 1 /\ ToSet(msgs') = ToSet(t) \cup {m}
    BY <2>1, <2>3, AppendList
  <2>6. \A n \in ToSet(t) : n.id # m.id
    BY <2>3
  <2>7. Single(msgs')
    BY <2>1, <2>3, <2>4, <2>6, SingleAppend
  <2>8. Len(msgs') <= Hwm
    BY <1>1, <2>3, <2>5
  <2>9. h.id # 0 => \A n \in ToSet(msgs') : n.id # h.id
    BY <2>3, <2>4, <2>5
  <2>10. m \in ToSet(msgs') /\ ToSet(msgs') \subseteq ToSet(msgs) \cup {m}
         /\ ToSet(msgs) \subseteq ToSet(msgs') \cup {h}
    BY <2>3, <2>5
  <2> QED BY <2>1, <2>3, <2>5, <2>7, <2>8, <2>9, <2>10
<1>3. CASE ~ (Len(msgs) >= Hwm)
  <2>1. msgs' = Append(msgs, m) /\ lost' = lost
    BY <1>3 DEF keep
  <2>2. msgs' \in Seq(Messages) /\ Len(msgs') = Len(msgs) + 1 /\ ToSet(msgs') = ToSet(msgs) \cup {m}
    BY <1>1, <2>1, AppendList
  <2>3. Single(msgs')
    BY <1>1, <2>1, SingleAppend
  <2>4. Len(msgs') <= Hwm
    BY <1>1, <1>3, <2>2
  <2> QED BY <2>1, <2>2, <2>3, <2>4
<1>4. QED BY <1>2, <1>3

LEMMA KeepInv ==
  ASSUME BusInv, NEW m \in toRegion, Keep(m)
  PROVE  BusInv'
<1>1. /\ SenderTyped /\ CarrierTyped /\ WorkersTyped /\ Limits /\ Bounded /\ Singles
  BY Parts
<1>2. /\ pool' \in Seq(Workers) /\ \A i, j \in 1..Len(pool') : pool'[i] = pool'[j] => i = j
      /\ toRegion' = toRegion \ {m} /\ faults' \in 0..MaxFaults
      /\ UNCHANGED <<last, wants, waiting, count, fails, replys, toBroker, answers, late,
                     worker, reports, inbox>>
  BY DEF Keep, PoolKept, sender
<1>3. last \in Nat /\ m \in Messages /\ m.id \in 1..last /\ m.id \in Nat /\ m.id # 0
  BY <1>1 DEF CarrierTyped, SenderTyped, Bounded
<1>4. PICK place \in [Nat -> Stages], holder \in [Nat -> Workers \cup {"none"}],
           routed \in [Nat -> SUBSET Payloads] :
         Located(place, holder) /\ Routed(routed) /\ Counted(place, routed)
  BY Parts
<1>5. place[m.id] = "region"
  BY <1>4 DEF Located
<1>6. \A n \in ToSet(msgs) : n.id # m.id /\ n.id \in 1..last /\ place[n.id] = "kept" /\ n \in Messages
  <2>1. ToSet(msgs) \subseteq Messages
    BY <1>1, ListSet DEF WorkersTyped
  <2> QED BY <1>1, <1>4, <1>5, <2>1 DEF Located, Bounded
<1>7. keep(m)
  BY DEF Keep
<1>8. /\ msgs' \in Seq(Messages) /\ Len(msgs') <= Hwm /\ Single(msgs')
      /\ m \in ToSet(msgs') /\ ToSet(msgs') \subseteq ToSet(msgs) \cup {m}
      /\ \/ lost' = lost /\ ToSet(msgs) \subseteq ToSet(msgs')
         \/ \E h \in ToSet(msgs) :
              /\ lost' = lost \cup {h} /\ ToSet(msgs) \subseteq ToSet(msgs') \cup {h}
              /\ h.id # 0 => \A n \in ToSet(msgs') : n.id # h.id
  BY <1>3, <1>6, <1>7, KeptList
<1>9. PICK dropped \in SUBSET Messages :
        /\ dropped \subseteq ToSet(msgs) /\ lost' = lost \cup dropped
        /\ \A h \in dropped : \A n \in ToSet(msgs') : n.id # h.id
  <2>1. CASE lost' = lost
    <3>1. {} \subseteq ToSet(msgs) /\ lost' = lost \cup {} /\ {} \in SUBSET Messages
      BY <2>1
    <3> QED BY <3>1
  <2>2. ASSUME NEW h \in ToSet(msgs), lost' = lost \cup {h},
               h.id # 0 => \A n \in ToSet(msgs') : n.id # h.id
        PROVE  \E d \in SUBSET Messages :
                 /\ d \subseteq ToSet(msgs) /\ lost' = lost \cup d
                 /\ \A g \in d : \A n \in ToSet(msgs') : n.id # g.id
    <3>1. h.id # 0 /\ {h} \in SUBSET Messages /\ {h} \subseteq ToSet(msgs)
      BY <1>3, <1>6
    <3>2. \A g \in {h} : \A n \in ToSet(msgs') : n.id # g.id
      BY <2>2, <3>1
    <3> QED BY <2>2, <3>1, <3>2
  <2> QED BY <1>8, <2>1, <2>2
<1>10. SenderTyped' /\ CarrierTyped' /\ WorkersTyped' /\ Limits'
  BY <1>1, <1>2, <1>8, <1>9 DEF SenderTyped, CarrierTyped, WorkersTyped, Limits
<1>11. Bounded'
  <2>1. /\ \A n \in ToSet(msgs') : n.id \in 1..last
        /\ \A n \in lost' : n.id \in 1..last
    BY <1>1, <1>3, <1>6, <1>8, <1>9 DEF Bounded
  <2> QED BY <1>1, <1>2, <2>1 DEF Bounded
<1>12. Singles'
  BY <1>1, <1>2, <1>8 DEF Singles
<1>13. Tracked'
  <2> DEFINE f == [i \in Nat |-> IF i = m.id THEN "kept"
                                 ELSE IF \E n \in dropped : n.id = i THEN "lost" ELSE place[i]]
  <2>1. PICK here \in [Nat -> Stages] :
          \A i \in Nat : here[i] = IF i = m.id THEN "kept"
                                   ELSE IF \E n \in dropped : n.id = i THEN "lost" ELSE place[i]
    <3>1. "lost" \in Stages /\ "kept" \in Stages
      BY DEF Stages
    <3>2. f \in [Nat -> Stages]
      BY <3>1
    <3>3. \A i \in Nat : f[i] = IF i = m.id THEN "kept"
                                ELSE IF \E n \in dropped : n.id = i THEN "lost" ELSE place[i]
      OBVIOUS
    <3> HIDE DEF f
    <3> QED BY <3>2, <3>3
  <2> HIDE DEF f
  <2>2. \A n \in dropped : place[n.id] = "kept" /\ n.id # m.id /\ n.id \in Nat
    BY <1>3, <1>6, <1>9
  <2>3. \A i \in Nat : place[i] # "kept" /\ place[i] # "region" => here[i] = place[i]
    BY <1>5, <2>1, <2>2
  <2>4. /\ \A n \in ToSet(toBroker) : n.id \in Nat
        /\ \A n \in toRegion : n.id \in Nat
        /\ \A n \in ToSet(msgs) : n.id \in Nat
        /\ \A n \in lost : n.id \in Nat
        /\ \A n \in answers : n.id \in Nat
        /\ \A v \in Workers : \A n \in ToSet(inbox[v]) : n.id \in Nat
        /\ \A v \in Workers : \A n \in ToSet(reports[v]) : n.id \in Nat
    BY <1>1, <1>3 DEF Bounded
  <2>5. Located(here, holder)'
    <3>1. \A n \in ToSet(toBroker) : here[n.id] = "broker"
      BY <1>4, <2>3, <2>4 DEF Located
    <3>2. \A n \in toRegion' : here[n.id] = "region"
      <4>1. ASSUME NEW n \in toRegion' PROVE here[n.id] = "region"
        <5>1. n \in toRegion /\ n.id # m.id
          BY <1>1, <1>2 DEF Singles
        <5>2. place[n.id] = "region" /\ n.id \in Nat
          BY <1>4, <2>4, <5>1 DEF Located
        <5>3. \A h \in dropped : h.id # n.id
          BY <2>2, <5>2
        <5> QED BY <2>1, <5>1, <5>2, <5>3
      <4> QED BY <4>1
    <3>3. \A n \in ToSet(msgs') : here[n.id] = "kept"
      <4>1. ASSUME NEW n \in ToSet(msgs') PROVE here[n.id] = "kept"
        <5>1. CASE n = m
          BY <1>3, <2>1, <5>1
        <5>2. CASE n \in ToSet(msgs)
          <6>1. n.id # m.id /\ n.id \in Nat /\ place[n.id] = "kept"
            BY <1>6, <2>4, <5>2
          <6>2. \A h \in dropped : h.id # n.id
            BY <1>9
          <6> QED BY <2>1, <6>1, <6>2
        <5> QED BY <1>8, <5>1, <5>2
      <4> QED BY <4>1
    <3>4. \A n \in lost' : here[n.id] = "lost"
      <4>1. \A n \in lost : here[n.id] = "lost"
        BY <1>4, <2>3, <2>4 DEF Located
      <4>2. \A n \in dropped : here[n.id] = "lost"
        BY <2>1, <2>2
      <4> QED BY <1>9, <4>1, <4>2
    <3>5. /\ \A v \in Workers : \A n \in ToSet(inbox[v]) : here[n.id] = "handed" /\ holder[n.id] = v
          /\ \A v \in Workers : \A n \in ToSet(reports[v]) :
               n.type = "Reply" => here[n.id] = "reported" /\ holder[n.id] = v
      BY <1>4, <2>3, <2>4 DEF Located
    <3>6. \A a \in answers :
            IF a.type = "Reply" THEN here[a.id] = "answered" ELSE here[a.id] # "broker"
      <4>1. \A a \in answers : a.type = "Reply" => here[a.id] = "answered"
        BY <1>4, <2>3, <2>4 DEF Located
      <4>2. \A i \in Nat : here[i] = "broker" => place[i] = "broker"
        BY <2>1
      <4>3. \A a \in answers : a.type # "Reply" => here[a.id] # "broker"
        BY <1>4, <2>4, <4>2 DEF Located
      <4> QED BY <4>1, <4>3
    <3> QED BY <1>2, <3>1, <3>2, <3>3, <3>4, <3>5, <3>6 DEF Located
  <2>6. Routed(routed)'
    <3>1. \A n \in ToSet(msgs') : n.payloads \subseteq routed[n.id]
      BY <1>4, <1>8 DEF Routed
    <3> QED BY <1>2, <1>4, <3>1 DEF Routed
  <2>7. Counted(here, routed)'
    <3>1. /\ here[last] = "broker" => place[last] = "broker"
          /\ place[last] = "received" => here[last] = "received"
      BY <1>3, <2>1, <2>3
    <3> QED BY <1>2, <1>4, <3>1 DEF Counted
  <2>8. Track(here, holder, routed)'
    BY <2>5, <2>6, <2>7 DEF Track
  <2> QED BY <2>8 DEF Tracked
<1>14. QED BY <1>10, <1>11, <1>12, <1>13 DEF BusInv, Typed

(* sendto_worker: the workers before the first that is connected are gone. *)
LEMMA BusReadableParts ==
  ASSUME BusInv, NEW m \in toRegion, onBusReadable(m)
  PROVE  \/ \E w \in Workers : Hand(m, w) /\ (\E i \in 1..Len(pool) :
                 /\ w = pool[i] /\ connected(w) /\ pool' = SubSeq(pool, i + 1, Len(pool))
                 /\ \A j \in 1..Len(pool) : j < i => ~ connected(pool[j]))
         \/ Keep(m) /\ faults' > 0
         \/ Keep(m) /\ pool' = <<>> /\ \A i \in 1..Len(pool) : ~ connected(pool[i])
<1> DEFINE live == {i \in 1..Len(pool) : connected(pool[i])}
           first == CHOOSE i \in live : \A j \in live : i <= j
<1>1. /\ pool \in Seq(Workers) /\ Len(pool) \in Nat
      /\ \A i, j \in 1..Len(pool) : pool[i] = pool[j] => i = j
      /\ faults \in 0..MaxFaults /\ MaxFaults \in Nat
  BY Parts, ListSet, BusAssumption DEF WorkersTyped, Limits
<1>2. /\ toRegion' = toRegion \ {m}
      /\ UNCHANGED <<sender, toBroker, answers, late, worker, reports, deaths>>
      /\ \/ /\ live # {}
            /\ inbox' = [inbox EXCEPT ![pool[first]] = Append(@, m)]
            /\ pool' = SubSeq(pool, first + 1, Len(pool))
            /\ UNCHANGED <<msgs, lost, faults>>
         \/ /\ live # {} /\ Fault
            /\ pool' = SubSeq(pool, first, Len(pool))
            /\ keep(m)
            /\ UNCHANGED inbox
         \/ /\ live = {}
            /\ pool' = <<>>
            /\ keep(m)
            /\ UNCHANGED <<inbox, faults>>
  BY DEF onBusReadable
<1>3. live # {} => first \in live
  <2>1. live \subseteq Nat
    OBVIOUS
  <2>2. live # {} => \E i \in live : \A j \in live : i <= j
    BY <2>1, NatLeast
  <2> QED BY <2>2
<1>4. live # {} => /\ first \in 1..Len(pool) /\ first + 1 \in 1..(Len(pool) + 1)
                   /\ first \in 1..(Len(pool) + 1)
                   /\ pool[first] \in Workers /\ connected(pool[first])
                   /\ \A j \in 1..Len(pool) : j < first => ~ connected(pool[j])
  <2>1. live # {} => /\ first \in 1..Len(pool) /\ connected(pool[first])
                     /\ \A j \in 1..Len(pool) : connected(pool[j]) => first <= j
    <3>1. live # {} => \A j \in live : first <= j
      <4>1. live # {} => \E i \in live : \A j \in live : i <= j
        <5>1. live \subseteq Nat
          OBVIOUS
        <5> QED BY <5>1, NatLeast
      <4> QED BY <4>1
    <3> QED BY <1>3, <3>1
  <2> HIDE DEF live, first
  <2> QED BY <1>1, <2>1
<1>5. live = {} => \A i \in 1..Len(pool) : ~ connected(pool[i])
  OBVIOUS
<1> HIDE DEF live, first
<1>6. CASE /\ live # {}
           /\ inbox' = [inbox EXCEPT ![pool[first]] = Append(@, m)]
           /\ pool' = SubSeq(pool, first + 1, Len(pool))
           /\ UNCHANGED <<msgs, lost, faults>>
  <2>1. PoolKept
    BY <1>1, <1>4, <1>6, PartDistinct DEF PoolKept
  <2>2. Hand(m, pool[first])
    BY <1>2, <1>6, <2>1 DEF Hand
  <2> QED BY <1>4, <1>6, <2>2
<1>7. CASE /\ live # {} /\ Fault
           /\ pool' = SubSeq(pool, first, Len(pool))
           /\ keep(m)
           /\ UNCHANGED inbox
  <2>1. PoolKept
    BY <1>1, <1>4, <1>7, PartDistinct DEF PoolKept
  <2>2. faults' \in 0..MaxFaults /\ faults' > 0
    BY <1>1, <1>7 DEF Fault
  <2> QED BY <1>2, <1>7, <2>1, <2>2 DEF Keep
<1>8. CASE /\ live = {}
           /\ pool' = <<>>
           /\ keep(m)
           /\ UNCHANGED <<inbox, faults>>
  <2>1. PoolKept
    BY <1>8 DEF PoolKept, ToSet
  <2> QED BY <1>1, <1>2, <1>8, <1>5, <2>1 DEF Keep
<1>9. QED BY <1>2, <1>6, <1>7, <1>8

LEMMA BusReadableInv ==
  ASSUME BusInv, NEW m \in toRegion, onBusReadable(m)
  PROVE  BusInv'
BY BusReadableParts, HandInv, KeepInv

-----------------------------------------------------------------------------
(* Every behaviour.                                                        *)

LEMMA InitInv == Init => BusInv
<1> SUFFICES ASSUME Init PROVE BusInv
  OBVIOUS
<1>1. ToSet(<<>>) = {} /\ Len(<<>>) = 0
  BY DEF ToSet
<1>2. /\ last = 0 /\ wants = <<>> /\ waiting = FALSE /\ count = 0 /\ fails = {} /\ replys = {}
      /\ toBroker = <<>> /\ toRegion = {} /\ answers = {} /\ late = <<>>
      /\ msgs = <<>> /\ pool = <<>> /\ lost = {} /\ faults = 0
      /\ worker = [w \in Workers |-> "away"]
      /\ reports = [w \in Workers |-> <<>>] /\ inbox = [w \in Workers |-> <<>>]
  BY DEF Init
<1>3. SenderTyped
  <2>1. last \in Nat /\ wants \in Seq(SUBSET Payloads \ {{}}) /\ Len(wants) = last
    BY <1>2
  <2>2. waiting \in BOOLEAN
    BY <1>2
  <2>3. count \in Nat /\ fails \subseteq Payloads /\ replys \subseteq Payloads
    BY <1>2
  <2> QED BY <2>1, <2>2, <2>3 DEF SenderTyped
<1>4. CarrierTyped /\ WorkersTyped
  BY <1>2 DEF CarrierTyped, WorkersTyped
<1>5. Limits
  BY <1>1, <1>2, BusAssumption DEF Limits
<1>6. \A w \in Workers : ToSet(inbox[w]) = {} /\ ToSet(reports[w]) = {} /\ worker[w] # "busy"
        /\ inbox[w] = <<>> /\ reports[w] = <<>>
  BY <1>1, <1>2
<1>7. Bounded
  BY <1>1, <1>2, <1>6 DEF Bounded
<1>8. Singles
  BY <1>2, <1>6, SingleEmpty DEF Singles
<1>9. Tracked
  <2> DEFINE f == [i \in Nat |-> "none"]
             g == [i \in Nat |-> {}]
  <2>1. /\ f \in [Nat -> Stages] /\ f \in [Nat -> Workers \cup {"none"}]
        /\ g \in [Nat -> SUBSET Payloads]
    BY DEF Stages
  <2> HIDE DEF f, g
  <2>2. Located(f, f)
    BY <1>1, <1>2, <1>6 DEF Located
  <2>3. Routed(g) /\ Counted(f, g)
    BY <1>1, <1>2, <1>6 DEF Routed, Counted
  <2>4. Track(f, f, g)
    BY <2>2, <2>3 DEF Track
  <2> QED BY <2>1, <2>4 DEF Tracked
<1>10. QED BY <1>3, <1>4, <1>5, <1>7, <1>8, <1>9 DEF BusInv, Typed

LEMMA UnchangedInv == BusInv /\ UNCHANGED vars => BusInv'
<1> SUFFICES ASSUME BusInv, UNCHANGED vars PROVE BusInv'
  OBVIOUS
<1>1. UNCHANGED <<last, wants, waiting, count, fails, replys, toBroker, toRegion, answers, late,
                  msgs, pool, worker, reports, inbox, lost, faults>>
  BY DEF vars, sender, carrier, processer, workers
<1>2. Typed'
  BY <1>1 DEF BusInv, Typed, SenderTyped, CarrierTyped, WorkersTyped, Limits, Bounded
<1>3. Singles'
  BY <1>1 DEF BusInv, Singles
<1>4. Tracked'
  <2>1. PICK place \in [Nat -> Stages], holder \in [Nat -> Workers \cup {"none"}],
             routed \in [Nat -> SUBSET Payloads] : Track(place, holder, routed)
    BY DEF BusInv, Tracked
  <2>2. Track(place, holder, routed)'
    BY <1>1, <2>1 DEF Track, Located, Routed, Counted
  <2> QED BY <2>2 DEF Tracked
<1>5. QED BY <1>2, <1>3, <1>4 DEF BusInv

LEMMA NextInv == BusInv /\ [Next]_vars => BusInv'
<1> SUFFICES ASSUME BusInv, [Next]_vars PROVE BusInv'
  OBVIOUS
<1>1. ASSUME NEW P \in SUBSET Payloads \ {{}}, send(P) PROVE BusInv'
  BY <1>1, SendInv DEF send
<1>2. ASSUME NEW P \in SUBSET Payloads \ {{}}, sendWaitReply(P) PROVE BusInv'
  BY <1>2, SendInv DEF sendWaitReply
<1>3. ASSUME NEW a \in answers, receive(a) PROVE BusInv'
  BY <1>3, ReceiveInv
<1>4. ASSUME wait_reply PROVE BusInv'
  BY <1>4, WaitReplyInv
<1>5. ASSUME getPayloadsRouteInfo PROVE BusInv'
  BY <1>5, RouteInfoInv
<1>6. ASSUME NEW F \in SUBSET Payloads, do_work(F) PROVE BusInv'
  BY <1>6, DoWorkInv
<1>7. ASSUME NEW m \in toRegion, onBusReadable(m) PROVE BusInv'
  BY <1>7, BusReadableInv
<1>8. ASSUME NEW w \in Workers, onWorkerReadable(w) PROVE BusInv'
  BY <1>8, WorkerReadableInv
<1>9. ASSUME NEW w \in Workers, wait(w) PROVE BusInv'
  BY <1>9, WaitInv
<1>10. ASSUME NEW w \in Workers, do_wait(w) PROVE BusInv'
  BY <1>10, DoWaitInv
<1>11. ASSUME NEW w \in Workers, vanish(w) PROVE BusInv'
  BY <1>11, VanishInv
<1>12. ASSUME NEW w \in Workers, NEW P \in SUBSET Payloads, reply(w, P) PROVE BusInv'
  BY <1>12, ReplyInv
<1>13. ASSUME UNCHANGED vars PROVE BusInv'
  BY <1>13, UnchangedInv
<1> HIDE DEF BusInv
<1>14. QED BY <1>1, <1>2, <1>3, <1>4, <1>5, <1>6, <1>7, <1>8, <1>9, <1>10, <1>11, <1>12, <1>13
           DEF Next

LEMMA BusInvariant == Spec => []BusInv
BY InitInv, NextInv, PTL DEF Spec

(* The state of the three parties is what the code can hold; m_msgs stays  *)
(* at its mark and m_workers lists no worker twice.                        *)
THEOREM BusTyped == Spec => []TypeOK
<1>1. BusInv => TypeOK
  <2> SUFFICES ASSUME BusInv PROVE TypeOK
    OBVIOUS
  <2>1. /\ SenderTyped /\ CarrierTyped /\ WorkersTyped /\ Limits /\ Bounded
    BY Parts
  <2>2. last \in 0..MaxMessages
    BY <2>1 DEF SenderTyped, Limits
  <2>3. \A m \in toRegion \cup ToSet(msgs) \cup lost :
          m.id \in 1..last /\ m.payloads \subseteq Payloads
    <3>1. ToSet(msgs) \subseteq Messages
      BY <2>1, ListSet DEF WorkersTyped
    <3>2. \A m \in toRegion \cup ToSet(msgs) \cup lost : m \in Messages
      BY <2>1, <3>1 DEF CarrierTyped, WorkersTyped
    <3>3. \A m \in Messages : m.payloads \subseteq Payloads
      BY DEF Messages
    <3> QED BY <2>1, <3>2, <3>3 DEF Bounded
  <2>4. pool \in Seq(Workers) /\ IsInjective(pool)
    <3>1. pool \in Seq(Workers) /\ DOMAIN pool = 1..Len(pool)
      BY <2>1 DEF WorkersTyped
    <3> QED BY <2>1, <3>1 DEF IsInjective, Limits
  <2>5. \A w \in Workers : worker[w] \in {"away", "ready", "busy"}
    BY <2>1 DEF WorkersTyped
  <2> QED BY <2>1, <2>2, <2>3, <2>4, <2>5 DEF TypeOK, SenderTyped, Limits
<1>2. QED BY BusInvariant, <1>1, PTL

(* A reply that is complete has every payload of the message once, the     *)
(* failed ones and the answered ones, whatever answers of earlier messages *)
(* come in between.                                                        *)
THEOREM BusCompletedExact == Spec => []CompletedExact
<1>1. BusInv => CompletedExact
  <2> SUFFICES ASSUME BusInv, last > 0, waiting
               PROVE  /\ count = Cardinality(fails \cup replys)
                      /\ isCompleted => fails \cup replys = wants[last]
                      /\ fails \cap replys = {}
    BY DEF CompletedExact
  <2>1. PICK place \in [Nat -> Stages], holder \in [Nat -> Workers \cup {"none"}],
             routed \in [Nat -> SUBSET Payloads] :
          Located(place, holder) /\ Routed(routed) /\ Counted(place, routed)
    BY Parts
  <2>2. /\ fails \cup replys \subseteq wants[last]
        /\ count = Cardinality(fails \cup replys)
        /\ fails \cap routed[last] = {} /\ replys \subseteq routed[last]
    BY <2>1 DEF Counted
  <2>3. IsFiniteSet(wants[last])
    <3>1. wants[last] \subseteq Payloads
      BY Parts DEF SenderTyped
    <3> QED BY <3>1, BusAssumption, FS_Subset
  <2>4. ASSUME isCompleted PROVE fails \cup replys = wants[last]
    <3>1. Cardinality(wants[last]) = Cardinality(fails \cup replys)
      BY <2>2, <2>4 DEF isCompleted
    <3>2. fails \cup replys \in SUBSET wants[last]
      BY <2>2
    <3> QED BY <2>3, <3>1, <3>2, FS_Subset
  <2>5. fails \cap replys = {}
    BY <2>2
  <2> QED BY <2>2, <2>4, <2>5
<1>2. QED BY BusInvariant, <1>1, PTL

(* A message is on the way, kept, handed to one worker once, or gone, and  *)
(* at one of these only.                                                   *)
THEOREM BusInOnePlace == Spec => []InOnePlace
<1>1. BusInv => InOnePlace
  <2> SUFFICES ASSUME BusInv PROVE InOnePlace
    OBVIOUS
  <2>1. /\ SenderTyped /\ CarrierTyped /\ WorkersTyped /\ Bounded /\ Singles
    BY Parts
  <2>2. PICK place \in [Nat -> Stages], holder \in [Nat -> Workers \cup {"none"}],
             routed \in [Nat -> SUBSET Payloads] :
          Located(place, holder) /\ Routed(routed) /\ Counted(place, routed)
    BY Parts
  <2>3. /\ msgs \in Seq(Messages) /\ DOMAIN msgs = 1..Len(msgs)
        /\ \A i \in 1..Len(msgs) : msgs[i] \in ToSet(msgs)
    <3>1. msgs \in Seq(Messages)
      BY <2>1 DEF WorkersTyped
    <3>2. DOMAIN msgs = 1..Len(msgs)
      BY <3>1
    <3> QED BY <3>1, <3>2, ListSet
  <2>4. IsInjective(msgs)
    <3>1. \A i \in 1..Len(msgs) : msgs[i].id # 0
      BY <2>1, <2>3 DEF Bounded
    <3> QED BY <2>1, <2>3, <3>1 DEF IsInjective, Singles, Single
  <2>5. \A m \in ToSet(msgs) : m \notin lost \cup toRegion
    BY <2>2 DEF Located
  <2>6. ASSUME NEW w \in Workers, NEW i \in 1..Len(inbox[w])
        PROVE  /\ inbox[w][i].id # 0 /\ place[inbox[w][i].id] = "handed"
               /\ holder[inbox[w][i].id] = w
    <3>1. inbox[w] \in Seq(Messages)
      BY <2>1 DEF WorkersTyped
    <3>2. inbox[w][i] \in ToSet(inbox[w])
      BY <3>1, ListSet
    <3> QED BY <2>1, <2>2, <3>2 DEF Located, Bounded
  <2> DEFINE held == {h \in Workers \X (1..MaxMessages) : h[2] <= Len(inbox[h[1]])}
  <2>7. \A h \in held : h[1] \in Workers /\ h[2] \in 1..Len(inbox[h[1]]) /\ h = <<h[1], h[2]>>
    <3>1. \A w \in Workers : Len(inbox[w]) \in Nat
      BY <2>1 DEF WorkersTyped
    <3> QED BY <3>1, BusAssumption
  <2> HIDE DEF held
  <2>8. ASSUME NEW h \in held
        PROVE  LET m == inbox[h[1]][h[2]] IN
               /\ m \notin ToSet(msgs) \cup toRegion \cup lost
               /\ \A g \in held : inbox[g[1]][g[2]] = m => g = h
    <3> DEFINE m == inbox[h[1]][h[2]]
    <3>1. m.id # 0 /\ place[m.id] = "handed" /\ holder[m.id] = h[1]
      BY <2>6, <2>7
    <3>2. m \notin ToSet(msgs) \cup toRegion \cup lost
      <4> HIDE DEF m
      <4> QED BY <2>2, <3>1 DEF Located
    <3>3. ASSUME NEW g \in held, inbox[g[1]][g[2]] = m PROVE g = h
      <4>1. holder[m.id] = g[1]
        BY <2>6, <2>7, <3>3
      <4>2. g[1] = h[1]
        BY <3>1, <4>1
      <4>3. g[2] = h[2]
        <5>1. Single(inbox[h[1]])
          BY <2>1, <2>7 DEF Singles
        <5> QED BY <2>7, <3>1, <3>3, <4>2, <5>1 DEF Single
      <4> QED BY <2>7, <4>2, <4>3
    <3> QED BY <3>2, <3>3
  <2> QED BY <2>4, <2>5, <2>8 DEF InOnePlace, held
<1>2. QED BY BusInvariant, <1>1, PTL

-----------------------------------------------------------------------------
(* A worker has of reports under way, its place in the pool and messages   *)
(* together at most one, and one more for each time it died: its READY may *)
(* still be read, or its place in the pool still be there, when it comes   *)
(* back and reports again.                                                 *)
InPool(w, p) == IF w \in ToSet(p) THEN 1 ELSE 0
Online(k) == IF k = "away" THEN 0 ELSE 1

Token(w) == Len(reports[w]) + Len(inbox[w]) + InPool(w, pool) <= deaths[w] + Online(worker[w])

Tokens == deaths \in [Workers -> Nat] /\ \A w \in Workers : Token(w)

LEMMA TokenLengths ==
  BusInv /\ Tokens => \A w \in Workers :
    /\ reports[w] \in Seq(Reports) /\ inbox[w] \in Seq(Messages)
    /\ Len(reports[w]) \in Nat /\ Len(inbox[w]) \in Nat /\ deaths[w] \in Nat
    /\ InPool(w, pool) \in Nat /\ Online(worker[w]) \in Nat /\ Online(worker[w]) <= 1
<1> SUFFICES ASSUME BusInv, Tokens, NEW w \in Workers
             PROVE  /\ reports[w] \in Seq(Reports) /\ inbox[w] \in Seq(Messages)
                    /\ Len(reports[w]) \in Nat /\ Len(inbox[w]) \in Nat /\ deaths[w] \in Nat
                    /\ InPool(w, pool) \in Nat /\ Online(worker[w]) \in Nat /\ Online(worker[w]) <= 1
  OBVIOUS
<1>1. reports[w] \in Seq(Reports) /\ inbox[w] \in Seq(Messages)
  BY Parts DEF WorkersTyped
<1>2. deaths[w] \in Nat
  BY DEF Tokens
<1>3. InPool(w, pool) \in Nat /\ Online(worker[w]) \in Nat /\ Online(worker[w]) <= 1
  BY DEF InPool, Online
<1>4. QED BY <1>1, <1>2, <1>3, ListSet

(* The token of a worker that an action leaves alone.                      *)
LEMMA TokenKept ==
  ASSUME Tokens, NEW v \in Workers, ToSet(pool') \subseteq ToSet(pool) \cup (Workers \ {v}),
         UNCHANGED <<worker[v], reports[v], inbox[v], deaths[v]>>, BusInv
  PROVE  Token(v)'
<1>1. /\ Len(reports[v]) \in Nat /\ Len(inbox[v]) \in Nat /\ deaths[v] \in Nat
      /\ InPool(v, pool) \in Nat /\ Online(worker[v]) \in Nat
  BY TokenLengths
<1>2. InPool(v, pool') <= InPool(v, pool) /\ Online(worker'[v]) = Online(worker[v]) /\ InPool(v, pool') \in Nat
  <2>1. v \in ToSet(pool') => v \in ToSet(pool)
    OBVIOUS
  <2> QED BY <2>1 DEF InPool, Online
<1>3. Len(reports[v]) + Len(inbox[v]) + InPool(v, pool) <= deaths[v] + Online(worker[v])
  BY DEF Tokens, Token
<1>4. /\ Len(reports'[v]) = Len(reports[v]) /\ Len(inbox'[v]) = Len(inbox[v])
      /\ deaths'[v] = deaths[v]
  OBVIOUS
<1>5. Len(reports'[v]) + Len(inbox'[v]) + InPool(v, pool') <= deaths'[v] + Online(worker'[v])
  <2>1. \A r, i, p, d, o, n \in Nat : r + i + p <= d + o /\ n <= p => r + i + n <= d + o
    OBVIOUS
  <2>2. /\ Len(reports[v]) \in Nat /\ Len(inbox[v]) \in Nat /\ deaths[v] \in Nat
        /\ InPool(v, pool) \in Nat /\ Online(worker[v]) \in Nat /\ InPool(v, pool') \in Nat
    BY <1>1, <1>2
  <2>3. Len(reports[v]) + Len(inbox[v]) + InPool(v, pool') <= deaths[v] + Online(worker[v])
    BY <1>2, <1>3, <2>1, <2>2
  <2> QED BY <1>2, <1>4, <2>3
<1> QED BY <1>5 DEF Token

LEMMA WaitTokens ==
  ASSUME BusInv, Tokens, NEW w \in Workers, wait(w)
  PROVE  Tokens'
<1> DEFINE x == [type |-> "READY", id |-> 0, payloads |-> {}]
<1>1. /\ worker[w] \in {"away", "busy"} /\ worker' = [worker EXCEPT ![w] = "ready"]
      /\ reports' = [reports EXCEPT ![w] = Append(@, x)]
      /\ inbox' = [inbox EXCEPT ![w] = IF worker[w] = "busy" THEN Tail(@) ELSE @]
      /\ UNCHANGED <<pool, deaths>>
  BY DEF wait, Report, processer
<1>2. x \in Reports
  BY DEF Reports
<1> HIDE DEF x
<1>3. /\ worker \in [Workers -> {"away", "ready", "busy"}]
      /\ reports \in [Workers -> Seq(Reports)] /\ inbox \in [Workers -> Seq(Messages)]
      /\ worker[w] = "busy" => inbox[w] # <<>>
  BY Parts DEF WorkersTyped, Singles
<1>4. /\ \A v \in Workers : v # w => inbox'[v] = inbox[v] /\ reports'[v] = reports[v] /\ worker'[v] = worker[v]
      /\ reports'[w] = Append(reports[w], x) /\ worker'[w] = "ready"
      /\ inbox'[w] = IF worker[w] = "busy" THEN Tail(inbox[w]) ELSE inbox[w]
  BY <1>1, <1>3
<1>5. /\ reports[w] \in Seq(Reports) /\ inbox[w] \in Seq(Messages)
      /\ Len(reports[w]) \in Nat /\ Len(inbox[w]) \in Nat /\ deaths[w] \in Nat
      /\ InPool(w, pool) \in Nat
  BY TokenLengths
<1>6. Len(reports'[w]) = Len(reports[w]) + 1
  BY <1>2, <1>4, <1>5, AppendList
<1>7. worker[w] = "busy" => Len(inbox'[w]) = Len(inbox[w]) - 1
  BY <1>3, <1>4, <1>5, TailList
<1>8. worker[w] # "busy" => Len(inbox'[w]) = Len(inbox[w])
  BY <1>4
<1>9. InPool(w, pool') = InPool(w, pool) /\ Online(worker'[w]) = 1 /\ Online(worker[w]) = IF worker[w] = "busy" THEN 1 ELSE 0
  BY <1>1, <1>4 DEF InPool, Online
<1>10. Len(reports[w]) + Len(inbox[w]) + InPool(w, pool) <= deaths[w] + Online(worker[w])
  BY DEF Tokens, Token
<1>11. Len(reports'[w]) + Len(inbox'[w]) + InPool(w, pool') <= deaths[w] + Online(worker'[w])
  <2>1. CASE worker[w] = "busy"
    <3>1. \A r, i, p, d \in Nat : r + i + p <= d + 1 => (r + 1) + (i - 1) + p <= d + 1
      OBVIOUS
    <3>2. (Len(reports[w]) + 1) + (Len(inbox[w]) - 1) + InPool(w, pool) <= deaths[w] + 1
      BY <1>5, <1>9, <1>10, <2>1, <3>1
    <3> QED BY <1>6, <1>7, <1>9, <2>1, <3>2
  <2>2. CASE worker[w] # "busy"
    <3>1. \A r, i, p, d \in Nat : r + i + p <= d + 0 => (r + 1) + i + p <= d + 1
      OBVIOUS
    <3>2. (Len(reports[w]) + 1) + Len(inbox[w]) + InPool(w, pool) <= deaths[w] + 1
      BY <1>5, <1>9, <1>10, <2>2, <3>1
    <3> QED BY <1>6, <1>8, <1>9, <2>2, <3>2
  <2> QED BY <2>1, <2>2
<1>12. ASSUME NEW v \in Workers PROVE Token(v)'
  <2>1. CASE v # w
    BY <1>1, <1>4, <2>1, TokenKept
  <2>2. CASE v = w
    BY <1>1, <1>11, <2>2 DEF Token
  <2> QED BY <2>1, <2>2
<1>13. QED BY <1>1, <1>12 DEF Tokens

LEMMA ReplyTokens ==
  ASSUME BusInv, Tokens, NEW w \in Workers, NEW P \in SUBSET Payloads, reply(w, P)
  PROVE  Tokens'
<1> DEFINE x == [type |-> "Reply", id |-> Head(inbox[w]).id, payloads |-> P]
<1>1. /\ worker[w] = "busy" /\ worker' = [worker EXCEPT ![w] = "ready"]
      /\ reports' = [reports EXCEPT ![w] = Append(@, x)]
      /\ inbox' = [inbox EXCEPT ![w] = Tail(@)]
      /\ UNCHANGED <<pool, deaths>>
  BY DEF reply, Report, processer
<1>2. /\ worker \in [Workers -> {"away", "ready", "busy"}]
      /\ reports \in [Workers -> Seq(Reports)] /\ inbox \in [Workers -> Seq(Messages)]
      /\ inbox[w] # <<>>
  BY <1>1, Parts DEF WorkersTyped, Singles
<1>3. /\ reports[w] \in Seq(Reports) /\ inbox[w] \in Seq(Messages)
      /\ Len(reports[w]) \in Nat /\ Len(inbox[w]) \in Nat /\ deaths[w] \in Nat
      /\ InPool(w, pool) \in Nat
  BY TokenLengths
<1>4. x \in Reports
  <2>1. Head(inbox[w]) \in Messages
    BY <1>2, <1>3, TailList
  <2> QED BY <2>1 DEF Reports, Messages
<1> HIDE DEF x
<1>5. /\ \A v \in Workers : v # w => inbox'[v] = inbox[v] /\ reports'[v] = reports[v] /\ worker'[v] = worker[v]
      /\ reports'[w] = Append(reports[w], x) /\ worker'[w] = "ready"
      /\ inbox'[w] = Tail(inbox[w])
  BY <1>1, <1>2
<1>6. Len(reports'[w]) = Len(reports[w]) + 1
  BY <1>3, <1>4, <1>5, AppendList
<1>7. Len(inbox'[w]) = Len(inbox[w]) - 1
  BY <1>2, <1>3, <1>5, TailList
<1>8. InPool(w, pool') = InPool(w, pool) /\ Online(worker'[w]) = 1 /\ Online(worker[w]) = 1
  BY <1>1, <1>5 DEF InPool, Online
<1>9. Len(reports[w]) + Len(inbox[w]) + InPool(w, pool) <= deaths[w] + Online(worker[w])
  BY DEF Tokens, Token
<1>10. Len(reports'[w]) + Len(inbox'[w]) + InPool(w, pool') <= deaths[w] + Online(worker'[w])
  <2>1. \A r, i, p, d \in Nat : r + i + p <= d + 1 => (r + 1) + (i - 1) + p <= d + 1
    OBVIOUS
  <2>2. (Len(reports[w]) + 1) + (Len(inbox[w]) - 1) + InPool(w, pool) <= deaths[w] + 1
    BY <1>3, <1>8, <1>9, <2>1
  <2> QED BY <1>6, <1>7, <1>8, <2>2
<1>11. ASSUME NEW v \in Workers PROVE Token(v)'
  <2>1. CASE v # w
    BY <1>1, <1>5, <2>1, TokenKept
  <2>2. CASE v = w
    BY <1>1, <1>10, <2>2 DEF Token
  <2> QED BY <2>1, <2>2
<1>12. QED BY <1>1, <1>11 DEF Tokens

LEMMA WorkerReadableTokens ==
  ASSUME BusInv, Tokens, NEW w \in Workers, onWorkerReadable(w)
  PROVE  Tokens'
<1>1. /\ reports[w] # <<>> /\ reports' = [reports EXCEPT ![w] = Tail(@)]
      /\ pool' = Append(Without(pool, {w}), w)
      /\ UNCHANGED <<worker, inbox, deaths>>
  BY DEF onWorkerReadable, push_worker
<1>2. /\ reports \in [Workers -> Seq(Reports)] /\ pool \in Seq(Workers)
      /\ \A i, j \in 1..Len(pool) : pool[i] = pool[j] => i = j
  BY Parts DEF WorkersTyped, Limits
<1>3. /\ reports[w] \in Seq(Reports) /\ Len(reports[w]) \in Nat /\ Len(inbox[w]) \in Nat
      /\ deaths[w] \in Nat /\ InPool(w, pool) \in Nat /\ Online(worker[w]) \in Nat
  BY TokenLengths
<1>4. /\ \A v \in Workers : v # w => reports'[v] = reports[v]
      /\ reports'[w] = Tail(reports[w])
  BY <1>1, <1>2
<1>5. Len(reports'[w]) = Len(reports[w]) - 1 /\ Len(reports[w]) >= 1
  BY <1>1, <1>3, <1>4, TailList
<1>6. ToSet(pool') = ToSet(pool) \cup {w}
  BY <1>1, <1>2, PushedOnce
<1>7. InPool(w, pool') <= 1 /\ InPool(w, pool') \in Nat /\ Online(worker'[w]) = Online(worker[w])
  BY <1>1 DEF InPool, Online
<1>8. Len(reports[w]) + Len(inbox[w]) + InPool(w, pool) <= deaths[w] + Online(worker[w])
  BY DEF Tokens, Token
<1>9. Len(reports'[w]) + Len(inbox[w]) + InPool(w, pool') <= deaths[w] + Online(worker'[w])
  <2>1. \A r, i, p, d, o, n \in Nat : r + i + p <= d + o /\ n <= 1 => (r - 1) + i + n <= d + o
    OBVIOUS
  <2>2. (Len(reports[w]) - 1) + Len(inbox[w]) + InPool(w, pool') <= deaths[w] + Online(worker[w])
    BY <1>3, <1>7, <1>8, <2>1
  <2> QED BY <1>5, <1>7, <2>2
<1>10. ASSUME NEW v \in Workers PROVE Token(v)'
  <2>1. CASE v # w
    BY <1>1, <1>4, <1>6, <2>1, TokenKept
  <2>2. CASE v = w
    BY <1>1, <1>9, <2>2 DEF Token
  <2> QED BY <2>1, <2>2
<1>11. QED BY <1>1, <1>10 DEF Tokens

LEMMA BusReadableTokens ==
  ASSUME BusInv, Tokens, NEW m \in toRegion, onBusReadable(m)
  PROVE  Tokens'
<1>1. /\ pool \in Seq(Workers) /\ Len(pool) \in Nat /\ DOMAIN pool = 1..Len(pool)
      /\ \A i, j \in 1..Len(pool) : pool[i] = pool[j] => i = j
      /\ inbox \in [Workers -> Seq(Messages)] /\ m \in Messages
  <2>1. pool \in Seq(Workers)
    BY Parts DEF WorkersTyped
  <2>2. Len(pool) \in Nat /\ DOMAIN pool = 1..Len(pool)
    BY <2>1
  <2> QED BY <2>1, <2>2, Parts DEF WorkersTyped, Limits, CarrierTyped
<1>2. CASE Keep(m)
  <2>1. UNCHANGED <<worker, reports, inbox, deaths>> /\ ToSet(pool') \subseteq ToSet(pool)
    BY <1>2 DEF Keep, PoolKept
  <2>2. \A v \in Workers : Token(v)'
    BY <2>1, TokenKept
  <2> QED BY <2>1, <2>2 DEF Tokens
<1>3. ASSUME NEW w \in Workers, Hand(m, w), NEW i \in 1..Len(pool),
             w = pool[i], pool' = SubSeq(pool, i + 1, Len(pool))
      PROVE  Tokens'
  <2>1. /\ i + 1 \in 1..(Len(pool) + 1) /\ Len(pool) \in 0..Len(pool)
        /\ Len(pool) >= (i + 1) - 1
    BY <1>1
  <2> DEFINE q == SubSeq(pool, i + 1, Len(pool))
  <2>2. /\ q \in Seq(Workers) /\ Len(q) = Len(pool) - (i + 1) + 1
        /\ \A k \in 1..Len(q) : k + (i + 1) - 1 \in 1..Len(pool) /\ q[k] = pool[k + (i + 1) - 1]
        /\ ToSet(q) \subseteq ToSet(pool)
    BY <1>1, <2>1, PartList
  <2> HIDE DEF q
  <2>3. w \notin ToSet(q)
    <3>1. ASSUME NEW k \in 1..Len(q) PROVE q[k] # w
      <4>1. k + (i + 1) - 1 \in 1..Len(pool) /\ k + (i + 1) - 1 # i /\ q[k] = pool[k + (i + 1) - 1]
        BY <2>2
      <4> QED BY <1>1, <1>3, <4>1
    <3> QED BY <2>2, <3>1, ListSet
  <2>4. pool' = q
    BY <1>3 DEF q
  <2>5. /\ inbox' = [inbox EXCEPT ![w] = Append(@, m)] /\ UNCHANGED <<reports, worker, deaths>>
    BY <1>3 DEF Hand
  <2>6. /\ \A v \in Workers : v # w => inbox'[v] = inbox[v]
        /\ inbox'[w] = Append(inbox[w], m)
    BY <1>1, <2>5
  <2>7. /\ Len(reports[w]) \in Nat /\ Len(inbox[w]) \in Nat /\ deaths[w] \in Nat
        /\ Online(worker[w]) \in Nat /\ inbox[w] \in Seq(Messages)
    BY TokenLengths
  <2>8. Len(inbox'[w]) = Len(inbox[w]) + 1
    BY <1>1, <2>6, <2>7, AppendList
  <2>9. InPool(w, pool) = 1 /\ InPool(w, pool') = 0 /\ Online(worker'[w]) = Online(worker[w])
    <3>1. w \in ToSet(pool)
      BY <1>1, <1>3, ListSet
    <3> QED BY <2>3, <2>4, <2>5, <3>1 DEF InPool, Online
  <2>10. Len(reports[w]) + Len(inbox[w]) + InPool(w, pool) <= deaths[w] + Online(worker[w])
    BY DEF Tokens, Token
  <2>11. Len(reports[w]) + Len(inbox'[w]) + InPool(w, pool') <= deaths[w] + Online(worker'[w])
    <3>1. \A r, n, d, o \in Nat : r + n + 1 <= d + o => r + (n + 1) + 0 <= d + o
      OBVIOUS
    <3>2. Len(reports[w]) + (Len(inbox[w]) + 1) + 0 <= deaths[w] + Online(worker[w])
      BY <2>7, <2>9, <2>10, <3>1
    <3> QED BY <2>8, <2>9, <3>2
  <2>12. ASSUME NEW v \in Workers PROVE Token(v)'
    <3>1. CASE v # w
      BY <2>2, <2>4, <2>5, <2>6, <3>1, TokenKept
    <3>2. CASE v = w
      BY <2>5, <2>11, <3>2 DEF Token
    <3> QED BY <3>1, <3>2
  <2> QED BY <2>5, <2>12 DEF Tokens
<1>4. QED BY <1>2, <1>3, BusReadableParts

LEMMA VanishTokens ==
  ASSUME BusInv, Tokens, NEW w \in Workers, vanish(w)
  PROVE  Tokens'
<1>1. PICK k \in 0..Len(reports[w]) :
        /\ worker[w] # "away" /\ worker' = [worker EXCEPT ![w] = "away"]
        /\ deaths' = [deaths EXCEPT ![w] = @ + 1]
        /\ inbox' = [inbox EXCEPT ![w] = <<>>]
        /\ reports' = [reports EXCEPT ![w] = SubSeq(@, 1, k)]
        /\ pool' = pool
  BY DEF vanish, connected, processer
<1>2. /\ worker \in [Workers -> {"away", "ready", "busy"}]
      /\ reports \in [Workers -> Seq(Reports)] /\ inbox \in [Workers -> Seq(Messages)]
      /\ deaths \in [Workers -> Nat]
  BY Parts DEF WorkersTyped, Tokens
<1>3. /\ reports[w] \in Seq(Reports) /\ Len(reports[w]) \in Nat /\ Len(inbox[w]) \in Nat
      /\ deaths[w] \in Nat /\ InPool(w, pool) \in Nat
  BY TokenLengths
<1>4. /\ \A v \in Workers : v # w => /\ inbox'[v] = inbox[v] /\ reports'[v] = reports[v]
                                     /\ worker'[v] = worker[v] /\ deaths'[v] = deaths[v]
      /\ reports'[w] = SubSeq(reports[w], 1, k) /\ inbox'[w] = <<>>
      /\ worker'[w] = "away" /\ deaths'[w] = deaths[w] + 1
  BY <1>1, <1>2
<1>5. Len(reports'[w]) \in Nat /\ Len(reports'[w]) <= Len(reports[w])
  <2>1. 1 \in 1..(Len(reports[w]) + 1) /\ k \in 0..Len(reports[w]) /\ k >= 1 - 1
    BY <1>3
  <2>2. Len(SubSeq(reports[w], 1, k)) = k - 1 + 1
    BY <1>3, <2>1, PartList
  <2> QED BY <1>3, <1>4, <2>2
<1>6. Len(inbox'[w]) = 0
  BY <1>4
<1>7. InPool(w, pool') = InPool(w, pool) /\ Online(worker'[w]) = 0 /\ Online(worker[w]) = 1
  BY <1>1, <1>4 DEF InPool, Online
<1>8. Len(reports[w]) + Len(inbox[w]) + InPool(w, pool) <= deaths[w] + Online(worker[w])
  BY DEF Tokens, Token
<1>9. Len(reports'[w]) + Len(inbox'[w]) + InPool(w, pool') <= deaths'[w] + Online(worker'[w])
  <2>1. \A r, i, p, d, q \in Nat : r + i + p <= d + 1 /\ q <= r => q + 0 + p <= (d + 1) + 0
    OBVIOUS
  <2>2. Len(reports'[w]) + 0 + InPool(w, pool) <= (deaths[w] + 1) + 0
    BY <1>3, <1>5, <1>7, <1>8, <2>1
  <2> QED BY <1>4, <1>6, <1>7, <2>2
<1>10. ASSUME NEW v \in Workers PROVE Token(v)'
  <2>1. CASE v # w
    BY <1>1, <1>4, <2>1, TokenKept
  <2>2. CASE v = w
    BY <1>9, <2>2 DEF Token
  <2> QED BY <2>1, <2>2
<1>11. deaths' \in [Workers -> Nat]
  BY <1>1, <1>2
<1>12. QED BY <1>10, <1>11 DEF Tokens

LEMMA NextTokens == BusInv /\ Tokens /\ [Next]_vars => Tokens'
<1> SUFFICES ASSUME BusInv, Tokens, [Next]_vars PROVE Tokens'
  OBVIOUS
<1>0. ASSUME UNCHANGED <<pool, worker, reports, inbox, deaths>> PROVE Tokens'
  BY <1>0 DEF Tokens, Token, InPool, Online
<1>1. ASSUME NEW P \in SUBSET Payloads \ {{}}, send(P) \/ sendWaitReply(P) PROVE Tokens'
  BY <1>0, <1>1 DEF send, sendWaitReply, do_send, processer, workers
<1>2. ASSUME NEW a \in answers, receive(a) PROVE Tokens'
  BY <1>0, <1>2 DEF receive, processer, workers
<1>3. ASSUME wait_reply PROVE Tokens'
  BY <1>0, <1>3 DEF wait_reply, processer, workers
<1>5. ASSUME getPayloadsRouteInfo PROVE Tokens'
  BY <1>0, <1>5 DEF getPayloadsRouteInfo, processer, workers
<1>6. ASSUME NEW F \in SUBSET Payloads, do_work(F) PROVE Tokens'
  BY <1>0, <1>6 DEF do_work, processer, workers
<1>7. ASSUME NEW m \in toRegion, onBusReadable(m) PROVE Tokens'
  BY <1>7, BusReadableTokens
<1>8. ASSUME NEW w \in Workers, onWorkerReadable(w) PROVE Tokens'
  BY <1>8, WorkerReadableTokens
<1>9. ASSUME NEW w \in Workers, wait(w) PROVE Tokens'
  BY <1>9, WaitTokens
<1>10. ASSUME NEW w \in Workers, do_wait(w) PROVE Tokens'
  <2>1. /\ worker[w] = "ready" /\ worker' = [worker EXCEPT ![w] = "busy"]
        /\ UNCHANGED <<pool, reports, inbox, deaths>>
    BY <1>10 DEF do_wait, processer
  <2>2. \A v \in Workers : worker'[v] = "away" <=> worker[v] = "away"
    BY <2>1, Parts DEF WorkersTyped
  <2>3. \A v \in Workers : Online(worker'[v]) = Online(worker[v]) /\ InPool(v, pool') = InPool(v, pool)
    BY <2>1, <2>2 DEF Online, InPool
  <2> QED BY <2>1, <2>3 DEF Tokens, Token
<1>11. ASSUME NEW w \in Workers, vanish(w) PROVE Tokens'
  BY <1>11, VanishTokens
<1>12. ASSUME NEW w \in Workers, NEW P \in SUBSET Payloads, reply(w, P) PROVE Tokens'
  BY <1>12, ReplyTokens
<1>13. ASSUME UNCHANGED vars PROVE Tokens'
  BY <1>0, <1>13 DEF vars, processer, workers
<1> HIDE DEF Tokens
<1>14. QED BY <1>1, <1>2, <1>3, <1>5, <1>6, <1>7, <1>8, <1>9, <1>10, <1>11, <1>12, <1>13 DEF Next

(* Whatever dies or fails, a worker has at most one message that it is not *)
(* done with, and one more for each time it died: it is handed one only    *)
(* after it reported, and a report puts it into the pool once.             *)
THEOREM BusOneAtATime == Spec => []OneAtATime
<1>1. Init => Tokens
  <2> SUFFICES ASSUME Init, NEW w \in Workers PROVE Token(w) /\ deaths \in [Workers -> Nat]
    BY DEF Tokens, Init
  <2>1. /\ reports[w] = <<>> /\ inbox[w] = <<>> /\ worker[w] = "away" /\ pool = <<>>
        /\ deaths[w] = 0 /\ deaths \in [Workers -> Nat]
    BY DEF Init
  <2>2. ToSet(<<>>) = {} /\ Len(<<>>) = 0
    BY DEF ToSet
  <2>3. InPool(w, pool) = 0 /\ Online(worker[w]) = 0
    BY <2>1, <2>2 DEF InPool, Online
  <2> QED BY <2>1, <2>2, <2>3 DEF Token
<1>2. BusInv /\ Tokens => OneAtATime
  <2> SUFFICES ASSUME BusInv, Tokens, NEW w \in Workers PROVE Len(inbox[w]) <= 1 + deaths[w]
    BY DEF OneAtATime
  <2>1. /\ Len(reports[w]) \in Nat /\ Len(inbox[w]) \in Nat /\ deaths[w] \in Nat
        /\ InPool(w, pool) \in Nat /\ Online(worker[w]) \in Nat /\ Online(worker[w]) <= 1
    BY TokenLengths
  <2>2. Len(reports[w]) + Len(inbox[w]) + InPool(w, pool) <= deaths[w] + Online(worker[w])
    BY DEF Tokens, Token
  <2>3. \A r, i, p, d, o \in Nat : r + i + p <= d + o /\ o <= 1 => i <= 1 + d
    OBVIOUS
  <2> QED BY <2>1, <2>2, <2>3
<1>3. QED BY BusInvariant, NextTokens, <1>1, <1>2, PTL DEF Spec
=============================================================================

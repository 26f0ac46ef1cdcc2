------------------------------ MODULE ApiProofs ------------------------------
(***************************************************************************)
(* What a call returns (LateByTimeouts, RoutesFresh, Barrier,              *)
(* VersionsGrow) and where the actors and sessions can be (TypeOK), for    *)
(* any number of sessions, calls, broken connections and restarts.  The    *)
(* argument is an order: what is on the way of a session, replies first,   *)
(* carries growing numbers, its oldest number lags behind the last call by *)
(* no more than the calls that timed out, and nothing that is lost changes *)
(* the order of the rest.                                                  *)
(***************************************************************************)
EXTENDS Api, OperatorLemmas

USE ApiAssumption

-----------------------------------------------------------------------------
(* Queues.                                                                 *)

IsSeq(q) == \E T : q \in Seq(T)

LEMMA NoQueue == IsSeq(<<>>)
<1>1. <<>> \in Seq({})
  OBVIOUS
<1> QED BY <1>1 DEF IsSeq

LEMMA Queue ==
  ASSUME NEW q, IsSeq(q)
  PROVE  /\ Len(q) \in Nat
         /\ q = <<>> <=> Len(q) = 0
<1>1. PICK T : q \in Seq(T)
  BY DEF IsSeq
<1> QED BY <1>1

LEMMA Appended ==
  ASSUME NEW q, IsSeq(q), NEW x
  PROVE  /\ IsSeq(Append(q, x))
         /\ Len(Append(q, x)) = Len(q) + 1
         /\ Append(q, x)[Len(q) + 1] = x
         /\ \A i \in 1..Len(q) : Append(q, x)[i] = q[i]
<1>1. PICK T : q \in Seq(T)
  BY DEF IsSeq
<1>2. q \in Seq(T \cup {x}) /\ x \in T \cup {x}
  BY <1>1
<1>3. Append(q, x) \in Seq(T \cup {x})
  BY <1>2
<1>4. IsSeq(Append(q, x))
  BY <1>3 DEF IsSeq
<1> QED BY <1>2, <1>4

LEMMA Rest ==
  ASSUME NEW q, IsSeq(q), q # <<>>
  PROVE  /\ IsSeq(Tail(q))
         /\ Len(Tail(q)) = Len(q) - 1
         /\ Head(q) = q[1] /\ 1 \in 1..Len(q)
         /\ \A i \in 1..Len(Tail(q)) : i + 1 \in 1..Len(q) /\ Tail(q)[i] = q[i + 1]
<1>1. PICK T : q \in Seq(T)
  BY DEF IsSeq
<1>2. Tail(q) \in Seq(T)
  BY <1>1
<1>3. IsSeq(Tail(q))
  BY <1>2 DEF IsSeq
<1> QED BY <1>1, <1>2, <1>3

LEMMA Cut ==
  ASSUME NEW q, IsSeq(q), NEW k \in 0..Len(q)
  PROVE  /\ IsSeq(SubSeq(q, 1, k))
         /\ Len(SubSeq(q, 1, k)) = k
         /\ \A i \in 1..k : i \in 1..Len(q) /\ SubSeq(q, 1, k)[i] = q[i]
<1>1. PICK T : q \in Seq(T)
  BY DEF IsSeq
<1>2. Len(q) \in Nat
  BY <1>1
<1>3. \A i \in 1..k : i \in 1..Len(q)
  BY <1>2
<1>4. \A i \in 1..k : q[i] \in T
  BY <1>1, <1>3
<1>5. SubSeq(q, 1, k) = [i \in 1..k |-> q[i]]
  BY <1>1, <1>2, <1>3
<1>6. [i \in 1..k |-> q[i]] \in Seq(T)
  BY <1>2, <1>4
<1>7. IsSeq(SubSeq(q, 1, k))
  BY <1>5, <1>6 DEF IsSeq
<1> QED BY <1>2, <1>3, <1>5, <1>6, <1>7

-----------------------------------------------------------------------------
(* The invariant.                                                          *)

Shapes ==
  /\ phase = [s \in Sessions |-> phase[s]]
  /\ requests = [s \in Sessions |-> requests[s]]
  /\ replies = [s \in Sessions |-> replies[s]]
  /\ call = [s \in Sessions |-> call[s]]
  /\ late = [s \in Sessions |-> late[s]]
  /\ answer = [s \in Sessions |-> answer[s]]

(* The queues rq and rp of a session whose last call has the number n and  *)
(* of whose calls l have timed out.                                        *)
Queues(rq, rp, n, l) ==
  /\ IsSeq(rq) /\ IsSeq(rp)
  /\ n \in Nat /\ l \in Nat
  /\ \A i \in 1..Len(rq) : rq[i].id \in 0..n /\ rq[i].rep = (rq[i].id # 0)
  /\ \A i \in 1..Len(rp) : rp[i].id \in 1..n

Ordered(rq, rp) ==
  /\ \A i, j \in 1..Len(rp) : i < j => rp[i].id < rp[j].id
  /\ \A i, j \in 1..Len(rq) : i < j /\ rq[j].id # 0 => rq[i].id < rq[j].id
  /\ \A i \in 1..Len(rp), j \in 1..Len(rq) : rq[j].id # 0 => rp[i].id < rq[j].id

NotOlder(rq, rp, old) ==
  /\ \A i \in 1..Len(rq) : rq[i].id # 0 => rq[i].id >= old
  /\ \A i \in 1..Len(rp) : rp[i].id >= old

Oldest(ph, n, l) == IF ph = "waiting" THEN n - l ELSE n - l + 1

(* Nothing is sent after the call that is waited for.                      *)
CallLast(rq, rp, n) ==
  /\ \A j \in 1..Len(rq) : rq[j].id = n => j = Len(rq)
  /\ \A i \in 1..Len(rp) : rp[i].id = n => rq = <<>>

Outstanding(rq, rp, ph, n, l) ==
  /\ Queues(rq, rp, n, l)
  /\ Ordered(rq, rp)
  /\ NotOlder(rq, rp, Oldest(ph, n, l))
  /\ ph = "waiting" => n > 0 /\ CallLast(rq, rp, n)

(* What the last call returned.                                            *)
Returned(rq, rp, a, n, l) ==
  a # NoAnswer =>
    /\ a.id \in 1..n
    /\ n - a.id <= l
    /\ l = 0 => rq = <<>> /\ rp = <<>>

SessionInv(s) ==
  /\ Outstanding(requests[s], replies[s], phase[s], call[s].id, late[s])
  /\ Returned(requests[s], replies[s], answer[s], call[s].id, late[s])

CallsInv == Shapes /\ \A s \in Sessions : SessionInv(s)

-----------------------------------------------------------------------------
(* Order in queues that lose or gain elements.                             *)

(* q1 is what arrives of q: some of its elements, in their order.          *)
Less(q1, q) == IsSeq(q1) /\ Len(q1) <= Len(q) /\ Thins(q1, q)

LEMMA SameThins ==
  ASSUME NEW q, IsSeq(q)
  PROVE  Thins(q, q)
<1> DEFINE f == [i \in 1..Len(q) |-> i]
<1>1. /\ \A i \in 1..Len(q) : f[i] \in 1..Len(q) /\ q[i] = q[f[i]]
      /\ \A i, j \in 1..Len(q) : i < j => f[i] < f[j]
  BY Queue
<1> HIDE DEF f
<1> QED BY <1>1 DEF Thins

LEMMA RestThins ==
  ASSUME NEW q, IsSeq(q), q # <<>>
  PROVE  Thins(Tail(q), q)
<1> DEFINE q1 == Tail(q)
           f == [i \in 1..Len(q1) |-> i + 1]
<1>1. /\ Len(q) \in Nat /\ Len(q1) = Len(q) - 1
      /\ \A i \in 1..Len(q1) : i + 1 \in 1..Len(q) /\ q1[i] = q[i + 1]
  BY Queue, Rest
<1> HIDE DEF q1
<1>2. /\ \A i \in 1..Len(q1) : f[i] \in 1..Len(q) /\ q1[i] = q[f[i]]
      /\ \A i, j \in 1..Len(q1) : i < j => f[i] < f[j]
  BY <1>1
<1> HIDE DEF f
<1>3. Thins(q1, q)
  BY <1>2 DEF Thins
<1> QED BY <1>3 DEF q1

LEMMA SameLess ==
  ASSUME NEW q, IsSeq(q)
  PROVE  Less(q, q)
BY Queue, SameThins DEF Less

LEMMA TornLess ==
  ASSUME NEW q, IsSeq(q), NEW q1 \in Torn(q)
  PROVE  Less(q1, q)
<1>1. PICK T : q \in Seq(T)
  BY DEF IsSeq
<1>2. q1 \in Seq(T) /\ Len(q1) <= Len(q) /\ Thins(q1, q)
  BY <1>1, TornThins
<1>3. IsSeq(q1)
  BY <1>2 DEF IsSeq
<1> QED BY <1>2, <1>3 DEF Less

(* Some at the front, or at the end.                                       *)
LEMMA CutLess ==
  ASSUME NEW q, IsSeq(q), NEW k \in 0..Len(q)
  PROVE  Less(SubSeq(q, 1, k), q)
<1> DEFINE q1 == SubSeq(q, 1, k)
           f == [i \in 1..k |-> i]
<1>1. /\ Len(q) \in Nat /\ Len(q1) = k /\ IsSeq(q1)
      /\ \A i \in 1..k : i \in 1..Len(q) /\ q1[i] = q[i]
  BY Queue, Cut
<1> HIDE DEF q1
<1>2. /\ \A i \in 1..Len(q1) : f[i] \in 1..Len(q) /\ q1[i] = q[f[i]]
      /\ \A i, j \in 1..Len(q1) : i < j => f[i] < f[j]
  BY <1>1
<1> HIDE DEF f
<1>3. Thins(q1, q)
  BY <1>2 DEF Thins
<1>4. Len(q1) <= Len(q)
  BY <1>1
<1> QED BY <1>1, <1>3, <1>4 DEF q1, Less

LEMMA DropLess ==
  ASSUME NEW q, IsSeq(q), NEW k \in 0..Len(q)
  PROVE  Less(SubSeq(q, k + 1, Len(q)), q)
<1>1. PICK T : q \in Seq(T)
  BY DEF IsSeq
<1> DEFINE q1 == SubSeq(q, k + 1, Len(q))
           f == [i \in 1..Len(q1) |-> i + k]
<1>2. PICK n \in Nat : n = Len(q) /\ k \in 0..n
  BY Queue
<1>3. /\ q1 \in Seq(T) /\ Len(q1) = n - k
      /\ \A i \in 1..Len(q1) : i + k \in 1..n /\ q1[i] = q[i + k]
  <2>1. k + 1 \in 1..(Len(q) + 1) /\ Len(q) \in 0..Len(q) /\ Len(q) >= (k + 1) - 1
    BY <1>2
  <2>2. /\ q1 \in Seq(T) /\ Len(q1) = Len(q) - (k + 1) + 1
        /\ \A i \in 1..Len(q1) : i + (k + 1) - 1 \in 1..Len(q) /\ q1[i] = q[i + (k + 1) - 1]
    BY <1>1, <2>1, PartList
  <2> HIDE DEF q1
  <2>3. Len(q1) = n - k /\ \A i \in 1..Len(q1) : i + (k + 1) - 1 = i + k
    BY <1>2, <2>2
  <2> QED BY <1>2, <2>2, <2>3
<1>4. IsSeq(q1)
  BY <1>3 DEF IsSeq
<1> HIDE DEF q1
<1>5. /\ \A i \in 1..Len(q1) : f[i] \in 1..Len(q) /\ q1[i] = q[f[i]]
      /\ \A i, j \in 1..Len(q1) : i < j => f[i] < f[j]
  BY <1>2, <1>3
<1> HIDE DEF f
<1>6. Thins(q1, q)
  BY <1>5 DEF Thins
<1>7. Len(q1) <= Len(q)
  BY <1>2, <1>3
<1> QED BY <1>4, <1>6, <1>7 DEF q1, Less

LEMMA Thinned ==
  ASSUME NEW rq, NEW rp, NEW n, NEW l, NEW old, NEW rq1, NEW rp1,
         Queues(rq, rp, n, l), Ordered(rq, rp), NotOlder(rq, rp, old),
         IsSeq(rq1), IsSeq(rp1), Thins(rq1, rq), Thins(rp1, rp)
  PROVE  Queues(rq1, rp1, n, l) /\ Ordered(rq1, rp1) /\ NotOlder(rq1, rp1, old)
<1>1. PICK f : /\ \A i \in 1..Len(rq1) : f[i] \in 1..Len(rq) /\ rq1[i] = rq[f[i]]
               /\ \A i, j \in 1..Len(rq1) : i < j => f[i] < f[j]
  BY DEF Thins
<1>2. PICK g : /\ \A i \in 1..Len(rp1) : g[i] \in 1..Len(rp) /\ rp1[i] = rp[g[i]]
               /\ \A i, j \in 1..Len(rp1) : i < j => g[i] < g[j]
  BY DEF Thins
<1>3. Queues(rq1, rp1, n, l)
  <2>1. ASSUME NEW i \in 1..Len(rq1)
        PROVE  rq1[i].id \in 0..n /\ rq1[i].rep = (rq1[i].id # 0)
    <3>1. PICK k \in 1..Len(rq) : rq1[i] = rq[k]
      BY <1>1
    <3>2. rq[k].id \in 0..n /\ rq[k].rep = (rq[k].id # 0)
      BY DEF Queues
    <3> QED BY <3>1, <3>2
  <2>2. \A i \in 1..Len(rp1) : rp1[i].id \in 1..n
    BY <1>2 DEF Queues
  <2> QED BY <2>1, <2>2 DEF Queues
<1>4. NotOlder(rq1, rp1, old)
  BY <1>1, <1>2 DEF NotOlder
<1>5. ASSUME NEW i \in 1..Len(rp1), NEW j \in 1..Len(rp1), i < j
      PROVE  rp1[i].id < rp1[j].id
  <2>1. g[i] < g[j]
    BY <1>2, <1>5
  <2> QED BY <1>2, <2>1 DEF Ordered
<1>6. ASSUME NEW i \in 1..Len(rq1), NEW j \in 1..Len(rq1), i < j, rq1[j].id # 0
      PROVE  rq1[i].id < rq1[j].id
  <2>1. f[i] < f[j]
    BY <1>1, <1>6
  <2>2. PICK k \in 1..Len(rq), m \in 1..Len(rq) :
          k < m /\ rq1[i] = rq[k] /\ rq1[j] = rq[m]
    BY <1>1, <2>1
  <2>3. rq[m].id # 0 => rq[k].id < rq[m].id
    BY <2>2 DEF Ordered
  <2> QED BY <1>6, <2>2, <2>3
<1>7. ASSUME NEW i \in 1..Len(rp1), NEW j \in 1..Len(rq1), rq1[j].id # 0
      PROVE  rp1[i].id < rq1[j].id
  <2>1. PICK k \in 1..Len(rp) : rp1[i] = rp[k]
    BY <1>2
  <2>2. PICK m \in 1..Len(rq) : rq1[j] = rq[m]
    BY <1>1
  <2>3. rq[m].id # 0 => rp[k].id < rq[m].id
    BY DEF Ordered
  <2> QED BY <1>7, <2>1, <2>2, <2>3
<1> QED BY <1>3, <1>4, <1>5, <1>6, <1>7 DEF Ordered

LEMMA Requested ==
  ASSUME NEW rq, NEW rp, NEW n, NEW l, NEW old, NEW n1 \in Nat, NEW q,
         Queues(rq, rp, n, l), Ordered(rq, rp), NotOlder(rq, rp, old), n <= n1,
         q.id \in 0..n1, q.rep = (q.id # 0), q.id # 0 => q.id > n /\ q.id >= old
  PROVE  /\ Queues(Append(rq, q), rp, n1, l)
         /\ Ordered(Append(rq, q), rp)
         /\ NotOlder(Append(rq, q), rp, old)
<1> DEFINE rq1 == Append(rq, q)
           end == Len(rq) + 1
<1>1. IsSeq(rq) /\ IsSeq(rp) /\ n \in Nat /\ l \in Nat /\ Len(rq) \in Nat
  BY Queue DEF Queues
<1>2. /\ IsSeq(rq1) /\ Len(rq1) = end
      /\ rq1[end] = q
      /\ \A i \in 1..Len(rq) : rq1[i] = rq[i]
  BY <1>1, Appended
<1> HIDE DEF rq1
<1>3. \A i \in 1..Len(rq1) : i = end \/ i \in 1..Len(rq)
  BY <1>1, <1>2
<1>4. Queues(rq1, rp, n1, l)
  <2>1. ASSUME NEW i \in 1..Len(rq1)
        PROVE  rq1[i].id \in 0..n1 /\ rq1[i].rep = (rq1[i].id # 0)
    <3>1. CASE i = end
      BY <1>2, <3>1
    <3>2. CASE i \in 1..Len(rq)
      <4>1. rq[i].id \in 0..n /\ rq[i].rep = (rq[i].id # 0)
        BY <3>2 DEF Queues
      <4> QED BY <1>1, <1>2, <3>2, <4>1
    <3> QED BY <1>3, <3>1, <3>2
  <2>2. \A i \in 1..Len(rp) : rp[i].id \in 1..n1
    BY <1>1 DEF Queues
  <2> QED BY <1>1, <1>2, <2>1, <2>2 DEF Queues
<1>5. NotOlder(rq1, rp, old)
  BY <1>2, <1>3 DEF NotOlder
<1>6. ASSUME NEW i \in 1..Len(rq1), NEW j \in 1..Len(rq1), i < j, rq1[j].id # 0
      PROVE  rq1[i].id < rq1[j].id
  <2>1. i \in 1..Len(rq) /\ rq1[i] = rq[i] /\ rq[i].id \in 0..n
    BY <1>1, <1>2, <1>6 DEF Queues
  <2>2. CASE j = end
    BY <1>1, <1>2, <1>6, <2>1, <2>2
  <2>3. CASE j \in 1..Len(rq)
    BY <1>2, <1>6, <2>1, <2>3 DEF Ordered
  <2> QED BY <1>3, <2>2, <2>3
<1>7. ASSUME NEW i \in 1..Len(rp), NEW j \in 1..Len(rq1), rq1[j].id # 0
      PROVE  rp[i].id < rq1[j].id
  <2>1. rp[i].id \in 1..n
    BY DEF Queues
  <2>2. CASE j = end
    BY <1>1, <1>2, <1>7, <2>1, <2>2
  <2>3. CASE j \in 1..Len(rq)
    BY <1>2, <1>7, <2>3 DEF Ordered
  <2> QED BY <1>3, <2>2, <2>3
<1>8. Ordered(rq1, rp)
  BY <1>6, <1>7 DEF Ordered
<1> QED BY <1>4, <1>5, <1>8 DEF rq1

LEMMA Replied ==
  ASSUME NEW rq, NEW rp, NEW n, NEW l, NEW old, NEW m,
         Queues(rq, rp, n, l), Ordered(rq, rp), NotOlder(rq, rp, old),
         m.id \in 1..n, m.id >= old,
         \A i \in 1..Len(rp) : rp[i].id < m.id,
         \A j \in 1..Len(rq) : rq[j].id # 0 => m.id < rq[j].id
  PROVE  /\ Queues(rq, Append(rp, m), n, l)
         /\ Ordered(rq, Append(rp, m))
         /\ NotOlder(rq, Append(rp, m), old)
<1> DEFINE rp1 == Append(rp, m)
           end == Len(rp) + 1
<1>1. IsSeq(rq) /\ IsSeq(rp) /\ n \in Nat /\ l \in Nat /\ Len(rp) \in Nat
  BY Queue DEF Queues
<1>2. /\ IsSeq(rp1) /\ Len(rp1) = end
      /\ rp1[end] = m
      /\ \A i \in 1..Len(rp) : rp1[i] = rp[i]
  BY <1>1, Appended
<1> HIDE DEF rp1
<1>3. \A i \in 1..Len(rp1) : i = end \/ i \in 1..Len(rp)
  BY <1>1, <1>2
<1>4. Queues(rq, rp1, n, l)
  BY <1>2, <1>3 DEF Queues
<1>5. NotOlder(rq, rp1, old)
  BY <1>2, <1>3 DEF NotOlder
<1>6. ASSUME NEW i \in 1..Len(rp1), NEW j \in 1..Len(rp1), i < j
      PROVE  rp1[i].id < rp1[j].id
  <2>1. i \in 1..Len(rp) /\ rp1[i] = rp[i]
    BY <1>1, <1>2, <1>6
  <2>2. CASE j = end
    BY <1>2, <2>1, <2>2
  <2>3. CASE j \in 1..Len(rp)
    BY <1>2, <1>6, <2>1, <2>3 DEF Ordered
  <2> QED BY <1>3, <2>2, <2>3
<1>7. ASSUME NEW i \in 1..Len(rp1), NEW j \in 1..Len(rq), rq[j].id # 0
      PROVE  rp1[i].id < rq[j].id
  BY <1>2, <1>3, <1>7 DEF Ordered
<1>8. Ordered(rq, rp1)
  BY <1>6, <1>7 DEF Ordered
<1> QED BY <1>4, <1>5, <1>8 DEF rp1

-----------------------------------------------------------------------------
(* What each step does to the queues of its session.                       *)

LEMMA AfterCall ==
  ASSUME NEW rq, NEW rp, NEW ph, NEW n, NEW l, NEW q,
         Outstanding(rq, rp, ph, n, l), ph # "waiting",
         q.id = n + 1, q.rep = (q.id # 0)
  PROVE  Outstanding(Append(rq, q), rp, "waiting", n + 1, l)
<1> DEFINE rq1 == Append(rq, q)
<1>1. /\ IsSeq(rq) /\ n \in Nat /\ l \in Nat /\ Len(rq) \in Nat
      /\ Queues(rq, rp, n, l) /\ Ordered(rq, rp)
      /\ NotOlder(rq, rp, n - l + 1)
  BY Queue DEF Outstanding, Queues, Oldest
<1>2. /\ Len(rq1) = Len(rq) + 1
      /\ \A i \in 1..Len(rq) : rq1[i] = rq[i]
  BY <1>1, Appended
<1>3. /\ Queues(rq1, rp, n + 1, l)
      /\ Ordered(rq1, rp)
      /\ NotOlder(rq1, rp, n - l + 1)
  <2>1. /\ n + 1 \in Nat /\ n <= n + 1 /\ q.id \in 0..(n + 1)
        /\ q.id > n /\ q.id >= n - l + 1
    BY <1>1
  <2> QED BY <1>1, <2>1, Requested
<1> HIDE DEF rq1
<1>4. n - l + 1 = Oldest("waiting", n + 1, l)
  BY <1>1 DEF Oldest
<1>5. CallLast(rq1, rp, n + 1)
  <2>1. ASSUME NEW j \in 1..Len(rq1), rq1[j].id = n + 1 PROVE j = Len(rq1)
    <3>1. j \in 1..Len(rq) => rq1[j].id \in 0..n
      BY <1>1, <1>2 DEF Queues
    <3> QED BY <1>1, <1>2, <2>1, <3>1
  <2>2. \A i \in 1..Len(rp) : rp[i].id # n + 1
    BY <1>1 DEF Queues
  <2> QED BY <2>1, <2>2 DEF CallLast
<1> QED BY <1>1, <1>3, <1>4, <1>5 DEF Outstanding, rq1

LEMMA AfterAsync ==
  ASSUME NEW rq, NEW rp, NEW ph, NEW n, NEW l, NEW q,
         Outstanding(rq, rp, ph, n, l), ph # "waiting",
         q.id = 0, q.rep = (q.id # 0)
  PROVE  Outstanding(Append(rq, q), rp, ph, n, l)
<1>1. /\ n \in Nat /\ Queues(rq, rp, n, l) /\ Ordered(rq, rp)
      /\ NotOlder(rq, rp, Oldest(ph, n, l))
  BY DEF Outstanding, Queues
<1>2. /\ Queues(Append(rq, q), rp, n, l)
      /\ Ordered(Append(rq, q), rp)
      /\ NotOlder(Append(rq, q), rp, Oldest(ph, n, l))
  BY <1>1, Requested
<1> QED BY <1>2 DEF Outstanding

LEMMA AfterReturn ==
  ASSUME NEW rq, NEW rp, NEW n, NEW l, NEW ph,
         Outstanding(rq, rp, "waiting", n, l), rp # <<>>, ph # "waiting"
  PROVE  /\ Outstanding(rq, Tail(rp), ph, n, l)
         /\ Returned(rq, Tail(rp), Head(rp), n, l)
<1> DEFINE rp1 == Tail(rp)
           m == Head(rp)
<1>1. /\ IsSeq(rq) /\ IsSeq(rp) /\ n \in Nat /\ l \in Nat
      /\ Len(rq) \in Nat /\ Len(rp) \in Nat
      /\ Queues(rq, rp, n, l) /\ Ordered(rq, rp) /\ NotOlder(rq, rp, n - l)
      /\ CallLast(rq, rp, n)
  BY Queue DEF Outstanding, Queues, Oldest
<1>2. /\ IsSeq(rp1) /\ Len(rp1) \in Nat
      /\ rp1 = <<>> <=> Len(rp1) = 0
      /\ m = rp[1] /\ 1 \in 1..Len(rp)
      /\ \A i \in 1..Len(rp1) : i + 1 \in 1..Len(rp) /\ rp1[i] = rp[i + 1]
  BY <1>1, Rest, Queue
<1>3. /\ Queues(rq, rp1, n, l)
      /\ Ordered(rq, rp1)
      /\ NotOlder(rq, rp1, n - l)
  <2>1. Thins(rq, rq) /\ Thins(rp1, rp)
    BY <1>1, SameThins, RestThins
  <2> QED BY <1>1, <1>2, <2>1, Thinned
<1> HIDE DEF rp1, m
<1>4. m.id \in 1..n /\ m.id >= n - l
  BY <1>1, <1>2 DEF Queues, NotOlder
<1>5. ASSUME NEW i \in 1..Len(rp1)
      PROVE  rp1[i].id \in 1..n /\ m.id < rp1[i].id
  <2>1. i + 1 \in 1..Len(rp) /\ rp1[i] = rp[i + 1] /\ 1 < i + 1
    BY <1>2
  <2> QED BY <1>1, <1>2, <2>1 DEF Queues, Ordered
<1>6. \A j \in 1..Len(rq) : rq[j].id # 0 => rq[j].id \in 0..n /\ m.id < rq[j].id
  BY <1>1, <1>2 DEF Queues, Ordered
<1>7. NotOlder(rq, rp1, Oldest(ph, n, l))
  BY <1>1, <1>4, <1>5, <1>6 DEF NotOlder, Oldest
<1>8. l = 0 => rq = <<>> /\ rp1 = <<>>
  <2>1. SUFFICES ASSUME l = 0 PROVE rq = <<>> /\ rp1 = <<>>
    OBVIOUS
  <2>2. m.id = n
    BY <1>1, <1>4, <2>1
  <2>3. rq = <<>>
    BY <1>1, <1>2, <2>2 DEF CallLast
  <2>4. \A i \in 1..Len(rp1) : FALSE
    BY <1>1, <1>5, <2>2
  <2>5. Len(rp1) = 0
    BY <1>2, <2>4
  <2> QED BY <1>2, <2>3, <2>5
<1>9. Returned(rq, rp1, m, n, l)
  BY <1>1, <1>4, <1>8 DEF Returned
<1> QED BY <1>3, <1>7, <1>9 DEF Outstanding, rp1, m

LEMMA AfterTimeOut ==
  ASSUME NEW rq, NEW rp, NEW n, NEW l, NEW ph, NEW a,
         Outstanding(rq, rp, "waiting", n, l), ph # "waiting",
         Returned(rq, rp, a, n, l)
  PROVE  Outstanding(rq, rp, ph, n, l + 1) /\ Returned(rq, rp, a, n, l + 1)
<1>1. n \in Nat /\ l \in Nat
  BY DEF Outstanding, Queues
<1>2. Oldest(ph, n, l + 1) = Oldest("waiting", n, l)
  BY <1>1 DEF Oldest
<1>3. Queues(rq, rp, n, l + 1)
  BY <1>1 DEF Outstanding, Queues
<1> QED BY <1>1, <1>2, <1>3 DEF Outstanding, Returned

(* Some of what was on the way is lost.                                    *)
LEMMA AfterLess ==
  ASSUME NEW rq, NEW rp, NEW ph, NEW n, NEW l, NEW a, NEW rq1, NEW rp1,
         Outstanding(rq, rp, ph, n, l), Returned(rq, rp, a, n, l),
         Less(rq1, rq), Less(rp1, rp)
  PROVE  Outstanding(rq1, rp1, ph, n, l) /\ Returned(rq1, rp1, a, n, l)
<1>1. /\ IsSeq(rq) /\ IsSeq(rp)
      /\ Len(rq) \in Nat /\ Len(rp) \in Nat
      /\ rq = <<>> <=> Len(rq) = 0
      /\ rp = <<>> <=> Len(rp) = 0
      /\ Queues(rq, rp, n, l) /\ Ordered(rq, rp)
      /\ NotOlder(rq, rp, Oldest(ph, n, l))
  BY Queue DEF Outstanding, Queues
<1>2. /\ IsSeq(rq1) /\ Len(rq1) \in Nat /\ Len(rq1) <= Len(rq) /\ Thins(rq1, rq)
      /\ rq1 = <<>> <=> Len(rq1) = 0
  BY Queue DEF Less
<1>3. /\ IsSeq(rp1) /\ Len(rp1) \in Nat /\ Len(rp1) <= Len(rp) /\ Thins(rp1, rp)
      /\ rp1 = <<>> <=> Len(rp1) = 0
  BY Queue DEF Less
<1>4. /\ Queues(rq1, rp1, n, l)
      /\ Ordered(rq1, rp1)
      /\ NotOlder(rq1, rp1, Oldest(ph, n, l))
  BY <1>1, <1>2, <1>3, Thinned
<1>5. rq = <<>> => rq1 = <<>>
  BY <1>1, <1>2
<1>6. rp = <<>> => rp1 = <<>>
  BY <1>1, <1>3
<1>7. ASSUME CallLast(rq, rp, n) PROVE CallLast(rq1, rp1, n)
  <2>1. PICK f : /\ \A i \in 1..Len(rq1) : f[i] \in 1..Len(rq) /\ rq1[i] = rq[f[i]]
                 /\ \A i, j \in 1..Len(rq1) : i < j => f[i] < f[j]
    BY <1>2 DEF Thins
  <2>2. ASSUME NEW j \in 1..Len(rq1), rq1[j].id = n PROVE j = Len(rq1)
    <3>1. f[j] = Len(rq)
      BY <1>7, <2>1, <2>2 DEF CallLast
    <3>2. ~ (j < Len(rq1))
      <4>1. SUFFICES ASSUME j < Len(rq1) PROVE FALSE
        OBVIOUS
      <4>2. Len(rq1) \in 1..Len(rq1)
        BY <1>2, <4>1
      <4>3. PICK x : x = f[Len(rq1)]
        OBVIOUS
      <4>4. x \in 1..Len(rq) /\ Len(rq) < x
        BY <2>1, <3>1, <4>1, <4>2, <4>3
      <4> QED BY <1>1, <4>4
    <3> QED BY <1>2, <3>2
  <2>3. ASSUME NEW i \in 1..Len(rp1), rp1[i].id = n PROVE rq1 = <<>>
    <3>1. \E k \in 1..Len(rp) : rp1[i] = rp[k]
      BY <1>3 DEF Thins
    <3> QED BY <1>5, <1>7, <2>3, <3>1 DEF CallLast
  <2> QED BY <2>2, <2>3 DEF CallLast
<1>8. Returned(rq1, rp1, a, n, l)
  BY <1>5, <1>6 DEF Returned
<1> QED BY <1>4, <1>7, <1>8 DEF Outstanding

(* A request is read, and answered or not.                                 *)
LEMMA AfterRead ==
  ASSUME NEW rq, NEW rp, NEW ph, NEW n, NEW l,
         Outstanding(rq, rp, ph, n, l), rq # <<>>
  PROVE  Outstanding(Tail(rq), rp, ph, n, l)
<1> DEFINE rq1 == Tail(rq)
<1>1. /\ IsSeq(rq) /\ IsSeq(rp) /\ Len(rq) \in Nat
      /\ Queues(rq, rp, n, l) /\ Ordered(rq, rp)
      /\ NotOlder(rq, rp, Oldest(ph, n, l))
  BY Queue DEF Outstanding, Queues
<1>2. /\ IsSeq(rq1) /\ Len(rq1) = Len(rq) - 1
      /\ \A i \in 1..Len(rq1) : i + 1 \in 1..Len(rq) /\ rq1[i] = rq[i + 1]
  BY <1>1, Rest
<1>3. /\ Queues(rq1, rp, n, l)
      /\ Ordered(rq1, rp)
      /\ NotOlder(rq1, rp, Oldest(ph, n, l))
  <2>1. Thins(rq1, rq) /\ Thins(rp, rp)
    BY <1>1, SameThins, RestThins
  <2> QED BY <1>1, <1>2, <2>1, Thinned
<1> HIDE DEF rq1
<1>4. CallLast(rq, rp, n) => CallLast(rq1, rp, n)
  <2>1. SUFFICES ASSUME CallLast(rq, rp, n) PROVE CallLast(rq1, rp, n)
    OBVIOUS
  <2>2. ASSUME NEW j \in 1..Len(rq1), rq1[j].id = n PROVE j = Len(rq1)
    <3>1. j + 1 \in 1..Len(rq) /\ rq[j + 1].id = n
      BY <1>2, <2>2
    <3>2. j + 1 = Len(rq)
      BY <2>1, <3>1 DEF CallLast
    <3> QED BY <1>1, <1>2, <3>2
  <2>3. \A i \in 1..Len(rp) : rp[i].id # n
    BY <2>1 DEF CallLast
  <2> QED BY <2>2, <2>3 DEF CallLast
<1> QED BY <1>3, <1>4 DEF Outstanding, rq1

LEMMA AfterReply ==
  ASSUME NEW rq, NEW rp, NEW ph, NEW n, NEW l, NEW m,
         Outstanding(rq, rp, ph, n, l), rq # <<>>,
         Head(rq).rep, m.id = Head(rq).id
  PROVE  Outstanding(Tail(rq), Append(rp, m), ph, n, l)
<1> DEFINE rq1 == Tail(rq)
           rp1 == Append(rp, m)
           old == Oldest(ph, n, l)
<1>1. /\ IsSeq(rq) /\ IsSeq(rp) /\ Len(rq) \in Nat /\ Len(rp) \in Nat
      /\ n \in Nat
      /\ Queues(rq, rp, n, l) /\ Ordered(rq, rp) /\ NotOlder(rq, rp, old)
  BY Queue DEF Outstanding, Queues
<1>2. /\ IsSeq(rq1) /\ Len(rq1) = Len(rq) - 1
      /\ rq1 = <<>> <=> Len(rq1) = 0
      /\ Head(rq) = rq[1] /\ 1 \in 1..Len(rq)
      /\ \A i \in 1..Len(rq1) : i + 1 \in 1..Len(rq) /\ rq1[i] = rq[i + 1]
  BY <1>1, Rest, Queue
<1>3. /\ Len(rp1) = Len(rp) + 1
      /\ rp1[Len(rp) + 1] = m
      /\ \A i \in 1..Len(rp) : rp1[i] = rp[i]
  BY <1>1, Appended
<1>4. Outstanding(rq1, rp, ph, n, l)
  BY AfterRead
<1> HIDE DEF rq1, old
<1>5. m.id = rq[1].id /\ m.id # 0 /\ m.id \in 0..n
  BY <1>1, <1>2 DEF Queues
<1>6. m.id >= old
  BY <1>1, <1>2, <1>5 DEF NotOlder
<1>7. \A i \in 1..Len(rp) : rp[i].id < m.id
  BY <1>1, <1>2, <1>5 DEF Ordered
<1>8. ASSUME NEW j \in 1..Len(rq1), rq1[j].id # 0
      PROVE  m.id < rq1[j].id
  <2>1. j + 1 \in 1..Len(rq) /\ rq1[j] = rq[j + 1] /\ 1 < j + 1
    BY <1>2
  <2> QED BY <1>1, <1>2, <1>5, <1>8, <2>1 DEF Ordered
<1>9. Queues(rq1, rp, n, l) /\ Ordered(rq1, rp) /\ NotOlder(rq1, rp, old)
  BY <1>4 DEF Outstanding, old
<1>10. m.id \in 1..n
  BY <1>1, <1>5
<1>11. Queues(rq1, rp1, n, l) /\ Ordered(rq1, rp1) /\ NotOlder(rq1, rp1, old)
  BY <1>6, <1>7, <1>8, <1>9, <1>10, Replied
<1> HIDE DEF rp1
<1>12. CallLast(rq, rp, n) /\ CallLast(rq1, rp, n) => CallLast(rq1, rp1, n)
  <2>1. SUFFICES ASSUME CallLast(rq, rp, n), CallLast(rq1, rp, n)
                 PROVE  CallLast(rq1, rp1, n)
    OBVIOUS
  <2>2. \A i \in 1..Len(rp) : rp[i].id # n
    BY <2>1 DEF CallLast
  <2>3. m.id = n => Len(rq) = 1
    BY <1>2, <1>5, <2>1 DEF CallLast
  <2>4. m.id = n => rq1 = <<>>
    BY <1>2, <2>3
  <2>5. ASSUME NEW i \in 1..Len(rp1), rp1[i].id = n PROVE rq1 = <<>>
    <3>1. i = Len(rp) + 1 \/ i \in 1..Len(rp)
      BY <1>1, <1>3
    <3> QED BY <1>3, <2>2, <2>4, <2>5, <3>1
  <2> QED BY <2>1, <2>5 DEF CallLast
<1> QED BY <1>4, <1>11, <1>12 DEF Outstanding, old, rq1, rp1

-----------------------------------------------------------------------------
(* The steps of the system.                                                *)

LEMMA Excepted ==
  ASSUME NEW f, f = [t \in Sessions |-> f[t]], NEW s \in Sessions, NEW v
  PROVE  /\ [f EXCEPT ![s] = v] = [t \in Sessions |-> [f EXCEPT ![s] = v][t]]
         /\ [f EXCEPT ![s] = v][s] = v
         /\ \A t \in Sessions \ {s} : [f EXCEPT ![s] = v][t] = f[t]
<1>1. [f EXCEPT ![s] = v] = [t \in Sessions |-> IF t = s THEN v ELSE f[t]]
  OBVIOUS
<1> QED BY <1>1

(* A step of the session s.                                                *)
StepOf(s) ==
  \A t \in Sessions \ {s} :
    /\ requests'[t] = requests[t] /\ replies'[t] = replies[t]
    /\ phase'[t] = phase[t] /\ call'[t] = call[t]
    /\ late'[t] = late[t] /\ answer'[t] = answer[t]

LEMMA StepInv ==
  ASSUME CallsInv, NEW s \in Sessions, StepOf(s), Shapes', SessionInv(s)'
  PROVE  CallsInv'
<1>1. ASSUME NEW t \in Sessions \ {s} PROVE SessionInv(t)'
  <2>1. SessionInv(t)
    BY DEF CallsInv
  <2> QED BY <2>1 DEF StepOf, SessionInv
<1> QED BY <1>1 DEF CallsInv

LEMMA NothingDone ==
  ASSUME CallsInv, UNCHANGED <<phase, requests, replies, call, late, answer>>
  PROVE  CallsInv'
<1>1. Shapes'
  BY DEF CallsInv, Shapes
<1>2. ASSUME NEW t \in Sessions PROVE SessionInv(t)'
  <2>1. SessionInv(t)
    BY DEF CallsInv
  <2> QED BY <2>1 DEF SessionInv
<1> QED BY <1>1, <1>2 DEF CallsInv

LEMMA CallStep ==
  ASSUME CallsInv, NEW s \in Sessions, NEW op, NEW arg, Call(s, op, arg)
  PROVE  CallsInv'
<1> DEFINE q == Request(op, arg, call[s].id + 1)
<1>1. Shapes /\ SessionInv(s)
  BY DEF CallsInv
<1>2. /\ phase' = [phase EXCEPT ![s] = "waiting"]
      /\ call' = [call EXCEPT ![s] = q]
      /\ requests' = [requests EXCEPT ![s] = Append(requests[s], q)]
      /\ answer' = [answer EXCEPT ![s] = NoAnswer]
      /\ UNCHANGED <<replies, late>>
      /\ phase[s] # "waiting"
  BY DEF Call, Put
<1>3. q.id = call[s].id + 1 /\ q.rep = (q.id # 0)
  BY DEF Request
<1> HIDE DEF q
<1>4. /\ phase'[s] = "waiting" /\ call'[s] = q
      /\ requests'[s] = Append(requests[s], q) /\ answer'[s] = NoAnswer
      /\ replies'[s] = replies[s] /\ late'[s] = late[s]
  BY <1>1, <1>2, Excepted DEF Shapes
<1>5. Shapes'
  BY <1>1, <1>2, Excepted DEF Shapes
<1>6. StepOf(s)
  BY <1>1, <1>2, Excepted DEF Shapes, StepOf
<1>7. Outstanding(Append(requests[s], q), replies[s], "waiting", call[s].id + 1, late[s])
  BY <1>1, <1>2, <1>3, AfterCall DEF SessionInv
<1>8. SessionInv(s)'
  BY <1>3, <1>4, <1>7 DEF SessionInv, Returned
<1> QED BY <1>5, <1>6, <1>8, StepInv

LEMMA AsyncStep ==
  ASSUME CallsInv, NEW s \in Sessions, NEW op, NEW x, Async(s, op, x)
  PROVE  CallsInv'
<1> DEFINE q == Request(op, <<x>>, 0)
<1>1. Shapes /\ SessionInv(s)
  BY DEF CallsInv
<1>2. /\ requests' = [requests EXCEPT ![s] = Append(requests[s], q)]
      /\ answer' = [answer EXCEPT ![s] = NoAnswer]
      /\ UNCHANGED <<phase, replies, call, late>>
      /\ phase[s] # "waiting"
  BY DEF Async, Put
<1>3. q.id = 0 /\ q.rep = (q.id # 0)
  BY DEF Request
<1> HIDE DEF q
<1>4. /\ requests'[s] = Append(requests[s], q) /\ answer'[s] = NoAnswer
      /\ phase'[s] = phase[s] /\ call'[s] = call[s]
      /\ replies'[s] = replies[s] /\ late'[s] = late[s]
  BY <1>1, <1>2, Excepted DEF Shapes
<1>5. Shapes'
  BY <1>1, <1>2, Excepted DEF Shapes
<1>6. StepOf(s)
  BY <1>1, <1>2, Excepted DEF Shapes, StepOf
<1>7. Outstanding(Append(requests[s], q), replies[s], phase[s], call[s].id, late[s])
  BY <1>1, <1>2, <1>3, AfterAsync DEF SessionInv
<1>8. SessionInv(s)'
  BY <1>4, <1>7 DEF SessionInv, Returned
<1> QED BY <1>5, <1>6, <1>8, StepInv

LEMMA ReturnStep ==
  ASSUME CallsInv, NEW s \in Sessions, Return(s)
  PROVE  CallsInv'
<1> DEFINE m == Head(replies[s])
<1>1. Shapes /\ SessionInv(s)
  BY DEF CallsInv
<1>2. PICK ph \in {"closed", "idle"} : phase' = [phase EXCEPT ![s] = ph]
  BY DEF Return
<1>3. PICK a \in {m, NoAnswer} : answer' = [answer EXCEPT ![s] = a]
  BY DEF Return
<1>4. /\ replies' = [replies EXCEPT ![s] = Tail(replies[s])]
      /\ UNCHANGED <<requests, call, late>>
      /\ phase[s] = "waiting" /\ replies[s] # <<>> /\ ph # "waiting"
  BY DEF Return
<1>5. /\ phase'[s] = ph /\ answer'[s] = a /\ replies'[s] = Tail(replies[s])
      /\ requests'[s] = requests[s] /\ call'[s] = call[s] /\ late'[s] = late[s]
  BY <1>1, <1>2, <1>3, <1>4, Excepted DEF Shapes
<1>6. Shapes'
  BY <1>1, <1>2, <1>3, <1>4, Excepted DEF Shapes
<1>7. StepOf(s)
  BY <1>1, <1>2, <1>3, <1>4, Excepted DEF Shapes, StepOf
<1>8. /\ Outstanding(requests[s], Tail(replies[s]), ph, call[s].id, late[s])
      /\ Returned(requests[s], Tail(replies[s]), m, call[s].id, late[s])
  BY <1>1, <1>4, AfterReturn DEF SessionInv
<1>9. Returned(requests[s], Tail(replies[s]), a, call[s].id, late[s])
  BY <1>8 DEF Returned
<1>10. SessionInv(s)'
  BY <1>5, <1>8, <1>9 DEF SessionInv
<1> QED BY <1>6, <1>7, <1>10, StepInv

LEMMA TimeOutStep ==
  ASSUME CallsInv, NEW s \in Sessions, TimeOut(s)
  PROVE  CallsInv'
<1>1. Shapes /\ SessionInv(s)
  BY DEF CallsInv
<1>2. PICK ph \in {"closed", "idle"} : phase' = [phase EXCEPT ![s] = ph]
  BY DEF TimeOut
<1>3. /\ late' = [late EXCEPT ![s] = late[s] + 1]
      /\ UNCHANGED <<requests, replies, call, answer>>
      /\ phase[s] = "waiting" /\ ph # "waiting"
  BY DEF TimeOut, wire
<1>4. /\ phase'[s] = ph /\ late'[s] = late[s] + 1
      /\ answer'[s] = answer[s] /\ replies'[s] = replies[s]
      /\ requests'[s] = requests[s] /\ call'[s] = call[s]
  BY <1>1, <1>2, <1>3, Excepted DEF Shapes
<1>5. Shapes'
  BY <1>1, <1>2, <1>3, Excepted DEF Shapes
<1>6. StepOf(s)
  BY <1>1, <1>2, <1>3, Excepted DEF Shapes, StepOf
<1>7. /\ Outstanding(requests[s], replies[s], ph, call[s].id, late[s] + 1)
      /\ Returned(requests[s], replies[s], answer[s], call[s].id, late[s] + 1)
  BY <1>1, <1>3, AfterTimeOut DEF SessionInv
<1>8. SessionInv(s)'
  BY <1>4, <1>7 DEF SessionInv
<1> QED BY <1>5, <1>6, <1>8, StepInv

LEMMA DisconnectLess ==
  ASSUME CallsInv, NEW s \in Sessions, disconnect(s)
  PROVE  /\ Shapes' /\ StepOf(s)
         /\ phase[s] = "idle" /\ phase'[s] = "closed" /\ answer'[s] = NoAnswer
         /\ Less(requests'[s], requests[s]) /\ Less(replies'[s], replies[s])
<1>1. Shapes /\ IsSeq(requests[s]) /\ IsSeq(replies[s])
  BY DEF CallsInv, SessionInv, Outstanding, Queues
<1>2. PICK k \in 0..Len(requests[s]) :
        requests' = [requests EXCEPT ![s] = SubSeq(requests[s], 1, k)]
  BY DEF disconnect
<1>3. /\ phase' = [phase EXCEPT ![s] = "closed"]
      /\ replies' = [replies EXCEPT ![s] = <<>>]
      /\ answer' = [answer EXCEPT ![s] = NoAnswer]
      /\ UNCHANGED <<call, late>>
      /\ phase[s] = "idle"
  BY DEF disconnect
<1>4. /\ phase'[s] = "closed" /\ answer'[s] = NoAnswer
      /\ replies'[s] = <<>> /\ requests'[s] = SubSeq(requests[s], 1, k)
  BY <1>1, <1>2, <1>3, Excepted DEF Shapes
<1>5. Shapes'
  BY <1>1, <1>2, <1>3, Excepted DEF Shapes
<1>6. StepOf(s)
  BY <1>1, <1>2, <1>3, Excepted DEF Shapes, StepOf
<1>7. Less(SubSeq(requests[s], 1, k), requests[s])
  BY <1>1, CutLess
<1>8. Less(<<>>, replies[s])
  <2>1. Len(replies[s]) \in Nat
    BY <1>1, Queue
  <2>2. 0 \in 0..Len(replies[s])
    BY <2>1
  <2>3. IsSeq(SubSeq(replies[s], 1, 0)) /\ Len(SubSeq(replies[s], 1, 0)) = 0
    BY <1>1, <2>2, Cut
  <2>4. SubSeq(replies[s], 1, 0) = <<>>
    BY <2>3, Queue
  <2>5. Less(SubSeq(replies[s], 1, 0), replies[s])
    BY <1>1, <2>2, CutLess
  <2> QED BY <2>4, <2>5
<1> QED BY <1>3, <1>4, <1>5, <1>6, <1>7, <1>8

LEMMA DisconnectStep ==
  ASSUME CallsInv, NEW s \in Sessions, disconnect(s)
  PROVE  CallsInv'
<1>1. SessionInv(s) /\ UNCHANGED <<call, late>>
  BY DEF CallsInv, disconnect
<1>2. /\ Shapes' /\ StepOf(s)
      /\ phase[s] = "idle" /\ phase'[s] = "closed" /\ answer'[s] = NoAnswer
      /\ Less(requests'[s], requests[s]) /\ Less(replies'[s], replies[s])
  BY DisconnectLess
<1>3. Outstanding(requests'[s], replies'[s], "idle", call[s].id, late[s])
  BY <1>1, <1>2, AfterLess DEF SessionInv
<1>4. Outstanding(requests'[s], replies'[s], "closed", call[s].id, late[s])
  BY <1>3 DEF Outstanding, Oldest
<1>5. SessionInv(s)'
  BY <1>1, <1>2, <1>4 DEF SessionInv, Returned
<1> QED BY <1>2, <1>5, StepInv

(* Some of what is on the way of any session is lost.                      *)
LEMMA LessStep ==
  ASSUME CallsInv, Shapes', UNCHANGED <<phase, call, late, answer>>,
         \A t \in Sessions : Less(requests'[t], requests[t]) /\ Less(replies'[t], replies[t])
  PROVE  CallsInv'
<1>1. ASSUME NEW t \in Sessions PROVE SessionInv(t)'
  <2>1. SessionInv(t)
    BY DEF CallsInv
  <2>2. /\ Outstanding(requests'[t], replies'[t], phase[t], call[t].id, late[t])
        /\ Returned(requests'[t], replies'[t], answer[t], call[t].id, late[t])
    BY <2>1, AfterLess DEF SessionInv
  <2> QED BY <2>2 DEF SessionInv
<1> QED BY <1>1 DEF CallsInv

LEMMA BreakLess ==
  ASSUME CallsInv, NEW s \in Sessions, Break(s)
  PROVE  /\ Shapes' /\ StepOf(s)
         /\ \A t \in Sessions : Less(requests'[t], requests[t]) /\ Less(replies'[t], replies[t])
<1>1. Shapes /\ \A t \in Sessions : IsSeq(requests[t]) /\ IsSeq(replies[t])
  BY DEF CallsInv, SessionInv, Outstanding, Queues
<1>2. PICK up \in Torn(requests[s]) : \E down \in Torn(replies[s]) :
        /\ requests' = [requests EXCEPT ![s] = up]
        /\ replies' = [replies EXCEPT ![s] = down]
  BY DEF Break
<1>3. PICK down \in Torn(replies[s]) :
        /\ requests' = [requests EXCEPT ![s] = up]
        /\ replies' = [replies EXCEPT ![s] = down]
  BY <1>2
<1>4. UNCHANGED <<phase, call, late, answer>>
  BY DEF Break, session
<1>5. /\ requests'[s] = up /\ replies'[s] = down
      /\ \A t \in Sessions \ {s} : requests'[t] = requests[t] /\ replies'[t] = replies[t]
  BY <1>1, <1>3, Excepted DEF Shapes
<1>6. Shapes'
  BY <1>1, <1>3, <1>4, Excepted DEF Shapes
<1>7. Less(up, requests[s]) /\ Less(down, replies[s])
  BY <1>1, TornLess
<1>8. \A t \in Sessions \ {s} : Less(requests[t], requests[t]) /\ Less(replies[t], replies[t])
  BY <1>1, SameLess
<1>9. StepOf(s)
  BY <1>4, <1>5 DEF StepOf
<1> QED BY <1>5, <1>6, <1>7, <1>8, <1>9

LEMMA BreakStep ==
  ASSUME CallsInv, NEW s \in Sessions, Break(s)
  PROVE  CallsInv'
<1>1. UNCHANGED <<phase, call, late, answer>>
  BY DEF Break, session
<1> QED BY <1>1, BreakLess, LessStep

LEMMA RestartLess ==
  ASSUME CallsInv, Restart
  PROVE  /\ Shapes'
         /\ \A t \in Sessions : Less(requests'[t], requests[t]) /\ Less(replies'[t], replies[t])
<1>1. \A t \in Sessions : IsSeq(requests[t]) /\ IsSeq(replies[t])
  BY DEF CallsInv, SessionInv, Outstanding, Queues
<1>2. PICK k \in [RegionSessions -> 0..calls] : \E n \in [RegionSessions -> 0..calls] :
        /\ \A s \in RegionSessions : k[s] <= Len(requests[s]) /\ n[s] <= Len(replies[s])
        /\ requests' = [s \in Sessions |->
             IF s \in RegionSessions THEN SubSeq(requests[s], k[s] + 1, Len(requests[s]))
                                    ELSE requests[s]]
        /\ replies' = [s \in Sessions |->
             IF s \in RegionSessions THEN SubSeq(replies[s], 1, n[s]) ELSE replies[s]]
  BY DEF Restart
<1>3. PICK n \in [RegionSessions -> 0..calls] :
        /\ \A s \in RegionSessions : k[s] <= Len(requests[s]) /\ n[s] <= Len(replies[s])
        /\ requests' = [s \in Sessions |->
             IF s \in RegionSessions THEN SubSeq(requests[s], k[s] + 1, Len(requests[s]))
                                    ELSE requests[s]]
        /\ replies' = [s \in Sessions |->
             IF s \in RegionSessions THEN SubSeq(replies[s], 1, n[s]) ELSE replies[s]]
  BY <1>2
<1>4. UNCHANGED <<phase, call, late, answer>>
  BY DEF Restart, session
<1>5. Shapes'
  BY <1>3, <1>4 DEF CallsInv, Shapes
<1>6. ASSUME NEW t \in Sessions
      PROVE  Less(requests'[t], requests[t]) /\ Less(replies'[t], replies[t])
  <2>1. CASE t \in RegionSessions
    <3>1. /\ requests'[t] = SubSeq(requests[t], k[t] + 1, Len(requests[t]))
          /\ replies'[t] = SubSeq(replies[t], 1, n[t])
      BY <1>3, <2>1
    <3>2. Len(requests[t]) \in Nat /\ Len(replies[t]) \in Nat
      BY <1>1, Queue
    <3>3. k[t] \in Nat /\ n[t] \in Nat
      BY <2>1
    <3>4. k[t] <= Len(requests[t]) /\ n[t] <= Len(replies[t])
      BY <1>3, <2>1
    <3>5. k[t] \in 0..Len(requests[t]) /\ n[t] \in 0..Len(replies[t])
      BY <3>2, <3>3, <3>4
    <3> QED BY <1>1, <3>1, <3>5, DropLess, CutLess
  <2>2. CASE t \notin RegionSessions
    BY <1>1, <1>3, <2>2, SameLess
  <2> QED BY <2>1, <2>2
<1> QED BY <1>5, <1>6

LEMMA RestartStep ==
  ASSUME CallsInv, Restart
  PROVE  CallsInv'
<1>1. UNCHANGED <<phase, call, late, answer>>
  BY DEF Restart, session
<1> QED BY <1>1, RestartLess, LessStep

LEMMA AnswerStep ==
  ASSUME CallsInv, NEW s \in Sessions, NEW type, NEW data,
         requests[s] # <<>>, Answer(s, type, data)
  PROVE  CallsInv'
<1> DEFINE q == Head(requests[s])
           m == [type |-> type, id |-> q.id, data |-> data]
<1>1. Shapes /\ SessionInv(s)
  BY DEF CallsInv
<1>2. PICK rp : /\ replies' = [replies EXCEPT ![s] = rp]
                /\ rp = replies[s] \/ (q.rep /\ rp = Append(replies[s], m))
  BY DEF Answer
<1>3. /\ requests' = [requests EXCEPT ![s] = Tail(requests[s])]
      /\ UNCHANGED <<phase, call, late, answer>>
  BY DEF Answer, session
<1>4. /\ requests'[s] = Tail(requests[s]) /\ replies'[s] = rp
      /\ phase'[s] = phase[s] /\ late'[s] = late[s]
      /\ answer'[s] = answer[s] /\ call'[s] = call[s]
  BY <1>1, <1>2, <1>3, Excepted DEF Shapes
<1>5. Shapes'
  BY <1>1, <1>2, <1>3, Excepted DEF Shapes
<1>6. StepOf(s)
  BY <1>1, <1>2, <1>3, Excepted DEF Shapes, StepOf
<1>7. Outstanding(Tail(requests[s]), rp, phase[s], call[s].id, late[s])
  <2>1. m.id = q.id
    OBVIOUS
  <2> HIDE DEF m
  <2> QED BY <1>1, <1>2, <2>1, AfterRead, AfterReply DEF SessionInv
<1>8. Returned(Tail(requests[s]), rp, answer[s], call[s].id, late[s])
  BY <1>1 DEF SessionInv, Returned
<1>9. SessionInv(s)'
  BY <1>4, <1>7, <1>8 DEF SessionInv
<1> QED BY <1>5, <1>6, <1>9, StepInv

(* Every handler of the two actors answers the request it reads.           *)
LEMMA HandlersAnswer ==
  ASSUME NEW s \in Sessions,
         \/ addService(s) \/ rmServiceReq(s) \/ addPayload(s) \/ rmPayloadReq(s) \/ handshake(s)
         \/ onHandShake(s) \/ onStaticsReq(s) \/ onRegionReq(s)
         \/ onServiceRouteReq(s) \/ onPayloadRouteReq(s) \/ onPayloadsRouteReq(s)
  PROVE  requests[s] # <<>> /\ \E type, data : Answer(s, type, data)
BY DEF addService, rmServiceReq, addPayload, rmPayloadReq, handshake, Result, Tell, Asked,
       onHandShake, onStaticsReq, onRegionReq, onServiceRouteReq, onPayloadRouteReq,
       onPayloadsRouteReq

LEMMA InitCalls == Init => CallsInv
<1>1. SUFFICES ASSUME Init PROVE CallsInv
  OBVIOUS
<1>2. Shapes
  BY <1>1 DEF Init, Shapes
<1>3. ASSUME NEW s \in Sessions PROVE SessionInv(s)
  <2>1. /\ requests[s] = <<>> /\ replies[s] = <<>> /\ phase[s] = "new"
        /\ late[s] = 0 /\ answer[s] = NoAnswer /\ call[s].id = 0
    BY <1>1 DEF Init, Request
  <2>2. Queues(<<>>, <<>>, 0, 0)
    BY NoQueue DEF Queues
  <2>3. Outstanding(<<>>, <<>>, "new", 0, 0)
    BY <2>2 DEF Outstanding, Ordered, NotOlder, Oldest
  <2> QED BY <2>1, <2>3 DEF SessionInv, Returned
<1> QED BY <1>2, <1>3 DEF CallsInv

LEMMA NextCalls == CallsInv /\ [Next]_vars => CallsInv'
<1>1. SUFFICES ASSUME CallsInv, [Next]_vars PROVE CallsInv'
  OBVIOUS
<1>2. CASE UNCHANGED vars \/ UpdateTable
  BY <1>1, <1>2, NothingDone DEF vars, UpdateTable, wire, session
<1>3. ASSUME NEW s \in Sessions,
             connect(s) \/ Return(s) \/ TimeOut(s) \/ disconnect(s) \/ Break(s)
      PROVE  CallsInv'
  BY <1>1, <1>3, CallStep, ReturnStep, TimeOutStep, DisconnectStep, BreakStep DEF connect
<1>4. ASSUME NEW s \in Sessions,
             \/ addService(s) \/ rmServiceReq(s) \/ addPayload(s) \/ rmPayloadReq(s)
             \/ handshake(s) \/ onHandShake(s) \/ onStaticsReq(s) \/ onRegionReq(s)
             \/ onServiceRouteReq(s) \/ onPayloadRouteReq(s) \/ onPayloadsRouteReq(s)
      PROVE  CallsInv'
  BY <1>1, <1>4, HandlersAnswer, AnswerStep
<1>5. ASSUME NEW s \in Sessions, NEW p,
             \/ newPayload(s, p) \/ rmPayload(s, p) \/ newService(s, p) \/ rmService(s, p)
             \/ getPayloadRouteInfo(s, p) \/ getServiceRouteInfo(s, p) \/ getRegion(s, p)
             \/ getStatistics(s) \/ getPayloadsRouteInfo(s, p)
      PROVE  CallsInv'
  BY <1>1, <1>5, CallStep DEF newPayload, rmPayload, newService, rmService,
     getPayloadRouteInfo, getServiceRouteInfo, getRegion, getStatistics, getPayloadsRouteInfo
<1>6. ASSUME NEW s \in Sessions, NEW p,
             \/ asyncNewPayload(s, p) \/ asyncRmPayload(s, p)
             \/ asyncNewService(s, p) \/ asyncRmService(s, p)
      PROVE  CallsInv'
  BY <1>1, <1>6, AsyncStep
     DEF asyncNewPayload, asyncRmPayload, asyncNewService, asyncRmService
<1>7. CASE Restart
  BY <1>1, <1>7, RestartStep
<1> QED BY <1>1, <1>2, <1>3, <1>4, <1>5, <1>6, <1>7 DEF Next

LEMMA CallsInvariant == Spec => []CallsInv
BY InitCalls, NextCalls, PTL DEF Spec

(* What a call returns lags behind it by no more calls than have timed     *)
(* out, however many sessions, calls and breaks there are.                 *)
THEOREM AnswersLate == Spec => []LateByTimeouts
<1>1. CallsInv => LateByTimeouts
  BY DEF CallsInv, SessionInv, Returned, LateByTimeouts
<1> QED BY <1>1, CallsInvariant, PTL

(* A synchronous call that returns, when none of the session has timed     *)
(* out, finds everything done that was sent before.                        *)
THEOREM CallsAreBarriers == Spec => []Barrier
<1>1. CallsInv => Barrier
  BY DEF CallsInv, SessionInv, Returned, Barrier
<1> QED BY <1>1, CallsInvariant, PTL

-----------------------------------------------------------------------------
(* The versions the replies carry.                                         *)

(* A moment of the region: a run of it and a version.                      *)
Moment(x) == x.run \in Nat /\ x.version \in Nat

Now == [run |-> run, version |-> version]

(* The replies rp carry growing moments between v and top.                 *)
Told(rp, v, top) ==
  /\ IsSeq(rp)
  /\ Moment(v) /\ Moment(top) /\ Before(v, top)
  /\ \A i \in 1..Len(rp) :
       Moment(rp[i].data) /\ Before(v, rp[i].data) /\ Before(rp[i].data, top)
  /\ \A i, j \in 1..Len(rp) : i < j => Before(rp[i].data, rp[j].data)

VersionsInv ==
  /\ run \in Nat /\ version \in Nat
  /\ \A s \in RegionSessions : Told(replies[s], seen[s], Now)

NoVersionBack ==
  \A s \in RegionSessions : Before(seen[s], seen'[s]) /\ Before(seen'[s], Now')

LEMMA BeforeTwice ==
  \A x, y, z : Moment(x) /\ Moment(y) /\ Moment(z) /\ Before(x, y) /\ Before(y, z) => Before(x, z)
BY DEF Moment, Before

LEMMA BeforeItself == \A x : Moment(x) => Before(x, x)
BY DEF Moment, Before

LEMMA ToldLater ==
  ASSUME NEW rp, NEW v, NEW top, NEW top1, Moment(top1), Told(rp, v, top), Before(top, top1)
  PROVE  Told(rp, v, top1)
<1>1. Before(v, top1)
  BY BeforeTwice DEF Told
<1>2. \A i \in 1..Len(rp) : Before(rp[i].data, top1)
  BY BeforeTwice DEF Told
<1> QED BY <1>1, <1>2 DEF Told

LEMMA ToldLess ==
  ASSUME NEW rp, NEW rp1, NEW v, NEW top, Told(rp, v, top), Less(rp1, rp)
  PROVE  Told(rp1, v, top)
<1>1. PICK f : /\ \A i \in 1..Len(rp1) : f[i] \in 1..Len(rp) /\ rp1[i] = rp[f[i]]
               /\ \A i, j \in 1..Len(rp1) : i < j => f[i] < f[j]
  BY DEF Less, Thins
<1>2. \A i \in 1..Len(rp1) :
        Moment(rp1[i].data) /\ Before(v, rp1[i].data) /\ Before(rp1[i].data, top)
  BY <1>1 DEF Told
<1>3. ASSUME NEW i \in 1..Len(rp1), NEW j \in 1..Len(rp1), i < j
      PROVE  Before(rp1[i].data, rp1[j].data)
  <2>1. PICK x \in 1..Len(rp), y \in 1..Len(rp) : x < y /\ rp1[i] = rp[x] /\ rp1[j] = rp[y]
    BY <1>1, <1>3
  <2> QED BY <2>1 DEF Told
<1> QED BY <1>2, <1>3 DEF Told, Less

LEMMA ToldAppend ==
  ASSUME NEW rp, NEW v, NEW top, NEW m, Told(rp, v, top),
         Moment(m.data), Before(top, m.data), Before(m.data, top)
  PROVE  Told(Append(rp, m), v, top)
<1> DEFINE rp1 == Append(rp, m)
           end == Len(rp) + 1
<1>1. IsSeq(rp) /\ Len(rp) \in Nat /\ Moment(v) /\ Moment(top) /\ Before(v, top)
  BY Queue DEF Told
<1>2. /\ IsSeq(rp1) /\ Len(rp1) = end
      /\ rp1[end] = m
      /\ \A i \in 1..Len(rp) : rp1[i] = rp[i]
  BY <1>1, Appended
<1> HIDE DEF rp1
<1>3. \A i \in 1..Len(rp1) : i = end \/ i \in 1..Len(rp)
  BY <1>1, <1>2
<1>4. Before(v, m.data)
  BY <1>1, BeforeTwice
<1>5. \A i \in 1..Len(rp1) :
        Moment(rp1[i].data) /\ Before(v, rp1[i].data) /\ Before(rp1[i].data, top)
  BY <1>2, <1>3, <1>4 DEF Told
<1>6. ASSUME NEW i \in 1..Len(rp1), NEW j \in 1..Len(rp1), i < j
      PROVE  Before(rp1[i].data, rp1[j].data)
  <2>1. CASE j = end
    <3>1. Moment(rp1[i].data) /\ Before(rp1[i].data, top)
      BY <1>5
    <3> QED BY <1>1, <1>2, <2>1, <3>1, BeforeTwice
  <2>2. CASE j \in 1..Len(rp)
    <3>1. i \in 1..Len(rp)
      BY <1>1, <1>6, <2>2
    <3> QED BY <1>2, <1>6, <2>2, <3>1 DEF Told
  <2> QED BY <1>3, <2>1, <2>2
<1>7. Told(rp1, v, top)
  BY <1>1, <1>2, <1>5, <1>6 DEF Told
<1> QED BY <1>7 DEF rp1

LEMMA ToldTaken ==
  ASSUME NEW rp, NEW v, NEW top, Told(rp, v, top), rp # <<>>
  PROVE  /\ Told(Tail(rp), v, top)
         /\ Told(Tail(rp), Head(rp).data, top)
         /\ Before(v, Head(rp).data)
<1> DEFINE rp1 == Tail(rp)
           m == Head(rp)
<1>1. IsSeq(rp) /\ Len(rp) \in Nat /\ Moment(v) /\ Moment(top) /\ Before(v, top)
  BY Queue DEF Told
<1>2. /\ IsSeq(rp1) /\ Len(rp1) = Len(rp) - 1
      /\ m = rp[1] /\ 1 \in 1..Len(rp)
      /\ \A i \in 1..Len(rp1) : i + 1 \in 1..Len(rp) /\ rp1[i] = rp[i + 1]
  BY <1>1, Rest
<1>3. Less(rp1, rp)
  BY <1>1, <1>2, RestThins DEF Less
<1> HIDE DEF rp1, m
<1>4. Moment(m.data) /\ Before(v, m.data) /\ Before(m.data, top)
  BY <1>2 DEF Told
<1>5. ASSUME NEW i \in 1..Len(rp1)
      PROVE  Before(m.data, rp1[i].data)
  <2>1. i + 1 \in 1..Len(rp) /\ rp1[i] = rp[i + 1] /\ 1 < i + 1
    BY <1>2
  <2> QED BY <1>2, <2>1 DEF Told
<1>6. Told(rp1, v, top)
  BY <1>3, ToldLess
<1>7. Told(rp1, m.data, top)
  BY <1>4, <1>5, <1>6 DEF Told
<1> QED BY <1>4, <1>6, <1>7 DEF rp1, m

(* What a handler of the region tells is the moment it leaves.             *)
LEMMA HandlersTell ==
  ASSUME NEW s \in Sessions, version \in Nat,
         \/ addService(s) \/ rmServiceReq(s) \/ addPayload(s) \/ rmPayloadReq(s) \/ handshake(s)
         \/ onHandShake(s) \/ onStaticsReq(s) \/ onRegionReq(s)
         \/ onServiceRouteReq(s) \/ onPayloadRouteReq(s) \/ onPayloadsRouteReq(s)
  PROVE  /\ version' \in Nat /\ version <= version' /\ run' = run
         /\ \E type, data :
              /\ Answer(s, type, data)
              /\ s \in RegionSessions => data.version = version' /\ data.run = run'
<1>1. CASE addService(s)
  <2>1. run' = run /\ \E e : Answer(s, "Result", [result |-> e, version |-> version', run |-> run])
    BY <1>1 DEF addService, Result
  <2>2. \A e : LET d == [result |-> e, version |-> version', run |-> run]
               IN  d.version = version' /\ d.run = run
    OBVIOUS
  <2>3. version' \in Nat /\ version <= version'
    BY <1>1 DEF addService
  <2> QED BY <2>1, <2>2, <2>3
<1>2. CASE rmServiceReq(s)
  <2>1. run' = run /\ \E e : Answer(s, "Result", [result |-> e, version |-> version', run |-> run])
    BY <1>2 DEF rmServiceReq, Result
  <2>2. \A e : LET d == [result |-> e, version |-> version', run |-> run]
               IN  d.version = version' /\ d.run = run
    OBVIOUS
  <2>3. version' \in Nat /\ version <= version'
    BY <1>2 DEF rmServiceReq
  <2> QED BY <2>1, <2>2, <2>3
<1>3. CASE addPayload(s)
  <2>1. run' = run /\ \E e : Answer(s, "Result", [result |-> e, version |-> version', run |-> run])
    BY <1>3 DEF addPayload, Result
  <2>2. \A e : LET d == [result |-> e, version |-> version', run |-> run]
               IN  d.version = version' /\ d.run = run
    OBVIOUS
  <2>3. version' \in Nat /\ version <= version'
    BY <1>3 DEF addPayload
  <2> QED BY <2>1, <2>2, <2>3
<1>4. CASE rmPayloadReq(s)
  <2>1. run' = run /\ \E e : Answer(s, "Result", [result |-> e, version |-> version', run |-> run])
    BY <1>4 DEF rmPayloadReq, Result
  <2>2. \A e : LET d == [result |-> e, version |-> version', run |-> run]
               IN  d.version = version' /\ d.run = run
    OBVIOUS
  <2>3. version' \in Nat /\ version <= version'
    BY <1>4 DEF rmPayloadReq
  <2> QED BY <2>1, <2>2, <2>3
<1>5. CASE handshake(s)
  <2>1. /\ Answer(s, "HandShake", [result |-> 0, version |-> version, run |-> run])
        /\ version' = version /\ run' = run
    BY <1>5 DEF handshake, regionTable
  <2>2. LET d == [result |-> 0, version |-> version, run |-> run]
        IN  d.version = version /\ d.run = run
    OBVIOUS
  <2> QED BY <2>1, <2>2
<1>6. ASSUME NEW op, NEW type, NEW data, Tell(s, op, type, data)
      PROVE  /\ (\E d \in data : Answer(s, type, d)) /\ version' = version /\ run' = run
             /\ s \notin RegionSessions
  BY <1>6 DEF Tell, regionTable
<1>7. CASE \/ onHandShake(s) \/ onStaticsReq(s) \/ onRegionReq(s)
           \/ onServiceRouteReq(s) \/ onPayloadRouteReq(s) \/ onPayloadsRouteReq(s)
  <2>1. \E op, type, data : Tell(s, op, type, data)
    BY <1>7 DEF onHandShake, onStaticsReq, onRegionReq, onServiceRouteReq,
                onPayloadRouteReq, onPayloadsRouteReq
  <2> QED BY <1>6, <2>1
<1> QED BY <1>1, <1>2, <1>3, <1>4, <1>5, <1>7

(* A step in which no session returns.                                     *)
LEMMA VersionsKept ==
  ASSUME VersionsInv, run' \in Nat, version' \in Nat, seen' = seen,
         \A s \in RegionSessions : Told(replies'[s], seen[s], Now')
  PROVE  VersionsInv' /\ NoVersionBack
<1>1. VersionsInv'
  BY DEF VersionsInv
<1>2. \A s \in RegionSessions : Before(seen[s], seen'[s]) /\ Before(seen'[s], Now')
  BY BeforeItself DEF Told
<1> QED BY <1>1, <1>2 DEF NoVersionBack

LEMMA ReturnTold ==
  ASSUME Shapes, VersionsInv, NEW s \in Sessions, Return(s)
  PROVE  VersionsInv' /\ NoVersionBack
<1>1. /\ replies' = [replies EXCEPT ![s] = Tail(replies[s])]
      /\ replies[s] # <<>> /\ version' = version /\ run' = run
  BY DEF Return, regionTable
<1>2. /\ replies'[s] = Tail(replies[s])
      /\ \A r \in Sessions : r # s => replies'[r] = replies[r]
  BY <1>1, Excepted DEF Shapes
<1>3. Now' = Now
  BY <1>1 DEF Now
<1>4. ASSUME NEW r \in RegionSessions
      PROVE  Told(replies'[r], seen'[r], Now) /\ Before(seen[r], seen'[r])
  <2>1. Told(replies[r], seen[r], Now) /\ r \in Sessions
    BY DEF VersionsInv, Sessions
  <2>2. Before(seen[r], seen[r])
    BY <2>1, BeforeItself DEF Told
  <2>3. CASE r = s
    <3>1. PICK d : d = Head(replies[s]).data
      OBVIOUS
    <3>2. /\ Told(Tail(replies[s]), seen[s], Now) /\ Told(Tail(replies[s]), d, Now)
          /\ Before(seen[s], d)
      BY <1>1, <2>1, <2>3, <3>1, ToldTaken
    <3>3. PICK e : e = [run |-> d.run, version |-> d.version]
      OBVIOUS
    <3>4. e.run = d.run /\ e.version = d.version
      BY <3>3
    <3>5. Told(Tail(replies[s]), e, Now) /\ Before(seen[s], e)
      BY <3>2, <3>4 DEF Told, Moment, Before
    <3>6. seen'[r] = seen[s] \/ seen'[r] = e
      BY <2>3, <3>1, <3>3 DEF Return
    <3> QED BY <1>2, <2>2, <2>3, <3>2, <3>5, <3>6
  <2>4. CASE r # s
    <3>1. seen'[r] = seen[r] /\ replies'[r] = replies[r]
      BY <1>2, <2>1, <2>4 DEF Return
    <3> QED BY <2>1, <2>2, <3>1
  <2> QED BY <2>3, <2>4
<1>5. \A r \in RegionSessions : Before(seen'[r], Now)
  BY <1>4 DEF Told
<1> QED BY <1>1, <1>3, <1>4, <1>5 DEF VersionsInv, NoVersionBack

LEMMA DisconnectTold ==
  ASSUME Shapes, VersionsInv, NEW s \in Sessions, disconnect(s)
  PROVE  VersionsInv' /\ NoVersionBack
<1>1. seen' = seen /\ version' = version /\ run' = run /\ replies' = [replies EXCEPT ![s] = <<>>]
  BY DEF disconnect, regionTable
<1>2. /\ replies'[s] = <<>>
      /\ \A r \in Sessions : r # s => replies'[r] = replies[r]
  BY <1>1, Excepted DEF Shapes
<1>3. ASSUME NEW r \in RegionSessions
      PROVE  Told(replies'[r], seen[r], Now)
  <2>1. Told(replies[r], seen[r], Now) /\ r \in Sessions
    BY DEF VersionsInv, Sessions
  <2>2. Told(<<>>, seen[r], Now)
    BY <2>1, NoQueue DEF Told
  <2> QED BY <1>2, <2>1, <2>2
<1>4. Now' = Now /\ run' \in Nat /\ version' \in Nat
  BY <1>1 DEF VersionsInv, Now
<1> QED BY <1>1, <1>3, <1>4, VersionsKept

(* Replies are lost, or the region starts anew.                            *)
LEMMA LostTold ==
  ASSUME VersionsInv, seen' = seen, \A t \in Sessions : Less(replies'[t], replies[t]),
         run' \in Nat, version' \in Nat, Before(Now, Now')
  PROVE  VersionsInv' /\ NoVersionBack
<1>1. PICK now : now = Now'
  OBVIOUS
<1>2. Moment(now) /\ Before(Now, now)
  BY <1>1 DEF Moment, Now
<1>3. ASSUME NEW r \in RegionSessions PROVE Told(replies'[r], seen[r], now)
  <2>1. Told(replies[r], seen[r], Now) /\ r \in Sessions
    BY DEF VersionsInv, Sessions
  <2>2. Told(replies'[r], seen[r], Now)
    BY <2>1, ToldLess
  <2> QED BY <1>2, <2>2, ToldLater
<1> QED BY <1>1, <1>3, VersionsKept

LEMMA HandlerTold ==
  ASSUME Shapes, VersionsInv, NEW s \in Sessions, NEW type, NEW data,
         Answer(s, type, data), version' \in Nat, version <= version', run' = run,
         s \in RegionSessions => data.version = version' /\ data.run = run'
  PROVE  VersionsInv' /\ NoVersionBack
<1> DEFINE m == [type |-> type, id |-> Head(requests[s]).id, data |-> data]
<1>1. seen' = seen
  BY DEF Answer, session
<1>2. PICK rp : /\ replies' = [replies EXCEPT ![s] = rp]
                /\ rp = replies[s] \/ rp = Append(replies[s], m)
  BY DEF Answer
<1>3. m.data = data
  OBVIOUS
<1> HIDE DEF m
<1>4. /\ replies'[s] = rp
      /\ \A r \in Sessions : r # s => replies'[r] = replies[r]
  BY <1>2, Excepted DEF Shapes
<1>5. PICK now : now = Now'
  OBVIOUS
<1>6. run \in Nat /\ version \in Nat /\ now.run = run /\ now.version = version'
  BY <1>5 DEF VersionsInv, Now
<1>7. Moment(now) /\ Before(Now, now)
  BY <1>6 DEF Moment, Now, Before
<1>8. ASSUME NEW r \in RegionSessions
      PROVE  Told(replies'[r], seen[r], now)
  <2>1. Told(replies[r], seen[r], Now) /\ r \in Sessions
    BY DEF VersionsInv, Sessions
  <2>2. Told(replies[r], seen[r], now)
    BY <1>7, <2>1, ToldLater
  <2>3. CASE r # s \/ rp = replies[s]
    <3>1. replies'[r] = replies[r]
      BY <1>4, <2>1, <2>3
    <3> QED BY <2>2, <3>1
  <2>4. CASE r = s /\ rp = Append(replies[s], m)
    <3>1. Moment(m.data) /\ Before(now, m.data) /\ Before(m.data, now)
      BY <1>3, <1>6, <2>4 DEF Moment, Before
    <3>2. Told(Append(replies[r], m), seen[r], now)
      BY <2>2, <3>1, ToldAppend
    <3> QED BY <1>4, <2>4, <3>2
  <2> QED BY <1>2, <2>3, <2>4
<1>9. run' \in Nat
  BY <1>6
<1> QED BY <1>1, <1>5, <1>8, <1>9, VersionsKept

LEMMA InitVersions == Init => VersionsInv
<1>1. SUFFICES ASSUME Init PROVE VersionsInv
  OBVIOUS
<1>2. version = 0 /\ run = 0
  BY <1>1 DEF Init
<1>3. Now = [run |-> 0, version |-> 0] /\ Moment(Now)
  BY <1>2 DEF Now, Moment
<1>4. Told(<<>>, Now, Now)
  BY <1>3, NoQueue, BeforeItself DEF Told
<1>5. ASSUME NEW s \in RegionSessions
      PROVE  replies[s] = <<>> /\ seen[s] = Now
  BY <1>1, <1>3 DEF Init, Sessions
<1> QED BY <1>2, <1>4, <1>5 DEF VersionsInv

LEMMA NextVersions == CallsInv /\ VersionsInv /\ [Next]_vars => VersionsInv' /\ NoVersionBack
<1>1. SUFFICES ASSUME CallsInv, VersionsInv, [Next]_vars PROVE VersionsInv' /\ NoVersionBack
  OBVIOUS
<1>2. Shapes
  BY <1>1 DEF CallsInv
<1>3. ASSUME UNCHANGED <<version, run, replies, seen>> PROVE VersionsInv' /\ NoVersionBack
  <2>1. Now' = Now
    BY <1>3 DEF Now
  <2> QED BY <1>1, <1>3, <2>1, VersionsKept DEF VersionsInv
<1>12. CASE Restart
  <2>1. seen' = seen /\ run' = run + 1 /\ version' = 0
    BY <1>12 DEF Restart, session
  <2>2. run \in Nat /\ Now'.run = run + 1 /\ Now.run = run
    BY <1>1, <2>1 DEF VersionsInv, Now
  <2>3. Before(Now, Now')
    BY <2>2 DEF Before
  <2> QED BY <1>1, <1>12, <2>1, <2>2, <2>3, RestartLess, LostTold
<1>13. ASSUME NEW s \in Sessions, Break(s) PROVE VersionsInv' /\ NoVersionBack
  <2>1. seen' = seen /\ run' = run /\ version' = version
    BY <1>13 DEF Break, session, regionTable
  <2>2. run' \in Nat /\ version' \in Nat /\ Now' = Now /\ Moment(Now)
    BY <1>1, <2>1 DEF VersionsInv, Now, Moment
  <2>3. Before(Now, Now')
    BY <2>2, BeforeItself
  <2> QED BY <1>1, <1>13, <2>1, <2>2, <2>3, BreakLess, LostTold
<1>4. CASE UNCHANGED vars \/ UpdateTable
  BY <1>3, <1>4 DEF vars, UpdateTable, wire, session, regionTable
<1>5. ASSUME NEW s \in Sessions, TimeOut(s) \/ \E op, arg : Call(s, op, arg) \/ Async(s, op, arg)
      PROVE  VersionsInv' /\ NoVersionBack
  BY <1>3, <1>5 DEF TimeOut, Call, Async, regionTable, wire
<1>6. ASSUME NEW s \in Sessions,
             connect(s) \/ Return(s) \/ TimeOut(s) \/ disconnect(s) \/ Break(s)
      PROVE  VersionsInv' /\ NoVersionBack
  BY <1>1, <1>2, <1>5, <1>6, <1>13, ReturnTold, DisconnectTold DEF connect
<1>7. ASSUME NEW s \in Sessions,
             \/ addService(s) \/ rmServiceReq(s) \/ addPayload(s) \/ rmPayloadReq(s)
             \/ handshake(s) \/ onHandShake(s) \/ onStaticsReq(s) \/ onRegionReq(s)
             \/ onServiceRouteReq(s) \/ onPayloadRouteReq(s) \/ onPayloadsRouteReq(s)
      PROVE  VersionsInv' /\ NoVersionBack
  <2>1. /\ version' \in Nat /\ version <= version' /\ run' = run
        /\ \E type, data :
             /\ Answer(s, type, data)
             /\ s \in RegionSessions => data.version = version' /\ data.run = run'
    BY <1>1, <1>7, HandlersTell DEF VersionsInv
  <2> QED BY <1>1, <1>2, <2>1, HandlerTold
<1>8. ASSUME NEW s \in Sessions, NEW p,
             \/ newPayload(s, p) \/ rmPayload(s, p) \/ newService(s, p) \/ rmService(s, p)
             \/ getPayloadRouteInfo(s, p) \/ getServiceRouteInfo(s, p) \/ getRegion(s, p)
             \/ getStatistics(s) \/ getPayloadsRouteInfo(s, p)
      PROVE  \E op, arg : Call(s, op, arg)
  BY <1>8 DEF newPayload, rmPayload, newService, rmService,
     getPayloadRouteInfo, getServiceRouteInfo, getRegion, getStatistics, getPayloadsRouteInfo
<1>9. ASSUME NEW s \in Sessions, NEW p,
             \/ asyncNewPayload(s, p) \/ asyncRmPayload(s, p)
             \/ asyncNewService(s, p) \/ asyncRmService(s, p)
      PROVE  \E op, arg : Async(s, op, arg)
  BY <1>9 DEF asyncNewPayload, asyncRmPayload, asyncNewService, asyncRmService
<1> QED BY <1>1, <1>4, <1>5, <1>6, <1>7, <1>8, <1>9, <1>12 DEF Next

(* No session is told a version that goes back within a run of the region, *)
(* an answer of an earlier run after one of a later, or a version that the *)
(* region has not reached: late answers, broken connections and restarts   *)
(* behind connections that are made again included.                        *)
THEOREM VersionsNeverBack == Spec => VersionsGrow
<1>1. CallsInv /\ VersionsInv /\ [Next]_vars
        => VersionsInv' /\ [\A s \in RegionSessions :
                               /\ Before(seen[s], seen'[s])
                               /\ Before(seen'[s], [run |-> run', version |-> version'])]_vars
  BY NextVersions DEF NoVersionBack, Now
<1> QED BY <1>1, InitVersions, CallsInvariant, PTL DEF Spec, VersionsGrow
-----------------------------------------------------------------------------
(* What a call for routes returns.                                         *)

(* routes, of the table with k, v and o.                                   *)
RoutesOf(k, v, o, q) ==
  CASE q.op = "RegionReq" ->
         {IF q.arg[1] \in k THEN <<Route(q.arg[1], q.arg[1])>> ELSE <<>>}
    [] q.op = "ServiceRouteReq" ->
         {<<Route(q.arg[1], r)>> :
            r \in IF {x \in Regions : q.arg[1] \in v[x]} = {} THEN {NoRegion}
                 ELSE {x \in Regions : q.arg[1] \in v[x]}}
    [] q.op \in {"PayloadRouteReq", "PayloadsRouteReq"} ->
         {[i \in 1..Len(q.arg) |-> Route(q.arg[i], o[q.arg[i]])]}
    [] OTHER -> {}

LEMMA RoutesAre == \A q : routes(q) = RoutesOf(known, tsvc, owner, q)
BY DEF routes, RoutesOf, regionRoute, serviceRoute, payloadRoutes

RouteCalls == {"RegionReq", "ServiceRouteReq", "PayloadRouteReq", "PayloadsRouteReq"}

(* While the call c with the queues rq and rp is waited for, what the      *)
(* table says now is among what may be returned (S), and so is what its    *)
(* reply says.                                                             *)
Pending(c, rq, rp, now, S) ==
  /\ now \subseteq S
  /\ \A j \in 1..Len(rq) : rq[j].id = c.id => rq[j] = c
  /\ c.op \in RouteCalls => \A i \in 1..Len(rp) : rp[i].id = c.id => rp[i].data \in S

Answered(c, l, a, S) == a # NoAnswer /\ l = 0 /\ c.op \in RouteCalls => a.data \in S

Fresh(s) ==
  /\ phase[s] = "waiting" =>
       Pending(call[s], requests[s], replies[s], RoutesOf(known, tsvc, owner, call[s]), since[s])
  /\ Answered(call[s], late[s], answer[s], since[s])

FreshInv == \A s \in TrackerSessions : Fresh(s)

LEMMA PendingLess ==
  ASSUME NEW c, NEW rq, NEW rp, NEW now, NEW S, NEW rq1, NEW rp1,
         Pending(c, rq, rp, now, S), Less(rq1, rq), Less(rp1, rp)
  PROVE  Pending(c, rq1, rp1, now, S)
<1>1. \A i \in 1..Len(rq1) : \E k \in 1..Len(rq) : rq1[i] = rq[k]
  BY DEF Less, Thins
<1>2. \A i \in 1..Len(rp1) : \E k \in 1..Len(rp) : rp1[i] = rp[k]
  BY DEF Less, Thins
<1> QED BY <1>1, <1>2 DEF Pending

(* A step that moves nothing of the session d but to lose it.              *)
LEMMA FreshKept ==
  ASSUME NEW d \in TrackerSessions, Fresh(d), UNCHANGED trackerTable,
         phase'[d] = phase[d], call'[d] = call[d], late'[d] = late[d],
         answer'[d] = answer[d], since'[d] = since[d],
         Less(requests'[d], requests[d]), Less(replies'[d], replies[d])
  PROVE  Fresh(d)'
<1>1. known' = known /\ tsvc' = tsvc /\ owner' = owner
  BY DEF trackerTable
<1>2. ASSUME phase[d] = "waiting"
      PROVE  Pending(call[d], requests'[d], replies'[d], RoutesOf(known, tsvc, owner, call[d]), since[d])
  BY <1>2, PendingLess DEF Fresh
<1>3. Answered(call[d], late[d], answer[d], since[d])
  BY DEF Fresh
<1> QED BY <1>1, <1>2, <1>3 DEF Fresh

(* A step of the session s.                                                *)
LEMMA FreshStep ==
  ASSUME CallsInv, FreshInv, NEW s \in Sessions, StepOf(s), UNCHANGED trackerTable,
         \A t \in TrackerSessions \ {s} : since'[t] = since[t],
         s \in TrackerSessions => Fresh(s)'
  PROVE  FreshInv'
<1>1. ASSUME NEW t \in TrackerSessions \ {s} PROVE Fresh(t)'
  <2>1. t \in Sessions /\ Fresh(t)
    BY DEF Sessions, FreshInv
  <2>2. IsSeq(requests[t]) /\ IsSeq(replies[t])
    BY <2>1 DEF CallsInv, SessionInv, Outstanding, Queues
  <2>3. Less(requests[t], requests[t]) /\ Less(replies[t], replies[t])
    BY <2>2, SameLess
  <2> QED BY <2>1, <2>3, FreshKept DEF StepOf
<1> QED BY <1>1 DEF FreshInv

(* What is on the way is lost, or nothing of the sessions is touched.      *)
LEMMA LostFresh ==
  ASSUME FreshInv, UNCHANGED <<trackerTable, phase, call, late, answer, since>>,
         \A t \in Sessions : Less(requests'[t], requests[t]) /\ Less(replies'[t], replies[t])
  PROVE  FreshInv'
<1>1. ASSUME NEW t \in TrackerSessions PROVE Fresh(t)'
  <2>1. t \in Sessions /\ Fresh(t)
    BY DEF Sessions, FreshInv
  <2> QED BY <2>1, FreshKept
<1> QED BY <1>1 DEF FreshInv

(* The table changes.                                                      *)
LEMMA TableFresh ==
  ASSUME FreshInv, UpdateTable
  PROVE  FreshInv'
<1>1. UNCHANGED <<phase, call, late, answer, requests, replies>>
  BY DEF UpdateTable, session, wire
<1>2. ASSUME NEW t \in TrackerSessions PROVE Fresh(t)'
  <2>1. Fresh(t)
    BY DEF FreshInv
  <2>2. since'[t] = IF phase[t] = "waiting" THEN since[t] \cup routes(call[t])' ELSE since[t]
    BY DEF UpdateTable
  <2>3. routes(call[t])' = RoutesOf(known', tsvc', owner', call'[t])
    BY DEF routes, RoutesOf, regionRoute, serviceRoute, payloadRoutes
  <2>4. since[t] \subseteq since'[t]
    BY <2>2
  <2>5. Answered(call[t], late[t], answer[t], since'[t])
    BY <2>1, <2>4 DEF Fresh, Answered
  <2>6. ASSUME phase[t] = "waiting"
        PROVE  Pending(call[t], requests[t], replies[t], RoutesOf(known', tsvc', owner', call[t]), since'[t])
    BY <1>1, <2>1, <2>2, <2>3, <2>4, <2>6 DEF Fresh, Pending
  <2> QED BY <1>1, <2>5, <2>6 DEF Fresh
<1> QED BY <1>2 DEF FreshInv

LEMMA CallFresh ==
  ASSUME CallsInv, FreshInv, NEW s \in Sessions, NEW op, NEW arg, Call(s, op, arg)
  PROVE  FreshInv'
<1>1. Shapes /\ SessionInv(s)
  BY DEF CallsInv
<1>2. PICK q : q = Request(op, arg, call[s].id + 1)
  OBVIOUS
<1>3. /\ phase' = [phase EXCEPT ![s] = "waiting"]
      /\ call' = [call EXCEPT ![s] = q]
      /\ requests' = [requests EXCEPT ![s] = Append(requests[s], q)]
      /\ answer' = [answer EXCEPT ![s] = NoAnswer]
      /\ UNCHANGED <<trackerTable, replies, late>>
  BY <1>2 DEF Call, Put
<1>4. since' = [t \in TrackerSessions |-> IF t = s THEN routes(q) ELSE since[t]]
  BY <1>2 DEF Call
<1>5. /\ phase'[s] = "waiting" /\ call'[s] = q
      /\ requests'[s] = Append(requests[s], q) /\ answer'[s] = NoAnswer
      /\ replies'[s] = replies[s]
  BY <1>1, <1>3, Excepted DEF Shapes
<1>6. StepOf(s)
  BY <1>1, <1>3, Excepted DEF Shapes, StepOf
<1>7. ASSUME s \in TrackerSessions PROVE Fresh(s)'
  <2>1. since'[s] = RoutesOf(known, tsvc, owner, q)
    BY <1>4, <1>7, RoutesAre
  <2>2. IsSeq(requests[s]) /\ call[s].id \in Nat /\ q.id = call[s].id + 1
    BY <1>1, <1>2 DEF SessionInv, Outstanding, Queues, Request
  <2>3. ASSUME NEW j \in 1..Len(Append(requests[s], q)), Append(requests[s], q)[j].id = q.id
        PROVE  Append(requests[s], q)[j] = q
    <3>1. j \in 1..Len(requests[s]) \/ j = Len(requests[s]) + 1
      BY <2>2, Queue, Appended
    <3>2. CASE j \in 1..Len(requests[s])
      <4>1. requests[s][j].id = q.id
        BY <2>2, <2>3, <3>2, Appended
      <4>2. requests[s][j].id \in 0..call[s].id
        BY <1>1, <3>2 DEF SessionInv, Outstanding, Queues
      <4> QED BY <2>2, <4>1, <4>2
    <3>3. CASE j = Len(requests[s]) + 1
      BY <2>2, <3>3, Appended
    <3> QED BY <3>1, <3>2, <3>3
  <2>4. \A i \in 1..Len(replies[s]) : replies[s][i].id # q.id
    BY <1>1, <2>2 DEF SessionInv, Outstanding, Queues
  <2>5. Pending(q, Append(requests[s], q), replies[s], RoutesOf(known, tsvc, owner, q), since'[s])
    BY <2>1, <2>3, <2>4 DEF Pending
  <2>6. Answered(q, late'[s], NoAnswer, since'[s])
    BY DEF Answered
  <2> QED BY <1>3, <1>5, <2>5, <2>6 DEF Fresh, trackerTable
<1>8. \A t \in TrackerSessions \ {s} : since'[t] = since[t]
  BY <1>4
<1> QED BY <1>3, <1>6, <1>7, <1>8, FreshStep

LEMMA AsyncFresh ==
  ASSUME CallsInv, FreshInv, NEW s \in Sessions, NEW op, NEW x, Async(s, op, x)
  PROVE  FreshInv'
<1>1. Shapes /\ s \notin TrackerSessions
  BY DEF CallsInv, Async
<1>2. PICK q : q = Request(op, <<x>>, 0)
  OBVIOUS
<1>3. /\ requests' = [requests EXCEPT ![s] = Append(requests[s], q)]
      /\ answer' = [answer EXCEPT ![s] = NoAnswer]
      /\ UNCHANGED <<trackerTable, phase, replies, call, late, since>>
  BY <1>2 DEF Async, Put
<1>4. StepOf(s)
  BY <1>1, <1>3, Excepted DEF Shapes, StepOf
<1> QED BY <1>1, <1>3, <1>4, FreshStep

(* A call that returns with none late returns its own reply.               *)
LEMMA ReturnFresh ==
  ASSUME CallsInv, FreshInv, NEW s \in Sessions, Return(s)
  PROVE  FreshInv'
<1>1. Shapes /\ SessionInv(s)
  BY DEF CallsInv
<1>2. PICK m : m = Head(replies[s])
  OBVIOUS
<1>3. PICK ph \in {"closed", "idle"} : phase' = [phase EXCEPT ![s] = ph]
  BY DEF Return
<1>4. PICK a \in {m, NoAnswer} : answer' = [answer EXCEPT ![s] = a]
  BY <1>2 DEF Return
<1>5. /\ replies' = [replies EXCEPT ![s] = Tail(replies[s])]
      /\ UNCHANGED <<trackerTable, requests, call, late, since>>
      /\ phase[s] = "waiting" /\ replies[s] # <<>>
  BY DEF Return
<1>6. phase'[s] = ph /\ answer'[s] = a /\ call'[s] = call[s] /\ late'[s] = late[s]
  BY <1>1, <1>3, <1>4, <1>5, Excepted DEF Shapes
<1>7. StepOf(s)
  BY <1>1, <1>3, <1>4, <1>5, Excepted DEF Shapes, StepOf
<1>8. ASSUME s \in TrackerSessions PROVE Fresh(s)'
  <2>1. Pending(call[s], requests[s], replies[s], RoutesOf(known, tsvc, owner, call[s]), since[s])
    BY <1>5, <1>8 DEF FreshInv, Fresh
  <2>2. m = replies[s][1] /\ 1 \in 1..Len(replies[s])
    BY <1>1, <1>2, <1>5, Rest DEF SessionInv, Outstanding, Queues
  <2>3. ASSUME late[s] = 0 PROVE m.id = call[s].id
    <3>1. Returned(requests[s], Tail(replies[s]), m, call[s].id, late[s])
      BY <1>1, <1>2, <1>5, AfterReturn DEF SessionInv
    <3>2. /\ call[s].id \in Nat /\ m.id \in 1..call[s].id
          /\ m.id >= call[s].id - late[s]
      BY <1>1, <1>5, <2>2 DEF SessionInv, Outstanding, Queues, NotOlder, Oldest
    <3> QED BY <2>3, <3>2
  <2>4. ASSUME late[s] = 0, call[s].op \in RouteCalls PROVE m.data \in since[s]
    BY <2>1, <2>2, <2>3, <2>4 DEF Pending
  <2>5. Answered(call[s], late[s], a, since[s])
    BY <2>4 DEF Answered
  <2> QED BY <1>5, <1>6, <2>5 DEF Fresh
<1> QED BY <1>5, <1>7, <1>8, FreshStep

LEMMA TimeOutFresh ==
  ASSUME CallsInv, FreshInv, NEW s \in Sessions, TimeOut(s)
  PROVE  FreshInv'
<1>1. Shapes /\ late[s] \in Nat
  BY DEF CallsInv, SessionInv, Outstanding, Queues
<1>2. PICK ph \in {"closed", "idle"} : phase' = [phase EXCEPT ![s] = ph]
  BY DEF TimeOut
<1>3. /\ late' = [late EXCEPT ![s] = late[s] + 1]
      /\ UNCHANGED <<trackerTable, requests, replies, call, answer, since>>
  BY DEF TimeOut, wire
<1>4. phase'[s] = ph /\ late'[s] = late[s] + 1
  BY <1>1, <1>2, <1>3, Excepted DEF Shapes
<1>5. StepOf(s)
  BY <1>1, <1>2, <1>3, Excepted DEF Shapes, StepOf
<1>6. Fresh(s)'
  BY <1>1, <1>4 DEF Fresh, Answered
<1> QED BY <1>3, <1>5, <1>6, FreshStep

LEMMA DisconnectFresh ==
  ASSUME CallsInv, FreshInv, NEW s \in Sessions, disconnect(s)
  PROVE  FreshInv'
<1>1. StepOf(s) /\ phase'[s] = "closed" /\ answer'[s] = NoAnswer
  BY DisconnectLess
<1>2. UNCHANGED <<trackerTable, since>>
  BY DEF disconnect
<1>3. Fresh(s)'
  BY <1>1 DEF Fresh, Answered
<1> QED BY <1>1, <1>2, <1>3, FreshStep

(* A request for routes is answered from the table as it is; of another    *)
(* kind nothing is said here.                                              *)
LEMMA HandlersRoute ==
  ASSUME NEW s \in Sessions,
         \/ addService(s) \/ rmServiceReq(s) \/ addPayload(s) \/ rmPayloadReq(s) \/ handshake(s)
         \/ onHandShake(s) \/ onStaticsReq(s) \/ onRegionReq(s)
         \/ onServiceRouteReq(s) \/ onPayloadRouteReq(s) \/ onPayloadsRouteReq(s)
  PROVE  /\ UNCHANGED trackerTable /\ requests[s] # <<>>
         /\ \E type, data :
              /\ Answer(s, type, data)
              /\ Head(requests[s]).op \in RouteCalls => data \in routes(Head(requests[s]))
<1>1. CASE addService(s) \/ rmServiceReq(s) \/ addPayload(s) \/ rmPayloadReq(s) \/ handshake(s)
  <2>1. /\ UNCHANGED trackerTable /\ requests[s] # <<>>
        /\ Head(requests[s]).op \notin RouteCalls
    BY <1>1 DEF addService, rmServiceReq, addPayload, rmPayloadReq, handshake, Asked, RouteCalls,
       trackerTable
  <2> QED BY <1>1, <2>1, HandlersAnswer
<1>2. CASE onHandShake(s) \/ onStaticsReq(s)
  <2>1. /\ UNCHANGED trackerTable /\ requests[s] # <<>>
        /\ Head(requests[s]).op \notin RouteCalls
    BY <1>2 DEF onHandShake, onStaticsReq, Tell, Asked, RouteCalls, trackerTable
  <2> QED BY <1>2, <2>1, HandlersAnswer
<1>3. ASSUME onRegionReq(s) \/ onServiceRouteReq(s) \/ onPayloadRouteReq(s) \/ onPayloadsRouteReq(s)
      PROVE  \E op, type : Tell(s, op, type, routes(Head(requests[s])))
  <2>1. CASE onRegionReq(s)
    <3>1. Tell(s, "RegionReq", "RegionRep", regionRoute(Head(requests[s]).arg[1]))
      BY <2>1 DEF onRegionReq
    <3>2. Head(requests[s]).op = "RegionReq"
      BY <3>1 DEF Tell, Asked
    <3> QED BY <3>1, <3>2 DEF routes
  <2>2. CASE onServiceRouteReq(s)
    <3>1. Tell(s, "ServiceRouteReq", "ServiceRouteRep", serviceRoute(Head(requests[s]).arg[1]))
      BY <2>2 DEF onServiceRouteReq
    <3>2. Head(requests[s]).op = "ServiceRouteReq"
      BY <3>1 DEF Tell, Asked
    <3> QED BY <3>1, <3>2 DEF routes
  <2>3. CASE onPayloadRouteReq(s)
    <3>1. Tell(s, "PayloadRouteReq", "PayloadRouteRep", payloadRoutes(Head(requests[s]).arg))
      BY <2>3 DEF onPayloadRouteReq
    <3>2. Head(requests[s]).op = "PayloadRouteReq"
      BY <3>1 DEF Tell, Asked
    <3> QED BY <3>1, <3>2 DEF routes
  <2>4. CASE onPayloadsRouteReq(s)
    <3>1. Tell(s, "PayloadsRouteReq", "PayloadsRouteRep", payloadRoutes(Head(requests[s]).arg))
      BY <2>4 DEF onPayloadsRouteReq
    <3>2. Head(requests[s]).op = "PayloadsRouteReq"
      BY <3>1 DEF Tell, Asked
    <3> QED BY <3>1, <3>2 DEF routes
  <2> QED BY <1>3, <2>1, <2>2, <2>3, <2>4
<1>4. CASE onRegionReq(s) \/ onServiceRouteReq(s) \/ onPayloadRouteReq(s) \/ onPayloadsRouteReq(s)
  BY <1>3, <1>4 DEF Tell, Asked
<1> QED BY <1>1, <1>2, <1>4

LEMMA AnswerFresh ==
  ASSUME CallsInv, FreshInv, NEW s \in Sessions, NEW type, NEW data, UNCHANGED trackerTable,
         requests[s] # <<>>, Answer(s, type, data),
         Head(requests[s]).op \in RouteCalls => data \in routes(Head(requests[s]))
  PROVE  FreshInv'
<1>1. Shapes /\ SessionInv(s) /\ IsSeq(requests[s]) /\ IsSeq(replies[s])
  BY DEF CallsInv, SessionInv, Outstanding, Queues
<1>2. PICK q : q = Head(requests[s])
  OBVIOUS
<1>3. PICK m : m = [type |-> type, id |-> q.id, data |-> data]
  OBVIOUS
<1>4. PICK rp : /\ replies' = [replies EXCEPT ![s] = rp]
                /\ rp = replies[s] \/ rp = Append(replies[s], m)
  BY <1>2, <1>3 DEF Answer
<1>5. /\ requests' = [requests EXCEPT ![s] = Tail(requests[s])]
      /\ UNCHANGED <<phase, call, late, answer, since>>
  BY DEF Answer, session
<1>6. requests'[s] = Tail(requests[s]) /\ replies'[s] = rp
  BY <1>1, <1>4, <1>5, Excepted DEF Shapes
<1>7. StepOf(s)
  BY <1>1, <1>4, <1>5, Excepted DEF Shapes, StepOf
<1>8. ASSUME s \in TrackerSessions PROVE Fresh(s)'
  <2>1. Fresh(s)
    BY <1>8 DEF FreshInv
  <2>2. Less(Tail(requests[s]), requests[s]) /\ Less(replies[s], replies[s])
    <3>1. IsSeq(Tail(requests[s])) /\ Len(Tail(requests[s])) = Len(requests[s]) - 1
      BY <1>1, Rest
    <3>2. Len(requests[s]) \in Nat
      BY <1>1, Queue
    <3>3. Len(Tail(requests[s])) <= Len(requests[s])
      BY <3>1, <3>2
    <3> QED BY <1>1, <3>1, <3>3, RestThins, SameLess DEF Less
  <2>3. ASSUME phase[s] = "waiting"
        PROVE  Pending(call[s], Tail(requests[s]), rp, RoutesOf(known, tsvc, owner, call[s]), since[s])
    <3>1. /\ Pending(call[s], requests[s], replies[s], RoutesOf(known, tsvc, owner, call[s]), since[s])
          /\ Pending(call[s], Tail(requests[s]), replies[s], RoutesOf(known, tsvc, owner, call[s]), since[s])
      BY <2>1, <2>2, <2>3, PendingLess DEF Fresh
    <3>2. ASSUME m.id = call[s].id, call[s].op \in RouteCalls PROVE m.data \in since[s]
      <4>1. q = requests[s][1] /\ 1 \in 1..Len(requests[s])
        BY <1>1, <1>2, Rest
      <4>2. q.id = call[s].id
        BY <1>3, <3>2
      <4>3. q = call[s]
        BY <3>1, <4>1, <4>2 DEF Pending
      <4>4. data \in RoutesOf(known, tsvc, owner, call[s])
        BY <1>2, <3>2, <4>3, RoutesAre
      <4> QED BY <1>3, <3>1, <4>4 DEF Pending
    <3>3. CASE rp = replies[s]
      BY <3>1, <3>3
    <3>4. CASE rp = Append(replies[s], m)
      <4>1. \A i \in 1..Len(rp) : (i \in 1..Len(replies[s]) /\ rp[i] = replies[s][i]) \/ rp[i] = m
        <5>1. /\ Len(rp) = Len(replies[s]) + 1 /\ rp[Len(replies[s]) + 1] = m
              /\ \A i \in 1..Len(replies[s]) : rp[i] = replies[s][i]
          BY <1>1, <3>4, Appended
        <5>2. Len(replies[s]) \in Nat
          BY <1>1, Queue
        <5>3. \A i \in 1..Len(rp) : i \in 1..Len(replies[s]) \/ i = Len(replies[s]) + 1
          BY <5>1, <5>2
        <5> QED BY <5>1, <5>3
      <4> QED BY <3>1, <3>2, <4>1 DEF Pending
    <3> QED BY <1>4, <3>3, <3>4
  <2>4. Answered(call[s], late[s], answer[s], since[s])
    BY <2>1 DEF Fresh
  <2> QED BY <1>5, <1>6, <2>3, <2>4 DEF Fresh, trackerTable
<1> QED BY <1>5, <1>7, <1>8, FreshStep

LEMMA InitFresh == Init => FreshInv
<1>1. SUFFICES ASSUME Init, NEW s \in TrackerSessions PROVE Fresh(s)
  BY DEF FreshInv
<1>2. s \in Sessions
  BY DEF Sessions
<1>3. phase[s] = "new" /\ answer[s] = NoAnswer
  BY <1>1, <1>2 DEF Init
<1> QED BY <1>3 DEF Fresh, Answered

LEMMA NextFresh == CallsInv /\ FreshInv /\ [Next]_vars => FreshInv'
<1>1. SUFFICES ASSUME CallsInv, FreshInv, [Next]_vars PROVE FreshInv'
  OBVIOUS
<1>2. CASE UNCHANGED vars
  <2>1. UNCHANGED <<trackerTable, phase, call, late, answer, since, requests, replies>>
    BY <1>2 DEF vars, session, wire
  <2>2. ASSUME NEW t \in Sessions
        PROVE  Less(requests'[t], requests[t]) /\ Less(replies'[t], replies[t])
    <3>1. IsSeq(requests[t]) /\ IsSeq(replies[t])
      BY <1>1 DEF CallsInv, SessionInv, Outstanding, Queues
    <3> QED BY <2>1, <3>1, SameLess
  <2> QED BY <1>1, <2>1, <2>2, LostFresh
<1>3. CASE UpdateTable
  BY <1>1, <1>3, TableFresh
<1>4. CASE Restart
  <2>1. UNCHANGED <<trackerTable, phase, call, late, answer, since>>
    BY <1>4 DEF Restart, session
  <2> QED BY <1>1, <1>4, <2>1, RestartLess, LostFresh
<1>5. ASSUME NEW s \in Sessions, Break(s) PROVE FreshInv'
  <2>1. UNCHANGED <<trackerTable, phase, call, late, answer, since>>
    BY <1>5 DEF Break, session
  <2> QED BY <1>1, <1>5, <2>1, BreakLess, LostFresh
<1>6. ASSUME NEW s \in Sessions,
             connect(s) \/ Return(s) \/ TimeOut(s) \/ disconnect(s) \/ Break(s)
      PROVE  FreshInv'
  BY <1>1, <1>5, <1>6, CallFresh, ReturnFresh, TimeOutFresh, DisconnectFresh DEF connect
<1>7. ASSUME NEW s \in Sessions,
             \/ addService(s) \/ rmServiceReq(s) \/ addPayload(s) \/ rmPayloadReq(s)
             \/ handshake(s) \/ onHandShake(s) \/ onStaticsReq(s) \/ onRegionReq(s)
             \/ onServiceRouteReq(s) \/ onPayloadRouteReq(s) \/ onPayloadsRouteReq(s)
      PROVE  FreshInv'
  BY <1>1, <1>7, HandlersRoute, AnswerFresh
<1>8. ASSUME NEW s \in Sessions, NEW p,
             \/ newPayload(s, p) \/ rmPayload(s, p) \/ newService(s, p) \/ rmService(s, p)
             \/ getPayloadRouteInfo(s, p) \/ getServiceRouteInfo(s, p) \/ getRegion(s, p)
             \/ getStatistics(s) \/ getPayloadsRouteInfo(s, p)
      PROVE  FreshInv'
  BY <1>1, <1>8, CallFresh DEF newPayload, rmPayload, newService, rmService,
     getPayloadRouteInfo, getServiceRouteInfo, getRegion, getStatistics, getPayloadsRouteInfo
<1>9. ASSUME NEW s \in Sessions, NEW p,
             \/ asyncNewPayload(s, p) \/ asyncRmPayload(s, p)
             \/ asyncNewService(s, p) \/ asyncRmService(s, p)
      PROVE  FreshInv'
  BY <1>1, <1>9, AsyncFresh
     DEF asyncNewPayload, asyncRmPayload, asyncNewService, asyncRmService
<1> QED BY <1>1, <1>2, <1>3, <1>4, <1>6, <1>7, <1>8, <1>9 DEF Next

(* A call for routes, when no call of the session has timed out, returns   *)
(* what the table said at one moment between the call and its return,      *)
(* whatever broke and however the table changed.                           *)
THEOREM RoutesAreFresh == Spec => []RoutesFresh
<1>1. FreshInv => RoutesFresh
  BY DEF FreshInv, Fresh, Answered, RouteCalls, RoutesFresh
<1> QED BY <1>1, InitFresh, NextFresh, CallsInvariant, PTL DEF Spec

-----------------------------------------------------------------------------
(* How far the version can come.  Every request is one of the calls so     *)
(* far, and so is every change that was made, which is no longer on the    *)
(* way: there are as many calls as there are versions.                     *)

(* Of n calls, those of the session s that are not used up.                *)
Unused(n, place, used, s) == {k \in 1..n : k \notin used /\ place[k] = s}

Spent ==
  \E place, used :
    /\ used \subseteq 1..calls
    /\ version <= Cardinality(used)
    /\ \A s \in Sessions : Len(requests[s]) <= Cardinality(Unused(calls, place, used, s))

LEMMA UnusedSize ==
  ASSUME NEW n \in Nat, NEW place, NEW used, NEW s
  PROVE  /\ IsFiniteSet(Unused(n, place, used, s))
         /\ Cardinality(Unused(n, place, used, s)) \in Nat
<1>1. IsFiniteSet(1..n)
  BY FS_Interval
<1>2. Unused(n, place, used, s) \in SUBSET (1..n)
  BY DEF Unused
<1>3. IsFiniteSet(Unused(n, place, used, s))
  BY <1>1, <1>2, FS_Subset
<1> QED BY <1>3, FS_CardinalityType

LEMMA UsedSize ==
  ASSUME NEW n \in Nat, NEW used, used \subseteq 1..n
  PROVE  IsFiniteSet(used) /\ Cardinality(used) \in 0..n
<1>1. IsFiniteSet(1..n) /\ Cardinality(1..n) = n
  BY FS_Interval
<1>2. IsFiniteSet(used) /\ Cardinality(used) <= Cardinality(1..n)
  BY <1>1, FS_Subset
<1>3. Cardinality(used) \in Nat
  BY <1>2, FS_CardinalityType
<1> QED BY <1>1, <1>2, <1>3

LEMMA VersionSpent ==
  ASSUME calls \in Nat, version \in Nat, Spent
  PROVE  version <= calls
<1>1. PICK used : used \subseteq 1..calls /\ version <= Cardinality(used)
  BY DEF Spent
<1>2. Cardinality(used) \in 0..calls
  BY <1>1, UsedSize
<1> QED BY <1>1, <1>2

LEMMA SpentOn ==
  ASSUME Spent, calls \in Nat, calls' = calls,
         version \in Nat, version' \in Nat, version' <= version,
         \A s \in Sessions : /\ Len(requests[s]) \in Nat /\ Len(requests'[s]) \in Nat
                             /\ Len(requests'[s]) <= Len(requests[s])
  PROVE  Spent'
<1>1. PICK place, used :
        /\ used \subseteq 1..calls
        /\ version <= Cardinality(used)
        /\ \A s \in Sessions : Len(requests[s]) <= Cardinality(Unused(calls, place, used, s))
  BY DEF Spent
<1>2. \A s \in Sessions : Cardinality(Unused(calls, place, used, s)) \in Nat
  BY UnusedSize
<1>3. \A a, b, c \in Nat : a <= b /\ b <= c => a <= c
  OBVIOUS
<1>4. \A s \in Sessions : Len(requests'[s]) <= Cardinality(Unused(calls, place, used, s))
  BY <1>1, <1>2, <1>3
<1>5. version' <= Cardinality(used)
  <2>1. Cardinality(used) \in 0..calls
    BY <1>1, UsedSize
  <2>2. Cardinality(used) \in Nat
    BY <2>1
  <2> QED BY <1>1, <1>3, <2>2
<1> QED BY <1>1, <1>4, <1>5 DEF Spent

LEMMA SpentPut ==
  ASSUME Spent, calls \in Nat, NEW s \in Sessions, calls' = calls + 1, version' = version,
         Len(requests[s]) \in Nat, Len(requests'[s]) = Len(requests[s]) + 1,
         \A t \in Sessions \ {s} : requests'[t] = requests[t]
  PROVE  Spent'
<1>1. PICK place, used :
        /\ used \subseteq 1..calls
        /\ version <= Cardinality(used)
        /\ \A t \in Sessions : Len(requests[t]) <= Cardinality(Unused(calls, place, used, t))
  BY DEF Spent
<1> DEFINE place1 == [k \in 1..(calls + 1) |-> IF k = calls + 1 THEN s ELSE place[k]]
<1>2. \A k \in 1..(calls + 1) : k = calls + 1 \/ k \in 1..calls
  OBVIOUS
<1>3. calls + 1 \notin 1..calls /\ calls + 1 \in 1..(calls + 1) /\ 1..calls \subseteq 1..(calls + 1)
  OBVIOUS
<1>4. /\ place1[calls + 1] = s
      /\ \A k \in 1..calls : place1[k] = place[k]
  BY <1>3
<1> HIDE DEF place1
<1>5. Unused(calls + 1, place1, used, s) = Unused(calls, place, used, s) \cup {calls + 1}
  BY <1>1, <1>2, <1>3, <1>4 DEF Unused
<1>6. ASSUME NEW t \in Sessions \ {s}
      PROVE  Unused(calls + 1, place1, used, t) = Unused(calls, place, used, t)
  BY <1>1, <1>2, <1>3, <1>4 DEF Unused
<1>7. PICK n : n = calls + 1
  OBVIOUS
<1>8. n \notin Unused(calls, place, used, s)
  BY <1>3, <1>7 DEF Unused
<1>9. Cardinality(Unused(calls, place, used, s) \cup {n}) = Cardinality(Unused(calls, place, used, s)) + 1
  BY <1>8, UnusedSize, FS_AddElement
<1>10. Len(requests'[s]) <= Cardinality(Unused(n, place1, used, s))
  <2>1. Cardinality(Unused(n, place1, used, s)) = Cardinality(Unused(calls, place, used, s)) + 1
    BY <1>5, <1>7, <1>9
  <2>2. Len(requests[s]) <= Cardinality(Unused(calls, place, used, s))
    BY <1>1
  <2>3. Cardinality(Unused(calls, place, used, s)) \in Nat
    BY UnusedSize
  <2> QED BY <2>1, <2>2, <2>3
<1>11. ASSUME NEW t \in Sessions PROVE Len(requests'[t]) <= Cardinality(Unused(n, place1, used, t))
  BY <1>1, <1>6, <1>7, <1>10
<1>12. used \subseteq 1..n
  BY <1>1, <1>3, <1>7
<1>13. calls' = n
  BY <1>7
<1> QED BY <1>1, <1>11, <1>12, <1>13 DEF Spent

LEMMA SpentAnswer ==
  ASSUME Spent, calls \in Nat, NEW s \in Sessions, calls' = calls,
         version \in Nat, version' \in Nat, version' <= version + 1,
         Len(requests[s]) \in Nat, Len(requests[s]) > 0, Len(requests'[s]) = Len(requests[s]) - 1,
         \A t \in Sessions \ {s} : requests'[t] = requests[t]
  PROVE  Spent'
<1>1. PICK place, used :
        /\ used \subseteq 1..calls
        /\ version <= Cardinality(used)
        /\ \A t \in Sessions : Len(requests[t]) <= Cardinality(Unused(calls, place, used, t))
  BY DEF Spent
<1>2. /\ IsFiniteSet(Unused(calls, place, used, s))
      /\ Cardinality(Unused(calls, place, used, s)) \in Nat
  BY UnusedSize
<1>3. Cardinality(Unused(calls, place, used, s)) # 0
  BY <1>1, <1>2
<1>4. Unused(calls, place, used, s) # {}
  BY <1>3, FS_EmptySet
<1>5. PICK k : k \in Unused(calls, place, used, s)
  BY <1>4
<1>6. k \in 1..calls /\ k \notin used /\ place[k] = s
  BY <1>5 DEF Unused
<1> DEFINE used1 == used \cup {k}
<1>7. used1 \subseteq 1..calls
  BY <1>1, <1>6
<1>8. version' <= Cardinality(used1)
  <2>1. IsFiniteSet(used) /\ Cardinality(used) \in 0..calls
    BY <1>1, UsedSize
  <2>2. Cardinality(used \cup {k}) = Cardinality(used) + 1
    BY <1>6, <2>1, FS_AddElement
  <2>3. \A a, b, c, n \in Nat : a <= b + 1 /\ b <= c /\ n = c + 1 => a <= n
    OBVIOUS
  <2>4. Cardinality(used) \in Nat /\ Cardinality(used) + 1 \in Nat
    BY <2>1
  <2> QED BY <1>1, <2>2, <2>3, <2>4
<1>9. Unused(calls, place, used1, s) = Unused(calls, place, used, s) \ {k}
  BY DEF Unused
<1>10. ASSUME NEW t \in Sessions \ {s}
       PROVE  Unused(calls, place, used1, t) = Unused(calls, place, used, t)
  BY <1>6 DEF Unused
<1>11. Cardinality(Unused(calls, place, used, s) \ {k}) = Cardinality(Unused(calls, place, used, s)) - 1
  BY <1>2, <1>5, FS_RemoveElement
<1> HIDE DEF used1
<1>12. Len(requests'[s]) <= Cardinality(Unused(calls, place, used1, s))
  <2>1. Len(requests[s]) <= Cardinality(Unused(calls, place, used, s))
    BY <1>1
  <2> QED BY <1>2, <1>9, <1>11, <2>1
<1>13. \A t \in Sessions : Len(requests'[t]) <= Cardinality(Unused(calls, place, used1, t))
  BY <1>1, <1>10, <1>12
<1> QED BY <1>7, <1>8, <1>13 DEF Spent

-----------------------------------------------------------------------------
(* Where the actors and the sessions can be.                               *)

Carries(rq) ==
  \A i \in 1..Len(rq) :
    /\ rq[i].op = "AddService" => rq[i].arg[1] \in Services
    /\ rq[i].op = "AddPayload" => rq[i].arg[1] \in Payloads

Fit(s) ==
  /\ phase[s] \in {"new", "idle", "waiting", "closed"}
  /\ Carries(requests[s])
  /\ Len(requests[s]) + Len(replies[s]) <= calls
  /\ call[s].id <= calls
  /\ late[s] <= IF phase[s] = "waiting" THEN call[s].id - 1 ELSE call[s].id

TablesFit ==
  /\ services \subseteq Services /\ payloads \subseteq Payloads
  /\ version \in Nat
  /\ calls \in 0..MaxCalls /\ breaks \in 0..MaxBreaks

TypeInv == TablesFit /\ Spent /\ \A s \in Sessions : Fit(s)

LEMMA Numbers ==
  ASSUME CallsInv, NEW s \in Sessions
  PROVE  /\ IsSeq(requests[s]) /\ IsSeq(replies[s])
         /\ Len(requests[s]) \in Nat /\ Len(replies[s]) \in Nat
         /\ requests[s] = <<>> <=> Len(requests[s]) = 0
         /\ replies[s] = <<>> <=> Len(replies[s]) = 0
         /\ call[s].id \in Nat /\ late[s] \in Nat
BY Queue DEF CallsInv, SessionInv, Outstanding, Queues

LEMMA CarriesThins ==
  ASSUME NEW rq, NEW rq1, Carries(rq), Thins(rq1, rq)
  PROVE  Carries(rq1)
<1>1. PICK f : \A i \in 1..Len(rq1) : f[i] \in 1..Len(rq) /\ rq1[i] = rq[f[i]]
  BY DEF Thins
<1> QED BY <1>1 DEF Carries

LEMMA CarriesMore ==
  ASSUME NEW rq, IsSeq(rq), NEW q, Carries(rq),
         q.op = "AddService" => q.arg[1] \in Services,
         q.op = "AddPayload" => q.arg[1] \in Payloads
  PROVE  Carries(Append(rq, q))
<1> DEFINE rq1 == Append(rq, q)
           end == Len(rq) + 1
<1>1. Len(rq) \in Nat
  BY Queue
<1>2. /\ Len(rq1) = end
      /\ rq1[end] = q
      /\ \A i \in 1..Len(rq) : rq1[i] = rq[i]
  BY Appended
<1> HIDE DEF rq1
<1>3. \A i \in 1..Len(rq1) : i = end \/ i \in 1..Len(rq)
  BY <1>1, <1>2
<1>4. Carries(rq1)
  BY <1>2, <1>3 DEF Carries
<1> QED BY <1>4 DEF rq1

LEMMA FitSum ==
  ASSUME NEW a \in Nat, NEW b \in Nat, NEW a1 \in Nat, NEW b1 \in Nat,
         NEW c \in Nat, a + b <= c, a1 + b1 <= a + b
  PROVE  a1 + b1 <= c
OBVIOUS

LEMMA FitOthers ==
  ASSUME CallsInv, TypeInv, NEW s \in Sessions, StepOf(s),
         calls' \in 0..MaxCalls, calls <= calls', Fit(s)'
  PROVE  \A t \in Sessions : Fit(t)'
<1>1. ASSUME NEW t \in Sessions \ {s} PROVE Fit(t)'
  <2>1. Fit(t) /\ Len(requests[t]) \in Nat /\ Len(replies[t]) \in Nat /\ call[t].id \in Nat
    BY Numbers DEF TypeInv
  <2>2. calls \in Nat /\ calls' \in Nat
    BY DEF TypeInv, TablesFit
  <2>3. \A a, b \in Nat : a + b <= calls => a + b <= calls'
    BY <2>2
  <2>4. \A a \in Nat : a <= calls => a <= calls'
    BY <2>2
  <2>5. /\ Len(requests[t]) + Len(replies[t]) <= calls'
        /\ call[t].id <= calls'
    BY <2>1, <2>3, <2>4 DEF Fit
  <2> QED BY <2>1, <2>5 DEF Fit, StepOf
<1> QED BY <1>1

(* A step in which no request is sent and none is read.                    *)
LEMMA StepFits ==
  ASSUME CallsInv, CallsInv', TypeInv, NEW s \in Sessions, StepOf(s),
         services' = services, payloads' = payloads, version' = version, calls' = calls,
         breaks' \in 0..MaxBreaks,
         Len(requests'[s]) <= Len(requests[s]), Fit(s)'
  PROVE  TypeInv'
<1>1. calls \in Nat /\ calls' \in 0..MaxCalls
  BY DEF TypeInv, TablesFit
<1>2. \A t \in Sessions : Fit(t)'
  BY <1>1, FitOthers
<1>3. ASSUME NEW t \in Sessions
      PROVE  /\ Len(requests[t]) \in Nat /\ Len(requests'[t]) \in Nat
             /\ Len(requests'[t]) <= Len(requests[t])
  <2>1. Len(requests[t]) \in Nat
    BY Numbers
  <2>2. Len(requests'[t]) \in Nat
    BY Queue DEF CallsInv, SessionInv, Outstanding, Queues
  <2> QED BY <2>1, <2>2 DEF StepOf
<1>5. version \in Nat /\ version' <= version
  BY DEF TypeInv, TablesFit
<1>4. Spent'
  BY <1>1, <1>3, <1>5, SpentOn DEF TypeInv
<1> QED BY <1>1, <1>2, <1>4 DEF TypeInv, TablesFit

(* A request that is sent.                                                 *)
LEMMA PutFits ==
  ASSUME CallsInv, TypeInv, NEW s \in Sessions, StepOf(s), NEW q,
         calls < MaxCalls, calls' = calls + 1, UNCHANGED <<regionTable, breaks>>,
         requests'[s] = Append(requests[s], q), replies'[s] = replies[s],
         q.op = "AddService" => q.arg[1] \in Services,
         q.op = "AddPayload" => q.arg[1] \in Payloads,
         phase'[s] \in {"new", "idle", "waiting", "closed"},
         call'[s].id <= calls',
         late'[s] <= IF phase'[s] = "waiting" THEN call'[s].id - 1 ELSE call'[s].id
  PROVE  TypeInv'
<1>0. /\ services' = services /\ payloads' = payloads /\ version' = version
      /\ breaks' = breaks
  BY DEF regionTable
<1>1. calls \in Nat /\ calls' \in 0..MaxCalls /\ calls <= calls'
  <2>1. calls \in 0..MaxCalls /\ MaxCalls \in Nat
    BY ApiAssumption DEF TypeInv, TablesFit
  <2> QED BY <2>1
<1>2. IsSeq(requests[s]) /\ Len(requests[s]) \in Nat /\ Len(replies[s]) \in Nat
  BY Numbers
<1>3. Len(requests'[s]) = Len(requests[s]) + 1
  BY <1>2, Appended
<1>4. Fit(s)'
  <2>1. Fit(s)
    BY DEF TypeInv
  <2>2. Carries(requests[s]) /\ Len(requests[s]) + Len(replies[s]) <= calls
    BY <2>1 DEF Fit
  <2>3. Carries(Append(requests[s], q))
    BY <1>2, <2>2, CarriesMore
  <2>4. \A a, b, c \in Nat : a + b <= c => (a + 1) + b <= c + 1
    OBVIOUS
  <2>5. (Len(requests[s]) + 1) + Len(replies[s]) <= calls + 1
    BY <1>1, <1>2, <2>2, <2>4
  <2>6. Len(requests'[s]) + Len(replies'[s]) <= calls'
    BY <1>3, <2>5
  <2> QED BY <2>3, <2>6 DEF Fit
<1>5. \A t \in Sessions : Fit(t)'
  BY <1>1, <1>4, FitOthers
<1>6. \A t \in Sessions \ {s} : requests'[t] = requests[t]
  BY DEF StepOf
<1>7. Spent'
  BY <1>0, <1>1, <1>2, <1>3, <1>6, SpentPut DEF TypeInv
<1>8. TablesFit'
  BY <1>1, <1>0 DEF TypeInv, TablesFit
<1> QED BY <1>5, <1>7, <1>8 DEF TypeInv

LEMMA CallFits ==
  ASSUME CallsInv, TypeInv, NEW s \in Sessions, NEW op, NEW arg, Call(s, op, arg),
         op = "AddService" => arg[1] \in Services,
         op = "AddPayload" => arg[1] \in Payloads
  PROVE  TypeInv'
<1> DEFINE q == Request(op, arg, call[s].id + 1)
<1>1. Shapes /\ Fit(s) /\ call[s].id \in Nat /\ late[s] \in Nat
  BY Numbers DEF CallsInv, TypeInv
<1>2. /\ phase' = [phase EXCEPT ![s] = "waiting"]
      /\ call' = [call EXCEPT ![s] = q]
      /\ requests' = [requests EXCEPT ![s] = Append(requests[s], q)]
      /\ answer' = [answer EXCEPT ![s] = NoAnswer]
      /\ UNCHANGED <<replies, late, regionTable, breaks>>
      /\ phase[s] # "waiting"
      /\ calls < MaxCalls /\ calls' = calls + 1
  BY DEF Call, Put
<1>3. q.id = call[s].id + 1 /\ q.op = op /\ q.arg = arg
  BY DEF Request
<1> HIDE DEF q
<1>4. /\ phase'[s] = "waiting" /\ call'[s] = q
      /\ requests'[s] = Append(requests[s], q)
      /\ replies'[s] = replies[s] /\ late'[s] = late[s]
  BY <1>1, <1>2, Excepted DEF Shapes
<1>5. StepOf(s)
  BY <1>1, <1>2, Excepted DEF Shapes, StepOf
<1>6. calls \in Nat
  BY DEF TypeInv, TablesFit
<1>7. call[s].id <= calls /\ late[s] <= call[s].id
  BY <1>1, <1>2 DEF Fit
<1>8. /\ call'[s].id <= calls'
      /\ late'[s] <= IF phase'[s] = "waiting" THEN call'[s].id - 1 ELSE call'[s].id
  BY <1>1, <1>2, <1>3, <1>4, <1>6, <1>7
<1>9. phase'[s] \in {"new", "idle", "waiting", "closed"}
  BY <1>4
<1>10. /\ q.op = "AddService" => q.arg[1] \in Services
       /\ q.op = "AddPayload" => q.arg[1] \in Payloads
  BY <1>3
<1> QED BY <1>2, <1>4, <1>5, <1>8, <1>9, <1>10, PutFits

LEMMA AsyncFits ==
  ASSUME CallsInv, TypeInv, NEW s \in Sessions, NEW op, NEW x, Async(s, op, x),
         op = "AddService" => x \in Services,
         op = "AddPayload" => x \in Payloads
  PROVE  TypeInv'
<1> DEFINE q == Request(op, <<x>>, 0)
<1>1. Shapes /\ Fit(s) /\ call[s].id \in Nat
  BY Numbers DEF CallsInv, TypeInv
<1>2. /\ requests' = [requests EXCEPT ![s] = Append(requests[s], q)]
      /\ answer' = [answer EXCEPT ![s] = NoAnswer]
      /\ UNCHANGED <<phase, replies, call, late, regionTable, breaks>>
      /\ calls < MaxCalls /\ calls' = calls + 1
  BY DEF Async, Put
<1>3. q.op = op /\ q.arg[1] = x
  BY DEF Request
<1> HIDE DEF q
<1>4. requests'[s] = Append(requests[s], q)
  BY <1>1, <1>2, Excepted DEF Shapes
<1>5. StepOf(s)
  BY <1>1, <1>2, Excepted DEF Shapes, StepOf
<1>6. calls \in Nat
  BY DEF TypeInv, TablesFit
<1>7. call[s].id <= calls
  BY <1>1 DEF Fit
<1>8. call'[s].id <= calls'
  BY <1>1, <1>2, <1>6, <1>7
<1>9. /\ phase'[s] \in {"new", "idle", "waiting", "closed"}
      /\ late'[s] <= IF phase'[s] = "waiting" THEN call'[s].id - 1 ELSE call'[s].id
  BY <1>1, <1>2 DEF Fit
<1>10. /\ q.op = "AddService" => q.arg[1] \in Services
       /\ q.op = "AddPayload" => q.arg[1] \in Payloads
  BY <1>3
<1> QED BY <1>2, <1>4, <1>5, <1>8, <1>9, <1>10, PutFits

LEMMA ReturnFits ==
  ASSUME CallsInv, CallsInv', TypeInv, NEW s \in Sessions, Return(s)
  PROVE  TypeInv'
<1>1. Shapes /\ Fit(s)
  BY DEF CallsInv, TypeInv
<1>2. PICK ph \in {"closed", "idle"} : phase' = [phase EXCEPT ![s] = ph]
  BY DEF Return
<1>3. PICK a : answer' = [answer EXCEPT ![s] = a]
  BY DEF Return
<1>4. /\ replies' = [replies EXCEPT ![s] = Tail(replies[s])]
      /\ UNCHANGED <<requests, call, late, regionTable, calls, breaks>>
      /\ phase[s] = "waiting" /\ replies[s] # <<>>
  BY DEF Return
<1>5. phase'[s] = ph /\ replies'[s] = Tail(replies[s])
  BY <1>1, <1>2, <1>4, Excepted DEF Shapes
<1>6. StepOf(s)
  BY <1>1, <1>2, <1>3, <1>4, Excepted DEF Shapes, StepOf
<1>7. Fit(s)'
  <2>1. /\ Len(requests[s]) \in Nat /\ Len(replies[s]) \in Nat
        /\ IsSeq(replies[s]) /\ call[s].id \in Nat /\ late[s] \in Nat
    BY Numbers
  <2>2. Len(replies'[s]) = Len(replies[s]) - 1
    BY <1>4, <1>5, <2>1, Rest
  <2>3. calls \in Nat
    BY DEF TypeInv, TablesFit
  <2>7. \A x, y, z \in Nat : x + y <= z => x + (y - 1) <= z
    OBVIOUS
  <2>8. Len(requests[s]) + (Len(replies[s]) - 1) <= calls
    BY <1>1, <2>1, <2>3, <2>7 DEF Fit
  <2>4. Len(requests'[s]) + Len(replies'[s]) <= calls'
    BY <1>4, <2>2, <2>8
  <2>5. late[s] <= call[s].id - 1
    BY <1>1, <1>4 DEF Fit
  <2>6. late[s] <= call[s].id
    BY <2>1, <2>5
  <2> QED BY <1>1, <1>4, <1>5, <2>4, <2>6 DEF Fit
<1>8. breaks' \in 0..MaxBreaks /\ Len(requests'[s]) <= Len(requests[s])
  <2>1. Len(requests[s]) \in Nat
    BY Numbers
  <2> QED BY <1>4, <2>1 DEF TypeInv, TablesFit
<1> QED BY <1>4, <1>6, <1>7, <1>8, StepFits DEF regionTable

LEMMA TimeOutFits ==
  ASSUME CallsInv, CallsInv', TypeInv, NEW s \in Sessions, TimeOut(s)
  PROVE  TypeInv'
<1>1. Shapes /\ Fit(s)
  BY DEF CallsInv, TypeInv
<1>2. PICK ph \in {"closed", "idle"} : phase' = [phase EXCEPT ![s] = ph]
  BY DEF TimeOut
<1>3. /\ late' = [late EXCEPT ![s] = late[s] + 1]
      /\ UNCHANGED <<requests, replies, call, answer, regionTable, calls, breaks>>
      /\ phase[s] = "waiting"
  BY DEF TimeOut, wire
<1>4. phase'[s] = ph /\ late'[s] = late[s] + 1
  BY <1>1, <1>2, <1>3, Excepted DEF Shapes
<1>5. StepOf(s)
  BY <1>1, <1>2, <1>3, Excepted DEF Shapes, StepOf
<1>6. Fit(s)'
  <2>1. call[s].id \in Nat /\ late[s] \in Nat
    BY Numbers
  <2>2. late[s] <= call[s].id - 1
    BY <1>1, <1>3 DEF Fit
  <2>3. late[s] + 1 <= call[s].id
    BY <2>1, <2>2
  <2> QED BY <1>1, <1>3, <1>4, <2>3 DEF Fit
<1>7. breaks' \in 0..MaxBreaks /\ Len(requests'[s]) <= Len(requests[s])
  <2>1. Len(requests[s]) \in Nat
    BY Numbers
  <2> QED BY <1>3, <2>1 DEF TypeInv, TablesFit
<1> QED BY <1>3, <1>5, <1>6, <1>7, StepFits DEF regionTable

(* Queues that lose elements.                                              *)
LEMMA LessFits ==
  ASSUME CallsInv, NEW s \in Sessions, Fit(s), calls \in Nat, calls' = calls, UNCHANGED <<call, late>>,
         Carries(requests'[s]),
         Len(requests'[s]) \in Nat, Len(replies'[s]) \in Nat,
         Len(requests'[s]) + Len(replies'[s]) <= Len(requests[s]) + Len(replies[s]),
         phase'[s] = phase[s] \/ (phase[s] = "idle" /\ phase'[s] = "closed")
  PROVE  Fit(s)'
<1>1. Len(requests[s]) \in Nat /\ Len(replies[s]) \in Nat
  BY Numbers
<1>2. Len(requests[s]) + Len(replies[s]) <= calls
  BY DEF Fit
<1>3. Len(requests'[s]) + Len(replies'[s]) <= calls
  BY <1>1, <1>2, FitSum
<1>4. phase'[s] \in {"new", "idle", "waiting", "closed"}
  BY DEF Fit
<1>5. late'[s] <= IF phase'[s] = "waiting" THEN call'[s].id - 1 ELSE call'[s].id
  BY DEF Fit
<1> QED BY <1>3, <1>4, <1>5 DEF Fit

LEMMA SameExcepted ==
  ASSUME NEW f, f = [t \in Sessions |-> f[t]], NEW s \in Sessions
  PROVE  [f EXCEPT ![s] = f[s]] = f
<1>1. [f EXCEPT ![s] = f[s]] = [t \in Sessions |-> IF t = s THEN f[s] ELSE f[t]]
  OBVIOUS
<1>2. [t \in Sessions |-> IF t = s THEN f[s] ELSE f[t]] = [t \in Sessions |-> f[t]]
  OBVIOUS
<1> QED BY <1>1, <1>2

LEMMA LostFits ==
  ASSUME CallsInv, TypeInv, NEW s \in Sessions, calls' = calls, UNCHANGED <<call, late>>,
         Less(requests'[s], requests[s]), Less(replies'[s], replies[s]),
         phase'[s] = phase[s] \/ (phase[s] = "idle" /\ phase'[s] = "closed")
  PROVE  Fit(s)'
<1>1. Fit(s) /\ calls \in Nat
  BY DEF TypeInv, TablesFit
<1>2. /\ Len(requests[s]) \in Nat /\ Len(replies[s]) \in Nat
      /\ Len(requests'[s]) \in Nat /\ Len(replies'[s]) \in Nat
      /\ Len(requests'[s]) <= Len(requests[s]) /\ Len(replies'[s]) <= Len(replies[s])
  BY Numbers, Queue DEF Less
<1>3. Carries(requests'[s])
  BY <1>1, CarriesThins DEF Fit, Less
<1>4. Len(requests'[s]) + Len(replies'[s]) <= Len(requests[s]) + Len(replies[s])
  <2>1. \A x, y, v, w \in Nat : v <= x /\ w <= y => v + w <= x + y
    OBVIOUS
  <2> QED BY <1>2, <2>1
<1> QED BY <1>1, <1>2, <1>3, <1>4, LessFits

LEMMA CutFits ==
  ASSUME CallsInv, CallsInv', TypeInv, NEW s \in Sessions, disconnect(s) \/ Break(s)
  PROVE  TypeInv'
<1>1. /\ StepOf(s) /\ UNCHANGED <<call, late, regionTable, calls>>
      /\ Less(requests'[s], requests[s]) /\ Less(replies'[s], replies[s])
      /\ phase'[s] = phase[s] \/ (phase[s] = "idle" /\ phase'[s] = "closed")
  <2>1. CASE disconnect(s)
    <3>1. UNCHANGED <<call, late, regionTable, calls>>
      BY <2>1 DEF disconnect
    <3> QED BY <2>1, <3>1, DisconnectLess
  <2>2. CASE Break(s)
    <3>1. UNCHANGED <<phase, call, late, regionTable, calls>>
      BY <2>2 DEF Break, session
    <3> QED BY <2>2, <3>1, BreakLess
  <2> QED BY <2>1, <2>2
<1>2. breaks' \in 0..MaxBreaks
  <2>1. breaks \in 0..MaxBreaks /\ MaxBreaks \in Nat
    BY ApiAssumption DEF TypeInv, TablesFit
  <2>2. breaks' = breaks \/ (breaks < MaxBreaks /\ breaks' = breaks + 1)
    <3>1. CASE disconnect(s)
      <4>1. breaks' = breaks
        BY <3>1 DEF disconnect
      <4> QED BY <4>1
    <3>2. CASE Break(s)
      BY <3>2 DEF Break
    <3> QED BY <3>1, <3>2
  <2> QED BY <2>1, <2>2
<1>3. Fit(s)'
  BY <1>1, LostFits
<1>4. Len(requests'[s]) <= Len(requests[s])
  BY <1>1 DEF Less
<1> QED BY <1>1, <1>2, <1>3, <1>4, StepFits DEF regionTable

(* The region starts anew.                                                 *)
LEMMA RestartFits ==
  ASSUME CallsInv, TypeInv, Restart
  PROVE  TypeInv'
<1>1. /\ UNCHANGED <<phase, call, late, calls>>
      /\ services' = {} /\ payloads' = {} /\ version' = 0
      /\ breaks < MaxBreaks /\ breaks' = breaks + 1
  BY DEF Restart, session
<1>2. \A t \in Sessions : Less(requests'[t], requests[t]) /\ Less(replies'[t], replies[t])
  BY RestartLess
<1>3. \A t \in Sessions : Fit(t)'
  BY <1>1, <1>2, LostFits
<1>4. calls \in 0..MaxCalls /\ breaks \in 0..MaxBreaks /\ version \in Nat
  BY DEF TypeInv, TablesFit
<1>5. breaks' \in 0..MaxBreaks
  BY <1>1, <1>4, ApiAssumption
<1>6. \A t \in Sessions : /\ Len(requests[t]) \in Nat /\ Len(requests'[t]) \in Nat
                          /\ Len(requests'[t]) <= Len(requests[t])
  BY <1>2, Numbers, Queue DEF Less
<1>7. calls \in Nat /\ version' \in Nat /\ version' <= version
  BY <1>1, <1>4
<1>8. Spent'
  BY <1>1, <1>4, <1>6, <1>7, SpentOn DEF TypeInv
<1>9. TablesFit'
  BY <1>1, <1>4, <1>5 DEF TablesFit
<1> QED BY <1>3, <1>8, <1>9 DEF TypeInv

(* A request that is answered.                                             *)
LEMMA AnswerFits ==
  ASSUME CallsInv, TypeInv, NEW s \in Sessions, NEW type, NEW data,
         requests[s] # <<>>, Answer(s, type, data),
         services' \subseteq Services, payloads' \subseteq Payloads,
         version' \in Nat, version' <= version + 1
  PROVE  TypeInv'
<1> DEFINE m == [type |-> type, id |-> Head(requests[s]).id, data |-> data]
<1>1. /\ Shapes /\ Fit(s) /\ IsSeq(requests[s]) /\ IsSeq(replies[s])
      /\ Len(requests[s]) \in Nat /\ Len(replies[s]) \in Nat
      /\ Len(requests[s]) # 0
  BY Numbers DEF CallsInv, TypeInv
<1>2. PICK rp : /\ replies' = [replies EXCEPT ![s] = rp]
                /\ rp = replies[s] \/ rp = Append(replies[s], m)
  BY DEF Answer
<1> HIDE DEF m
<1>3. /\ requests' = [requests EXCEPT ![s] = Tail(requests[s])]
      /\ UNCHANGED <<phase, call, late, answer, calls, breaks>>
  BY DEF Answer, session
<1>4. requests'[s] = Tail(requests[s]) /\ replies'[s] = rp
  BY <1>1, <1>2, <1>3, Excepted DEF Shapes
<1>5. StepOf(s)
  BY <1>1, <1>2, <1>3, Excepted DEF Shapes, StepOf
<1>6. Len(Tail(requests[s])) = Len(requests[s]) - 1 /\ Thins(Tail(requests[s]), requests[s])
  BY <1>1, Rest, RestThins
<1>7. Len(rp) = Len(replies[s]) \/ Len(rp) = Len(replies[s]) + 1
  BY <1>1, <1>2, Appended
<1>8. Carries(Tail(requests[s]))
  BY <1>1, <1>6, CarriesThins DEF Fit
<1>9. calls \in Nat /\ calls' \in 0..MaxCalls /\ calls <= calls' /\ version \in Nat
  BY <1>3 DEF TypeInv, TablesFit
<1>10. /\ Len(Tail(requests[s])) \in Nat /\ Len(rp) \in Nat
       /\ Len(Tail(requests[s])) + Len(rp) <= Len(requests[s]) + Len(replies[s])
  <2>1. \A a, b \in Nat : a # 0 => /\ a - 1 \in Nat /\ b + 1 \in Nat
                                 /\ (a - 1) + b <= a + b /\ (a - 1) + (b + 1) <= a + b
    OBVIOUS
  <2>2. CASE Len(rp) = Len(replies[s])
    BY <1>1, <1>6, <2>1, <2>2
  <2>3. CASE Len(rp) = Len(replies[s]) + 1
    BY <1>1, <1>6, <2>1, <2>3
  <2> QED BY <1>7, <2>2, <2>3
<1>11. Fit(s)'
  <2>1. calls' = calls /\ UNCHANGED <<call, late>> /\ phase'[s] = phase[s]
    BY <1>3
  <2>2. /\ Carries(requests'[s])
        /\ Len(requests'[s]) \in Nat /\ Len(replies'[s]) \in Nat
        /\ Len(requests'[s]) + Len(replies'[s]) <= Len(requests[s]) + Len(replies[s])
    BY <1>4, <1>8, <1>10
  <2>3. Fit(s) /\ calls \in Nat
    BY <1>1, <1>9
  <2> QED BY <2>1, <2>2, <2>3, LessFits
<1>12. \A t \in Sessions : Fit(t)'
  BY <1>5, <1>9, <1>11, FitOthers
<1>13. \A t \in Sessions \ {s} : requests'[t] = requests[t]
  BY <1>5 DEF StepOf
<1>14. Spent'
  <2>1. Len(requests[s]) > 0 /\ Len(requests'[s]) = Len(requests[s]) - 1
    BY <1>1, <1>4, <1>6
  <2>2. calls' = calls
    BY <1>3
  <2> QED BY <1>1, <1>9, <1>13, <2>1, <2>2, SpentAnswer DEF TypeInv
<1>15. TablesFit'
  BY <1>3, <1>9 DEF TypeInv, TablesFit
<1> QED BY <1>12, <1>14, <1>15 DEF TypeInv

(* A handler changes the tables by one element of the right kind.          *)
LEMMA HandlerFits ==
  ASSUME CallsInv, TypeInv, NEW s \in Sessions,
         \/ addService(s) \/ rmServiceReq(s) \/ addPayload(s) \/ rmPayloadReq(s) \/ handshake(s)
         \/ onHandShake(s) \/ onStaticsReq(s) \/ onRegionReq(s)
         \/ onServiceRouteReq(s) \/ onPayloadRouteReq(s) \/ onPayloadsRouteReq(s)
  PROVE  TypeInv'
<1>1. requests[s] # <<>> /\ \E type, data : Answer(s, type, data)
  BY HandlersAnswer
<1>2. version \in Nat /\ services \subseteq Services /\ payloads \subseteq Payloads
  BY DEF TypeInv, TablesFit
<1> DEFINE q == Head(requests[s])
<1>3. /\ q.op = "AddService" => q.arg[1] \in Services
      /\ q.op = "AddPayload" => q.arg[1] \in Payloads
  <2>1. Carries(requests[s]) /\ IsSeq(requests[s])
    BY Numbers DEF TypeInv, Fit
  <2>2. q = requests[s][1] /\ 1 \in 1..Len(requests[s])
    BY <1>1, <2>1, Rest
  <2> QED BY <2>1, <2>2 DEF Carries
<1>4. services' \subseteq Services /\ payloads' \subseteq Payloads
  <2>1. CASE addService(s)
    BY <1>2, <1>3, <2>1 DEF addService, Asked
  <2>2. CASE addPayload(s)
    BY <1>2, <1>3, <2>2 DEF addPayload, Asked
  <2>3. CASE rmServiceReq(s) \/ rmPayloadReq(s)
    BY <1>2, <2>3 DEF rmServiceReq, rmPayloadReq
  <2>4. CASE handshake(s)
    BY <1>2, <2>4 DEF handshake, regionTable
  <2>5. CASE \/ onHandShake(s) \/ onStaticsReq(s) \/ onRegionReq(s)
             \/ onServiceRouteReq(s) \/ onPayloadRouteReq(s) \/ onPayloadsRouteReq(s)
    BY <1>2, <2>5 DEF onHandShake, onStaticsReq, onRegionReq, onServiceRouteReq,
       onPayloadRouteReq, onPayloadsRouteReq, Tell, regionTable
  <2> QED BY <2>1, <2>2, <2>3, <2>4, <2>5
<1>5. version' \in Nat /\ version' <= version + 1
  <2>1. CASE addService(s) \/ addPayload(s)
    BY <1>2, <2>1 DEF addService, addPayload
  <2>3. CASE rmServiceReq(s) \/ rmPayloadReq(s)
    BY <1>2, <2>3 DEF rmServiceReq, rmPayloadReq
  <2>4. CASE handshake(s)
    BY <1>2, <2>4 DEF handshake, regionTable
  <2>5. CASE \/ onHandShake(s) \/ onStaticsReq(s) \/ onRegionReq(s)
             \/ onServiceRouteReq(s) \/ onPayloadRouteReq(s) \/ onPayloadsRouteReq(s)
    <3>1. version' = version
      BY <2>5 DEF onHandShake, onStaticsReq, onRegionReq, onServiceRouteReq,
         onPayloadRouteReq, onPayloadsRouteReq, Tell, regionTable
    <3> QED BY <1>2, <3>1
  <2> QED BY <2>1, <2>3, <2>4, <2>5
<1> QED BY <1>1, <1>4, <1>5, AnswerFits

LEMMA NothingFits ==
  ASSUME TypeInv, UNCHANGED <<regionTable, phase, requests, replies, call, late, calls, breaks>>
  PROVE  TypeInv'
<1>1. \A s \in Sessions : Fit(s)'
  BY DEF TypeInv, Fit
<1>2. Spent'
  BY DEF TypeInv, Spent, regionTable
<1>3. TablesFit'
  BY DEF TypeInv, TablesFit, regionTable
<1> QED BY <1>1, <1>2, <1>3 DEF TypeInv

LEMMA InitFits == Init => TypeInv
<1>1. SUFFICES ASSUME Init PROVE TypeInv
  OBVIOUS
<1>2. \A s \in Sessions : /\ phase[s] = "new" /\ requests[s] = <<>> /\ replies[s] = <<>>
                          /\ call[s].id = 0 /\ late[s] = 0
  BY <1>1 DEF Init, Request
<1>3. calls = 0 /\ breaks = 0 /\ version = 0 /\ services = {} /\ payloads = {}
  BY <1>1 DEF Init
<1>4. ASSUME NEW s \in Sessions PROVE Fit(s)
  <2>1. Len(requests[s]) = 0 /\ Len(replies[s]) = 0
    BY <1>2
  <2>2. Carries(requests[s])
    BY <2>1 DEF Carries
  <2>3. Len(requests[s]) + Len(replies[s]) <= calls
    BY <1>3, <2>1
  <2>4. phase[s] = "new" /\ call[s].id <= calls /\ late[s] <= call[s].id
    BY <1>2, <1>3
  <2> QED BY <2>2, <2>3, <2>4 DEF Fit
<1>5. Spent
  <2>1. Cardinality({}) = 0
    BY FS_EmptySet
  <2>2. PICK place : place = [k \in {} |-> 0]
    OBVIOUS
  <2>3. ASSUME NEW s \in Sessions
        PROVE  Len(requests[s]) <= Cardinality(Unused(calls, place, {}, s))
    <3>1. Cardinality(Unused(0, place, {}, s)) \in Nat
      BY UnusedSize
    <3>2. Len(requests[s]) = 0
      BY <1>2
    <3> QED BY <1>3, <3>1, <3>2
  <2>4. {} \subseteq 1..calls /\ version <= Cardinality({})
    BY <1>3, <2>1
  <2> QED BY <2>3, <2>4 DEF Spent
<1>6. TablesFit
  BY <1>3, ApiAssumption DEF TablesFit
<1> QED BY <1>4, <1>5, <1>6 DEF TypeInv

LEMMA NextFits == CallsInv /\ CallsInv' /\ TypeInv /\ [Next]_vars => TypeInv'
<1>1. SUFFICES ASSUME CallsInv, CallsInv', TypeInv, [Next]_vars PROVE TypeInv'
  OBVIOUS
<1>2. CASE UNCHANGED vars \/ UpdateTable
  BY <1>1, <1>2, NothingFits DEF vars, UpdateTable, wire, session
<1>3. ASSUME NEW s \in Sessions, connect(s)
      PROVE  TypeInv'
  <2>1. Call(s, "HandShake", <<>>)
    BY <1>3 DEF connect
  <2>2. "HandShake" # "AddService" /\ "HandShake" # "AddPayload"
    OBVIOUS
  <2> QED BY <1>1, <2>1, <2>2, CallFits
<1>4. ASSUME NEW s \in Sessions, Return(s) \/ TimeOut(s) \/ disconnect(s) \/ Break(s)
      PROVE  TypeInv'
  BY <1>1, <1>4, ReturnFits, TimeOutFits, CutFits
<1>12. CASE Restart
  BY <1>1, <1>12, RestartFits
<1>5. ASSUME NEW s \in Sessions,
             \/ addService(s) \/ rmServiceReq(s) \/ addPayload(s) \/ rmPayloadReq(s)
             \/ handshake(s) \/ onHandShake(s) \/ onStaticsReq(s) \/ onRegionReq(s)
             \/ onServiceRouteReq(s) \/ onPayloadRouteReq(s) \/ onPayloadsRouteReq(s)
      PROVE  TypeInv'
  BY <1>1, <1>5, HandlerFits
<1>6. ASSUME NEW s \in Sessions, NEW p \in Payloads, newPayload(s, p)
      PROVE  TypeInv'
  <2>1. Call(s, "AddPayload", <<p>>) /\ <<p>>[1] \in Payloads
    BY <1>6 DEF newPayload
  <2>2. "AddPayload" # "AddService"
    OBVIOUS
  <2> QED BY <1>1, <2>1, <2>2, CallFits
<1>7. ASSUME NEW s \in Sessions, NEW n \in Services, newService(s, n)
      PROVE  TypeInv'
  <2>1. Call(s, "AddService", <<n>>) /\ <<n>>[1] \in Services
    BY <1>7 DEF newService
  <2>2. "AddPayload" # "AddService"
    OBVIOUS
  <2> QED BY <1>1, <2>1, <2>2, CallFits
<1>8. ASSUME NEW s \in Sessions, NEW p,
             \/ rmPayload(s, p) \/ rmService(s, p)
             \/ getPayloadRouteInfo(s, p) \/ getServiceRouteInfo(s, p) \/ getRegion(s, p)
             \/ getStatistics(s) \/ getPayloadsRouteInfo(s, p)
      PROVE  TypeInv'
  <2>1. PICK op, arg : Call(s, op, arg) /\ op # "AddService" /\ op # "AddPayload"
    BY <1>8 DEF rmPayload, rmService, getPayloadRouteInfo, getServiceRouteInfo, getRegion,
       getStatistics, getPayloadsRouteInfo
  <2> QED BY <1>1, <2>1, CallFits
<1>9. ASSUME NEW s \in Sessions, NEW p \in Payloads, asyncNewPayload(s, p)
      PROVE  TypeInv'
  <2>1. Async(s, "AddPayload", p) /\ "AddPayload" # "AddService"
    BY <1>9 DEF asyncNewPayload
  <2> QED BY <1>1, <2>1, AsyncFits
<1>10. ASSUME NEW s \in Sessions, NEW n \in Services, asyncNewService(s, n)
       PROVE  TypeInv'
  <2>1. Async(s, "AddService", n) /\ "AddPayload" # "AddService"
    BY <1>10 DEF asyncNewService
  <2> QED BY <1>1, <2>1, AsyncFits
<1>11. ASSUME NEW s \in Sessions, NEW p, asyncRmPayload(s, p) \/ asyncRmService(s, p)
       PROVE  TypeInv'
  <2>1. PICK op : Async(s, op, p) /\ op # "AddService" /\ op # "AddPayload"
    BY <1>11 DEF asyncRmPayload, asyncRmService
  <2> QED BY <1>1, <2>1, AsyncFits
<1> QED BY <1>1, <1>2, <1>3, <1>4, <1>5, <1>6, <1>7, <1>8, <1>9, <1>10, <1>11, <1>12 DEF Next

(* The actors and the sessions are where the code can be: the region's     *)
(* table holds known names, its version is no further than the requests    *)
(* made, no queue holds more than was sent, and no more calls time out     *)
(* than are made.                                                          *)
THEOREM ApiTyped == Spec => []TypeOK
<1>1. ASSUME CallsInv, TypeInv PROVE TypeOK
  <2>1. calls \in 0..MaxCalls /\ version \in Nat /\ version <= calls
    BY <1>1, ApiAssumption, VersionSpent DEF TypeInv, TablesFit
  <2>2. version \in 0..MaxCalls
    BY <2>1, ApiAssumption
  <2>3. ASSUME NEW s \in Sessions
        PROVE  /\ phase[s] \in {"new", "idle", "waiting", "closed"}
               /\ Len(requests[s]) + Len(replies[s]) <= calls
               /\ late[s] \in 0..MaxCalls
    <3>1. Fit(s) /\ call[s].id \in Nat /\ late[s] \in Nat
      BY <1>1, Numbers DEF TypeInv
    <3>2. late[s] <= call[s].id /\ call[s].id <= calls
      BY <3>1 DEF Fit
    <3>3. late[s] \in 0..MaxCalls
      BY <2>1, <3>1, <3>2, ApiAssumption
    <3> QED BY <3>1, <3>3 DEF Fit
  <2> QED BY <1>1, <2>1, <2>2, <2>3 DEF TypeInv, TablesFit, TypeOK
<1> QED BY <1>1, InitFits, NextFits, CallsInvariant, PTL DEF Spec

=============================================================================

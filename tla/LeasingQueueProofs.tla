-------------------------- MODULE LeasingQueueProofs --------------------------
(***************************************************************************)
(* Lemmas about a leasing broker, for any messages and queues: what each   *)
(* of its operations does to a copy, and to the messages on a queue.       *)
(***************************************************************************)
EXTENDS LeasingQueue, FiniteSetTheorems, SequenceTheorems, TLAPS

LEMMA CopyAt ==
    ASSUME NEW Msgs, NEW Queues, NEW q \in Seq(CopyOf(Msgs, Queues)), NEW i \in DOMAIN q
    PROVE  /\ q[i] \in CopyOf(Msgs, Queues)
           /\ q[i].msg \in Msgs /\ q[i].queue \in Queues /\ q[i].receives \in Nat
           /\ q[i].state \in {"visible", "hidden", "deleted"}
           /\ i \in Nat \ {0} /\ i \in 1 .. Len(q) /\ Len(q) \in Nat
<1>1. q[i] \in CopyOf(Msgs, Queues) /\ i \in 1 .. Len(q) /\ i \in Nat \ {0} /\ Len(q) \in Nat
  OBVIOUS
<1> QED BY <1>1 DEF CopyOf

\* Copies that are replaced one for one.
LEMMA CopiesReplaced ==
    ASSUME NEW Msgs, NEW Queues, NEW q \in Seq(CopyOf(Msgs, Queues)), NEW f,
           DOMAIN f = DOMAIN q, f = [i \in DOMAIN f |-> f[i]],
           \A i \in DOMAIN q : f[i] \in CopyOf(Msgs, Queues)
    PROVE  f \in Seq(CopyOf(Msgs, Queues))
<1>1. f \in [1 .. Len(q) -> CopyOf(Msgs, Queues)]
  OBVIOUS
<1> QED BY <1>1

LEMMA CopiesFinite ==
    ASSUME NEW Msgs, NEW Queues, NEW q \in Seq(CopyOf(Msgs, Queues)), NEW S, S \subseteq DOMAIN q
    PROVE  IsFiniteSet(S)
<1>1. DOMAIN q = 1 .. Len(q) /\ Len(q) \in Nat
  OBVIOUS
<1>2. IsFiniteSet(1 .. Len(q))
  BY <1>1, FS_Interval
<1> QED BY <1>1, <1>2, FS_Subset

-----------------------------------------------------------------------------
\* What each operation makes of the copies.

Shown(q, i) == [q EXCEPT ![i].state = "visible"]
WithQueue(q, i, s) == [q EXCEPT ![i].queue = s]
Added(q, m, s) == Append(q, NewCopyOn(m, s))
AllAdded(q, a) == q \o a

\* One copy is made visible, or moves to another queue.
LEMMA CopyShown ==
    ASSUME NEW Msgs, NEW Queues, NEW q \in Seq(CopyOf(Msgs, Queues)), NEW i \in DOMAIN q
    PROVE  /\ Shown(q, i) \in Seq(CopyOf(Msgs, Queues))
           /\ DOMAIN Shown(q, i) = DOMAIN q
           /\ \A j \in DOMAIN q : /\ Shown(q, i)[j].msg = q[j].msg
                                  /\ Shown(q, i)[j].queue = q[j].queue
                                  /\ Shown(q, i)[j].receives = q[j].receives
                                  /\ Shown(q, i)[j].state = IF j = i THEN "visible" ELSE q[j].state
<1> DEFINE z == Shown(q, i)
<1>1. DOMAIN z = DOMAIN q /\ z = [j \in DOMAIN z |-> z[j]]
  BY DEF Shown
<1>2. ASSUME NEW j \in DOMAIN q
      PROVE  /\ z[j] \in CopyOf(Msgs, Queues)
             /\ z[j].msg = q[j].msg
             /\ z[j].queue = q[j].queue
             /\ z[j].receives = q[j].receives
             /\ z[j].state = IF j = i THEN "visible" ELSE q[j].state
  <2>1. q[j] \in CopyOf(Msgs, Queues)
    BY CopyAt
  <2>2. z[j] = IF j = i THEN [q[i] EXCEPT !.state = "visible"] ELSE q[j]
    BY DEF Shown
  <2> QED BY <2>1, <2>2 DEF CopyOf
<1> HIDE DEF z
<1>3. z \in Seq(CopyOf(Msgs, Queues))
  BY <1>1, <1>2, CopiesReplaced
<1>4. /\ z \in Seq(CopyOf(Msgs, Queues))
      /\ DOMAIN z = DOMAIN q
      /\ \A j \in DOMAIN q : /\ z[j].msg = q[j].msg
                             /\ z[j].queue = q[j].queue
                             /\ z[j].receives = q[j].receives
                             /\ z[j].state = IF j = i THEN "visible" ELSE q[j].state
  BY <1>1, <1>2, <1>3
<1> QED BY <1>4 DEF z

LEMMA CopyMoved ==
    ASSUME NEW Msgs, NEW Queues, NEW q \in Seq(CopyOf(Msgs, Queues)), NEW i \in DOMAIN q,
           NEW s \in Queues
    PROVE  /\ WithQueue(q, i, s) \in Seq(CopyOf(Msgs, Queues))
           /\ DOMAIN WithQueue(q, i, s) = DOMAIN q
           /\ \A j \in DOMAIN q : /\ WithQueue(q, i, s)[j].msg = q[j].msg
                                  /\ WithQueue(q, i, s)[j].queue = IF j = i THEN s ELSE q[j].queue
                                  /\ WithQueue(q, i, s)[j].receives = q[j].receives
                                  /\ WithQueue(q, i, s)[j].state = q[j].state
<1> DEFINE z == WithQueue(q, i, s)
<1>1. DOMAIN z = DOMAIN q /\ z = [j \in DOMAIN z |-> z[j]]
  BY DEF WithQueue
<1>2. ASSUME NEW j \in DOMAIN q
      PROVE  /\ z[j] \in CopyOf(Msgs, Queues)
             /\ z[j].msg = q[j].msg
             /\ z[j].queue = IF j = i THEN s ELSE q[j].queue
             /\ z[j].receives = q[j].receives
             /\ z[j].state = q[j].state
  <2>1. q[j] \in CopyOf(Msgs, Queues)
    BY CopyAt
  <2>2. z[j] = IF j = i THEN [q[i] EXCEPT !.queue = s] ELSE q[j]
    BY DEF WithQueue
  <2> QED BY <2>1, <2>2 DEF CopyOf
<1> HIDE DEF z
<1>3. z \in Seq(CopyOf(Msgs, Queues))
  BY <1>1, <1>2, CopiesReplaced
<1>4. /\ z \in Seq(CopyOf(Msgs, Queues))
      /\ DOMAIN z = DOMAIN q
      /\ \A j \in DOMAIN q : /\ z[j].msg = q[j].msg
                             /\ z[j].queue = IF j = i THEN s ELSE q[j].queue
                             /\ z[j].receives = q[j].receives
                             /\ z[j].state = q[j].state
  BY <1>1, <1>2, <1>3
<1> QED BY <1>4 DEF z

\* A copy that is delivered.
LeasedCopy(e) == [e EXCEPT !.state = "hidden", !.receives = @ + 1]

LEMMA LeasedCopyType ==
    ASSUME NEW Msgs, NEW Queues, NEW e \in CopyOf(Msgs, Queues)
    PROVE  /\ LeasedCopy(e) \in CopyOf(Msgs, Queues)
           /\ LeasedCopy(e).msg = e.msg /\ LeasedCopy(e).queue = e.queue
           /\ LeasedCopy(e).receives = e.receives + 1 /\ LeasedCopy(e).state = "hidden"
<1>1. e.receives \in Nat /\ e.receives + 1 \in Nat
  BY DEF CopyOf
<1> DEFINE n == e.receives + 1
           z == [e EXCEPT !.state = "hidden", !.receives = n]
<1>2. LeasedCopy(e) = z
  BY DEF LeasedCopy
<1> HIDE DEF n
<1>3. z \in CopyOf(Msgs, Queues) /\ z.msg = e.msg /\ z.queue = e.queue
      /\ z.receives = n /\ z.state = "hidden"
  BY <1>1 DEF CopyOf, n
<1> HIDE DEF z
<1> QED BY <1>2, <1>3, Zenon DEF n

\* The copies in S are delivered: hidden, and their handles are the latest.
LEMMA LeasedCopies ==
    ASSUME NEW Msgs, NEW Queues, NEW q \in Seq(CopyOf(Msgs, Queues)), NEW S
    PROVE  /\ Leased(q, S) \in Seq(CopyOf(Msgs, Queues))
           /\ DOMAIN Leased(q, S) = DOMAIN q
           /\ \A j \in DOMAIN q :
                /\ Leased(q, S)[j].msg = q[j].msg
                /\ Leased(q, S)[j].queue = q[j].queue
                /\ Leased(q, S)[j].receives = IF j \in S THEN q[j].receives + 1 ELSE q[j].receives
                /\ Leased(q, S)[j].state = IF j \in S THEN "hidden" ELSE q[j].state
<1> DEFINE z == Leased(q, S)
<1>1. DOMAIN z = DOMAIN q /\ z = [j \in DOMAIN z |-> z[j]]
  BY DEF Leased
<1>2. ASSUME NEW j \in DOMAIN q
      PROVE  /\ z[j] \in CopyOf(Msgs, Queues)
             /\ z[j].msg = q[j].msg /\ z[j].queue = q[j].queue
             /\ z[j].receives = IF j \in S THEN q[j].receives + 1 ELSE q[j].receives
             /\ z[j].state = IF j \in S THEN "hidden" ELSE q[j].state
  <2>1. q[j] \in CopyOf(Msgs, Queues)
    BY CopyAt
  <2>2. z[j] = IF j \in S THEN LeasedCopy(q[j]) ELSE q[j]
    BY DEF Leased, LeasedCopy
  <2> HIDE DEF z
  <2>3. CASE j \in S
    BY <2>1, <2>2, <2>3, LeasedCopyType
  <2>4. CASE j \notin S
    BY <2>1, <2>2, <2>4
  <2> QED BY <2>3, <2>4
<1> HIDE DEF z
<1>3. z \in Seq(CopyOf(Msgs, Queues))
  BY <1>1, <1>2, CopiesReplaced
<1>4. /\ z \in Seq(CopyOf(Msgs, Queues))
      /\ DOMAIN z = DOMAIN q
      /\ \A j \in DOMAIN q :
           /\ z[j].msg = q[j].msg
           /\ z[j].queue = q[j].queue
           /\ z[j].receives = IF j \in S THEN q[j].receives + 1 ELSE q[j].receives
           /\ z[j].state = IF j \in S THEN "hidden" ELSE q[j].state
  BY <1>1, <1>2, <1>3
<1> QED BY <1>4 DEF z

\* Deleting D: a copy is as before or deleted, and deleted only if D has it and it
\* is on the queue; it is, if D has its latest delivery.
LEMMA DeletedCopies ==
    ASSUME NEW Msgs, NEW Queues, NEW q \in Seq(CopyOf(Msgs, Queues)), NEW D, NEW s,
           NEW r \in Deletions(q, D, s)
    PROVE  /\ r \in Seq(CopyOf(Msgs, Queues))
           /\ DOMAIN r = DOMAIN q
           /\ \A j \in DOMAIN q :
                /\ r[j].msg = q[j].msg /\ r[j].queue = q[j].queue
                /\ r[j].receives = q[j].receives
                /\ \/ r[j].state = q[j].state
                   \/ /\ r[j].state = "deleted"
                      /\ j \in CopiesIn(q, s) /\ \E d \in D : d.copy = j
           /\ \A d \in D : d.copy \in CopiesIn(q, s) /\ d.receipt = q[d.copy].receives
                                => r[d.copy].state = "deleted"
<1> DEFINE onQueue == {d \in D : d.copy \in CopiesIn(q, s)}
           latest == {d \in onQueue : d.receipt = q[d.copy].receives}
<1>1. PICK gone \in {latest \cup stale : stale \in SUBSET onQueue} :
        r = [i \in DOMAIN q |-> IF \E d \in gone : d.copy = i
                                THEN [q[i] EXCEPT !.state = "deleted"] ELSE q[i]]
  BY DEF Deletions
<1>2. gone \subseteq onQueue /\ latest \subseteq gone
  BY <1>1
<1>3. DOMAIN r = DOMAIN q /\ r = [j \in DOMAIN r |-> r[j]]
  BY <1>1
<1>4. ASSUME NEW j \in DOMAIN q
      PROVE  /\ r[j] \in CopyOf(Msgs, Queues)
             /\ r[j].msg = q[j].msg /\ r[j].queue = q[j].queue
             /\ r[j].receives = q[j].receives
             /\ r[j].state = IF \E d \in gone : d.copy = j THEN "deleted" ELSE q[j].state
  <2>1. q[j] \in CopyOf(Msgs, Queues)
    BY CopyAt
  <2>2. r[j] = IF \E d \in gone : d.copy = j THEN [q[j] EXCEPT !.state = "deleted"] ELSE q[j]
    BY <1>1
  <2> QED BY <2>1, <2>2 DEF CopyOf
<1>5. r \in Seq(CopyOf(Msgs, Queues))
  BY <1>3, <1>4, CopiesReplaced
<1>6. \A d \in D : d.copy \in CopiesIn(q, s) => d.copy \in DOMAIN q
  BY DEF CopiesIn
<1> QED BY <1>2, <1>3, <1>4, <1>5, <1>6

\* Giving back d: its copy is visible again, if d is its latest delivery.
LEMMA GivenBackCopies ==
    ASSUME NEW Msgs, NEW Queues, NEW q \in Seq(CopyOf(Msgs, Queues)), NEW d, NEW s
    PROVE  /\ GivenBack(q, d, s) \in Seq(CopyOf(Msgs, Queues))
           /\ DOMAIN GivenBack(q, d, s) = DOMAIN q
           /\ \A j \in DOMAIN q :
                /\ GivenBack(q, d, s)[j].msg = q[j].msg /\ GivenBack(q, d, s)[j].queue = q[j].queue
                /\ GivenBack(q, d, s)[j].receives = q[j].receives
                /\ \/ GivenBack(q, d, s)[j].state = q[j].state
                   \/ /\ GivenBack(q, d, s)[j].state = "visible" /\ j = d.copy /\ j \in CopiesIn(q, s)
                      /\ d.receipt = q[j].receives
<1>1. CASE d.copy \in CopiesIn(q, s) /\ d.receipt = q[d.copy].receives
  <2>1. d.copy \in DOMAIN q /\ "visible" \in {"visible", "hidden", "deleted"}
    BY <1>1 DEF CopiesIn
  <2>2. GivenBack(q, d, s) = [q EXCEPT ![d.copy].state = "visible"]
    BY <1>1 DEF GivenBack
  <2>3. GivenBack(q, d, s) = Shown(q, d.copy)
    BY <2>2 DEF Shown
  <2> QED BY <1>1, <2>1, <2>3, CopyShown
<1>2. CASE ~(d.copy \in CopiesIn(q, s) /\ d.receipt = q[d.copy].receives)
  <2>1. GivenBack(q, d, s) = q
    BY <1>2 DEF GivenBack
  <2> QED BY <2>1
<1> QED BY <1>1, <1>2

\* A new copy is stored behind the others.
LEMMA CopyAdded ==
    ASSUME NEW Msgs, NEW Queues, NEW q \in Seq(CopyOf(Msgs, Queues)), NEW m \in Msgs,
           NEW s \in Queues
    PROVE  /\ Added(q, m, s) \in Seq(CopyOf(Msgs, Queues))
           /\ Len(q) \in Nat /\ Len(q) + 1 \in DOMAIN Added(q, m, s)
           /\ \A j \in DOMAIN Added(q, m, s) : j \in DOMAIN q \/ j = Len(q) + 1
           /\ \A j \in DOMAIN q : /\ j \in 1 .. Len(q) /\ j \in DOMAIN Added(q, m, s)
                                  /\ Added(q, m, s)[j] = q[j]
           /\ Added(q, m, s)[Len(q) + 1] = NewCopyOn(m, s)
<1>1. NewCopyOn(m, s) \in CopyOf(Msgs, Queues)
  BY DEF NewCopyOn, CopyOf
<1> QED BY <1>1, AppendProperties DEF Added

\* New copies are stored behind the others.
LEMMA CopiesAdded ==
    ASSUME NEW Msgs, NEW Queues, NEW q \in Seq(CopyOf(Msgs, Queues)),
           NEW a \in Seq(CopyOf(Msgs, Queues))
    PROVE  /\ AllAdded(q, a) \in Seq(CopyOf(Msgs, Queues))
           /\ Len(q) \in Nat
           /\ \A i \in DOMAIN q : i \in 1 .. Len(q) /\ i \in DOMAIN AllAdded(q, a) /\ AllAdded(q, a)[i] = q[i]
           /\ \A k \in DOMAIN a : k \in Nat \ {0} /\ Len(q) + k \in DOMAIN AllAdded(q, a) /\ AllAdded(q, a)[Len(q) + k] = a[k]
           /\ \A i \in DOMAIN AllAdded(q, a) : i \in DOMAIN q \/ (i - Len(q) \in DOMAIN a /\ AllAdded(q, a)[i] = a[i - Len(q)])
<1>1. /\ Len(q) \in Nat /\ Len(a) \in Nat /\ DOMAIN q = 1 .. Len(q) /\ DOMAIN a = 1 .. Len(a)
      /\ DOMAIN AllAdded(q, a) = 1 .. Len(q) + Len(a) /\ AllAdded(q, a) \in Seq(CopyOf(Msgs, Queues))
  BY DEF AllAdded
<1>2. \A i \in DOMAIN q : i \in 1 .. Len(q) /\ i \in DOMAIN AllAdded(q, a) /\ AllAdded(q, a)[i] = q[i]
  BY DEF AllAdded
<1>3. \A k \in DOMAIN a : k \in Nat \ {0} /\ Len(q) + k \in DOMAIN AllAdded(q, a) /\ AllAdded(q, a)[Len(q) + k] = a[k]
  BY DEF AllAdded
<1>4. \A i \in DOMAIN AllAdded(q, a) : i \in DOMAIN q \/ (i - Len(q) \in DOMAIN a /\ AllAdded(q, a)[i] = a[i - Len(q)])
  BY DEF AllAdded
<1> QED BY <1>1, <1>2, <1>3, <1>4

-----------------------------------------------------------------------------
\* What becomes of the copies that are there: no copy goes away, changes its
\* message, forgets a delivery or comes back after it was deleted.
Evolves(q, r) ==
    \A i \in DOMAIN q :
        /\ i \in DOMAIN r
        /\ r[i].msg = q[i].msg
        /\ r[i].receives >= q[i].receives
        /\ q[i].state = "deleted" => r[i].state = "deleted" /\ r[i].queue = q[i].queue

LEMMA EvolvesSelf ==
    ASSUME NEW Msgs, NEW Queues, NEW q \in Seq(CopyOf(Msgs, Queues))
    PROVE  Evolves(q, q)
BY CopyAt DEF Evolves

LEMMA EvolvesShown ==
    ASSUME NEW Msgs, NEW Queues, NEW q \in Seq(CopyOf(Msgs, Queues)), NEW i \in DOMAIN q,
           q[i].state # "deleted"
    PROVE  Shown(q, i) \in Seq(CopyOf(Msgs, Queues)) /\ Evolves(q, Shown(q, i))
<1>1. /\ Shown(q, i) \in Seq(CopyOf(Msgs, Queues))
      /\ DOMAIN Shown(q, i) = DOMAIN q
      /\ \A j \in DOMAIN q : /\ Shown(q, i)[j].msg = q[j].msg
                             /\ Shown(q, i)[j].queue = q[j].queue
                             /\ Shown(q, i)[j].receives = q[j].receives
                             /\ Shown(q, i)[j].state = IF j = i THEN "visible" ELSE q[j].state
  BY CopyShown
<1> QED BY <1>1, CopyAt DEF Evolves

LEMMA EvolvesMoved ==
    ASSUME NEW Msgs, NEW Queues, NEW q \in Seq(CopyOf(Msgs, Queues)), NEW i \in DOMAIN q,
           NEW s \in Queues, q[i].state # "deleted"
    PROVE  WithQueue(q, i, s) \in Seq(CopyOf(Msgs, Queues)) /\ Evolves(q, WithQueue(q, i, s))
<1>1. /\ WithQueue(q, i, s) \in Seq(CopyOf(Msgs, Queues))
      /\ DOMAIN WithQueue(q, i, s) = DOMAIN q
      /\ \A j \in DOMAIN q : /\ WithQueue(q, i, s)[j].msg = q[j].msg
                             /\ WithQueue(q, i, s)[j].queue = IF j = i THEN s ELSE q[j].queue
                             /\ WithQueue(q, i, s)[j].receives = q[j].receives
                             /\ WithQueue(q, i, s)[j].state = q[j].state
  BY CopyMoved
<1> QED BY <1>1, CopyAt DEF Evolves

LEMMA EvolvesLeased ==
    ASSUME NEW Msgs, NEW Queues, NEW q \in Seq(CopyOf(Msgs, Queues)), NEW S,
           \A i \in S : q[i].state # "deleted"
    PROVE  Leased(q, S) \in Seq(CopyOf(Msgs, Queues)) /\ Evolves(q, Leased(q, S))
<1>1. /\ Leased(q, S) \in Seq(CopyOf(Msgs, Queues))
      /\ DOMAIN Leased(q, S) = DOMAIN q
      /\ \A j \in DOMAIN q :
            /\ Leased(q, S)[j].msg = q[j].msg
            /\ Leased(q, S)[j].queue = q[j].queue
            /\ Leased(q, S)[j].receives = IF j \in S THEN q[j].receives + 1 ELSE q[j].receives
            /\ Leased(q, S)[j].state = IF j \in S THEN "hidden" ELSE q[j].state
  BY LeasedCopies
<1> QED BY <1>1, CopyAt DEF Evolves

LEMMA EvolvesDeletions ==
    ASSUME NEW Msgs, NEW Queues, NEW q \in Seq(CopyOf(Msgs, Queues)), NEW D, NEW s,
           NEW r \in Deletions(q, D, s)
    PROVE  r \in Seq(CopyOf(Msgs, Queues)) /\ Evolves(q, r)
<1>1. /\ r \in Seq(CopyOf(Msgs, Queues))
      /\ DOMAIN r = DOMAIN q
      /\ \A j \in DOMAIN q :
            /\ r[j].msg = q[j].msg /\ r[j].queue = q[j].queue
            /\ r[j].receives = q[j].receives
            /\ r[j].state = q[j].state \/ r[j].state = "deleted"
  BY DeletedCopies
<1> QED BY <1>1, CopyAt DEF Evolves

LEMMA EvolvesGivenBack ==
    ASSUME NEW Msgs, NEW Queues, NEW q \in Seq(CopyOf(Msgs, Queues)), NEW d, NEW s
    PROVE  GivenBack(q, d, s) \in Seq(CopyOf(Msgs, Queues)) /\ Evolves(q, GivenBack(q, d, s))
<1>1. /\ GivenBack(q, d, s) \in Seq(CopyOf(Msgs, Queues))
      /\ DOMAIN GivenBack(q, d, s) = DOMAIN q
      /\ \A j \in DOMAIN q :
            /\ GivenBack(q, d, s)[j].msg = q[j].msg /\ GivenBack(q, d, s)[j].queue = q[j].queue
            /\ GivenBack(q, d, s)[j].receives = q[j].receives
            /\ GivenBack(q, d, s)[j].state = q[j].state \/ j \in CopiesIn(q, s)
  BY GivenBackCopies
<1> QED BY <1>1, CopyAt DEF Evolves, CopiesIn

LEMMA EvolvesAdded ==
    ASSUME NEW Msgs, NEW Queues, NEW q \in Seq(CopyOf(Msgs, Queues)), NEW m \in Msgs,
           NEW s \in Queues
    PROVE  Added(q, m, s) \in Seq(CopyOf(Msgs, Queues)) /\ Evolves(q, Added(q, m, s))
<1>1. /\ Added(q, m, s) \in Seq(CopyOf(Msgs, Queues))
      /\ \A j \in DOMAIN q : j \in DOMAIN Added(q, m, s) /\ Added(q, m, s)[j] = q[j]
  BY CopyAdded
<1> QED BY <1>1, CopyAt DEF Evolves

LEMMA EvolvesAllAdded ==
    ASSUME NEW Msgs, NEW Queues, NEW q \in Seq(CopyOf(Msgs, Queues)),
           NEW a \in Seq(CopyOf(Msgs, Queues))
    PROVE  AllAdded(q, a) \in Seq(CopyOf(Msgs, Queues)) /\ Evolves(q, AllAdded(q, a))
<1>1. /\ AllAdded(q, a) \in Seq(CopyOf(Msgs, Queues))
      /\ \A i \in DOMAIN q : i \in DOMAIN AllAdded(q, a) /\ AllAdded(q, a)[i] = q[i]
  BY CopiesAdded
<1> QED BY <1>1, CopyAt DEF Evolves

-----------------------------------------------------------------------------
\* The messages on a queue.

MsgsIn(q, s) == {q[i].msg : i \in CopiesIn(q, s)}

\* Nothing changes its message, its queue, or whether it is deleted.
LEMMA MsgsSame ==
    ASSUME NEW q, NEW r, NEW s, DOMAIN r = DOMAIN q,
           \A i \in DOMAIN q : /\ r[i].msg = q[i].msg /\ r[i].queue = q[i].queue
                               /\ r[i].state = "deleted" <=> q[i].state = "deleted"
    PROVE  MsgsIn(r, s) = MsgsIn(q, s)
BY DEF MsgsIn, CopiesIn

\* Deliveries, expired leases and copies given back leave a message where it is.
LEMMA MsgsShown ==
    ASSUME NEW Msgs, NEW Queues, NEW q \in Seq(CopyOf(Msgs, Queues)), NEW i \in DOMAIN q,
           q[i].state # "deleted", NEW s
    PROVE  MsgsIn(Shown(q, i), s) = MsgsIn(q, s)
<1> DEFINE z == Shown(q, i)
<1>1. /\ DOMAIN z = DOMAIN q
      /\ \A j \in DOMAIN q : /\ z[j].msg = q[j].msg /\ z[j].queue = q[j].queue
                             /\ z[j].state = "deleted" <=> q[j].state = "deleted"
  BY CopyShown
<1> HIDE DEF z
<1>2. MsgsIn(z, s) = MsgsIn(q, s)
  BY <1>1, MsgsSame
<1> QED BY <1>2 DEF z

LEMMA MsgsLeased ==
    ASSUME NEW Msgs, NEW Queues, NEW q \in Seq(CopyOf(Msgs, Queues)), NEW S,
           \A i \in S : q[i].state # "deleted", NEW s
    PROVE  MsgsIn(Leased(q, S), s) = MsgsIn(q, s)
<1> DEFINE z == Leased(q, S)
<1>1. /\ DOMAIN z = DOMAIN q
      /\ \A j \in DOMAIN q : /\ z[j].msg = q[j].msg /\ z[j].queue = q[j].queue
                             /\ z[j].state = "deleted" <=> q[j].state = "deleted"
  BY LeasedCopies
<1> HIDE DEF z
<1>2. MsgsIn(z, s) = MsgsIn(q, s)
  BY <1>1, MsgsSame
<1> QED BY <1>2 DEF z

LEMMA MsgsGivenBack ==
    ASSUME NEW Msgs, NEW Queues, NEW q \in Seq(CopyOf(Msgs, Queues)), NEW d, NEW t, NEW s
    PROVE  MsgsIn(GivenBack(q, d, t), s) = MsgsIn(q, s)
<1> DEFINE z == GivenBack(q, d, t)
<1>1. /\ DOMAIN z = DOMAIN q
      /\ \A j \in DOMAIN q : /\ z[j].msg = q[j].msg /\ z[j].queue = q[j].queue
                             /\ z[j].state = "deleted" <=> q[j].state = "deleted"
  BY GivenBackCopies DEF CopiesIn
<1> HIDE DEF z
<1>2. MsgsIn(z, s) = MsgsIn(q, s)
  BY <1>1, MsgsSame
<1> QED BY <1>2 DEF z

LEMMA MsgsAdded ==
    ASSUME NEW Msgs, NEW Queues, NEW q \in Seq(CopyOf(Msgs, Queues)), NEW m \in Msgs,
           NEW s \in Queues, NEW t
    PROVE  MsgsIn(Added(q, m, s), t) = IF t = s THEN MsgsIn(q, t) \cup {m} ELSE MsgsIn(q, t)
<1> DEFINE z == Added(q, m, s)
<1>1. /\ Len(q) + 1 \in DOMAIN z
      /\ \A j \in DOMAIN z : j \in DOMAIN q \/ j = Len(q) + 1
      /\ \A j \in DOMAIN q : j \in 1 .. Len(q) /\ j \in DOMAIN z /\ z[j] = q[j]
      /\ Len(q) \in Nat
      /\ z[Len(q) + 1] = NewCopyOn(m, s)
  BY CopyAdded
<1> HIDE DEF z
<1>2. /\ z[Len(q) + 1].msg = m /\ z[Len(q) + 1].queue = s
      /\ z[Len(q) + 1].state = "visible"
  BY <1>1 DEF NewCopyOn
<1>3. CopiesIn(z, t) = IF t = s THEN CopiesIn(q, t) \cup {Len(q) + 1} ELSE CopiesIn(q, t)
  BY <1>1, <1>2 DEF CopiesIn
<1>4. \A i \in CopiesIn(q, t) : z[i].msg = q[i].msg
  BY <1>1 DEF CopiesIn
<1>6. MsgsIn(z, t) = IF t = s THEN MsgsIn(q, t) \cup {m} ELSE MsgsIn(q, t)
  BY <1>2, <1>3, <1>4 DEF MsgsIn
<1> QED BY <1>6 DEF z

\* The messages of all copies ever stored.
Stored(q) == {q[i].msg : i \in DOMAIN q}

LEMMA StoredSame ==
    ASSUME NEW q, NEW r, DOMAIN r = DOMAIN q, \A i \in DOMAIN q : r[i].msg = q[i].msg
    PROVE  Stored(r) = Stored(q)
BY DEF Stored

VisibleOn(a, s) == \A k \in DOMAIN a : a[k].queue = s /\ a[k].state = "visible"

LEMMA MsgsAllAdded ==
    ASSUME NEW Msgs, NEW Queues, NEW q \in Seq(CopyOf(Msgs, Queues)),
           NEW a \in Seq(CopyOf(Msgs, Queues)), NEW s, NEW t,
           VisibleOn(a, s)
    PROVE  MsgsIn(AllAdded(q, a), t) = IF t = s THEN MsgsIn(q, t) \cup Stored(a)
                                   ELSE MsgsIn(q, t)
<1> DEFINE z == AllAdded(q, a)
<1>1. /\ \A i \in DOMAIN q : i \in DOMAIN z /\ z[i] = q[i]
      /\ \A k \in DOMAIN a : Len(q) + k \in DOMAIN z /\ z[Len(q) + k] = a[k]
      /\ \A i \in DOMAIN z : i \in DOMAIN q \/ (i - Len(q) \in DOMAIN a /\ z[i] = a[i - Len(q)])
  BY CopiesAdded
<1> HIDE DEF z
<1>2. \A i \in CopiesIn(q, t) : i \in CopiesIn(z, t) /\ z[i].msg = q[i].msg
  BY <1>1 DEF CopiesIn
<1>3. t = s => \A k \in DOMAIN a : Len(q) + k \in CopiesIn(z, t) /\ z[Len(q) + k].msg = a[k].msg
  BY <1>1 DEF CopiesIn, VisibleOn
<1>4. \A i \in CopiesIn(z, t) :
        \/ i \in CopiesIn(q, t) /\ z[i].msg = q[i].msg
        \/ t = s /\ i - Len(q) \in DOMAIN a /\ z[i].msg = a[i - Len(q)].msg
  BY <1>1 DEF CopiesIn, VisibleOn
<1>5. MsgsIn(q, t) \subseteq MsgsIn(z, t)
  BY <1>2 DEF MsgsIn
<1>6. t = s => Stored(a) \subseteq MsgsIn(z, t)
  BY <1>3 DEF MsgsIn, Stored
<1>7. MsgsIn(z, t) \subseteq IF t = s THEN MsgsIn(q, t) \cup Stored(a)
                                     ELSE MsgsIn(q, t)
  BY <1>4 DEF MsgsIn, Stored
<1>8. MsgsIn(z, t) = IF t = s THEN MsgsIn(q, t) \cup Stored(a)
                              ELSE MsgsIn(q, t)
  BY <1>5, <1>6, <1>7
<1> QED BY <1>8 DEF z

\* Only messages of D leave the queue they are deleted from.
LEMMA MsgsDeleted ==
    ASSUME NEW Msgs, NEW Queues, NEW q \in Seq(CopyOf(Msgs, Queues)), NEW D, NEW s,
           NEW r \in Deletions(q, D, s)
    PROVE  /\ \A t : t # s => MsgsIn(r, t) = MsgsIn(q, t)
           /\ MsgsIn(r, s) \subseteq MsgsIn(q, s)
           /\ \A m \in MsgsIn(q, s) \ MsgsIn(r, s) :
                \E d \in D : d.copy \in CopiesIn(q, s) /\ q[d.copy].msg = m
<1>1. /\ DOMAIN r = DOMAIN q
      /\ \A j \in DOMAIN q :
            /\ r[j].msg = q[j].msg /\ r[j].queue = q[j].queue
            /\ \/ r[j].state = q[j].state
               \/ /\ r[j].state = "deleted"
                  /\ j \in CopiesIn(q, s) /\ \E d \in D : d.copy = j
  BY DeletedCopies
<1>2. ASSUME NEW t, t # s
      PROVE  MsgsIn(r, t) = MsgsIn(q, t)
  <2>1. CopiesIn(r, t) = CopiesIn(q, t)
    BY <1>1, <1>2 DEF CopiesIn
  <2> QED BY <1>1, <2>1 DEF MsgsIn, CopiesIn
<1>3. CopiesIn(r, s) \subseteq CopiesIn(q, s)
  BY <1>1 DEF CopiesIn
<1>4. \A i \in CopiesIn(q, s) \ CopiesIn(r, s) : \E d \in D : d.copy = i
  BY <1>1 DEF CopiesIn
<1>5. \A i \in CopiesIn(q, s) : r[i].msg = q[i].msg
  BY <1>1 DEF CopiesIn
<1>6. MsgsIn(r, s) \subseteq MsgsIn(q, s)
  BY <1>3, <1>5 DEF MsgsIn
<1>7. ASSUME NEW m \in MsgsIn(q, s) \ MsgsIn(r, s)
      PROVE  \E d \in D : d.copy \in CopiesIn(q, s) /\ q[d.copy].msg = m
  <2>1. PICK i \in CopiesIn(q, s) : q[i].msg = m
    BY DEF MsgsIn
  <2>2. i \notin CopiesIn(r, s)
    BY <1>5, <1>7, <2>1 DEF MsgsIn
  <2> QED BY <1>4, <2>1, <2>2
<1> QED BY <1>2, <1>6, <1>7

\* A copy moves from queue s to queue t.
LEMMA MsgsMoved ==
    ASSUME NEW Msgs, NEW Queues, NEW q \in Seq(CopyOf(Msgs, Queues)), NEW s, NEW t \in Queues,
           s # t, NEW i \in CopiesIn(q, s)
    PROVE  /\ MsgsIn(WithQueue(q, i, t), t) = MsgsIn(q, t) \cup {q[i].msg}
           /\ MsgsIn(WithQueue(q, i, t), s) \subseteq MsgsIn(q, s)
           /\ MsgsIn(q, s) \ {q[i].msg} \subseteq MsgsIn(WithQueue(q, i, t), s)
           /\ \A u : u # s /\ u # t => MsgsIn(WithQueue(q, i, t), u) = MsgsIn(q, u)
<1> DEFINE z == WithQueue(q, i, t)
<1>1. /\ DOMAIN z = DOMAIN q /\ i \in DOMAIN q /\ q[i].queue = s /\ q[i].state # "deleted"
      /\ \A j \in DOMAIN q : /\ z[j].msg = q[j].msg
                             /\ z[j].queue = IF j = i THEN t ELSE q[j].queue
                             /\ z[j].state = q[j].state
  <2>1. i \in DOMAIN q /\ q[i].queue = s /\ q[i].state # "deleted"
    BY DEF CopiesIn
  <2> QED BY <2>1, CopyMoved
<1> HIDE DEF z
<1>2. /\ CopiesIn(z, t) = CopiesIn(q, t) \cup {i}
      /\ CopiesIn(z, s) = CopiesIn(q, s) \ {i}
      /\ \A u : u # s /\ u # t => CopiesIn(z, u) = CopiesIn(q, u)
  BY <1>1 DEF CopiesIn
<1>3. \A u : \A j \in CopiesIn(q, u) : z[j].msg = q[j].msg
  BY <1>1 DEF CopiesIn
<1>4. /\ MsgsIn(z, t) = MsgsIn(q, t) \cup {q[i].msg}
      /\ MsgsIn(z, s) \subseteq MsgsIn(q, s)
      /\ MsgsIn(q, s) \ {q[i].msg} \subseteq MsgsIn(z, s)
  <2>1. z[i].msg = q[i].msg
    BY <1>1
  <2>2. MsgsIn(z, t) = MsgsIn(q, t) \cup {q[i].msg}
    BY <1>2, <1>3, <2>1 DEF MsgsIn
  <2>3. MsgsIn(z, s) \subseteq MsgsIn(q, s)
    BY <1>2, <1>3 DEF MsgsIn
  <2>4. MsgsIn(q, s) \ {q[i].msg} \subseteq MsgsIn(z, s)
    BY <1>2, <1>3 DEF MsgsIn
  <2> QED BY <2>2, <2>3, <2>4
<1>5. ASSUME NEW u, u # s, u # t
      PROVE  MsgsIn(z, u) = MsgsIn(q, u)
  BY <1>2, <1>3, <1>5 DEF MsgsIn
<1>6. /\ MsgsIn(z, t) = MsgsIn(q, t) \cup {q[i].msg}
      /\ MsgsIn(z, s) \subseteq MsgsIn(q, s)
      /\ MsgsIn(q, s) \ {q[i].msg} \subseteq MsgsIn(z, s)
      /\ \A u : u # s /\ u # t => MsgsIn(z, u) = MsgsIn(q, u)
  BY <1>4, <1>5
<1> QED BY <1>6 DEF z
=============================================================================
